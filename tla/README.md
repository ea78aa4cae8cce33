# A verification development for the radio, configuration and fault daemons

Three daemons (`src/radio`, `src/configuration`, `src/fault`) talk to each
other in three ways: through shared memory objects (`SharedMemory-lib`),
through named pipes (`NamedPipeLibrary`) and over TCP (`socket-lib`); a fourth
library (`daemon-lib`) makes a process a daemon. This directory holds TLA+
models of that code, TLC configurations that check them on small instances,
and TLAPS proofs about them. `PROJECT.json` ties each definition to the source
lines it stands for.

## 1. The system

| part | state | operations | who it talks to |
|---|---|---|---|
| `SharedMemory` object (`Core`) | the named object, its size, `fd`, `shmp`, `err` | `Init`, `Close` | every process that uses the name, the operating system |
| `SharedMemory` streams (`Core`) | `shrData`: `state` (who owns the memory), `tag`, `dataSize`, `data[16]` | `SendStreamCore`, `RecieveStreamCore`, numbers, flag, tag | the other side, by polling the flag |
| `SharedMemoryServer` | frequency, power, faults, `working` | eleven handlers by tag, `WorkLoop`, `Stop` | one client per object; the daemon's main thread calls `Stop` |
| `SharedMemoryClient` | `working` | eleven commands, `WorkLoop`, `Stop` | one server; its user |
| `SharedMemoryClient_A` (fault, configuration) | `working` | a loop that pings every 10 s | the radio |
| `NamedPipeLibrary` | two FIFOs; frequency, power, alarms of the server | nine requests, read/write that open and close the pipe each time | radio and configuration as clients, fault as server |
| `socket-lib` | listening socket; frequency, power, emergencies of the server | ten requests, one connection each | configuration as server, radio and fault as clients |
| `daemon-lib` | `m_is_running`, mutex, condition variable | `run`, `stop`, signal handlers, fork | systemd |
| the three daemons | their threads | `on_start`, `on_update`, `on_stop`, `on_reload` | all of the above |

What makes them hard:

* `SharedMemory` has no lock. Two processes take turns by polling one flag, and
  both wait loops give up after about a second. After a give-up the two sides
  may be in any combination of calls, and nothing tells a late answer from a
  fresh one.
* `RecieveStreamCore` reads `dataSize` after it gave the memory back.
* Some calls move the flag without owning the memory: `GetFrequency` and
  `GetPower` when they waited too long, `Stop()`, a server that starts.
* Processes die and start again while the object stays as it was, and `Close`
  unlinks the name under the others.
* `Init` takes several system calls and tests `errno` even after a success.
* The daemons start threads, block in `on_start`, and are stopped by a signal
  whose handler runs between two steps of the main thread.
* Two threads run the accept loop of one `Server`, and two users one
  `Transport`, without a lock; file numbers are used again.

What makes each part correct: a stream delivers the message or says that it
did not; only the owner touches the memory; a tested number is the one that is
stored; a command takes effect once and its user learns what came of it; calls
return; `Stop()` ends the loop; all who open a name meet in one usable object;
a request over a pipe is handled once and its client gets the answer to it; a
request over a socket takes effect once and gets its own answer, and no client
ends another or the server in passing; a `stop()` ends the update loop, with at
most one more update or wait; a thread that is made is joined once.

## 2. The modules

| module | what it is |
|---|---|
| `StreamTransfer` | abstract: what one stream transfer promises its two callers |
| `ShmStream` | one `SendStreamCore` against one `RecieveStreamCore`, polls counted |
| `ShmStreamProofs` | invariants and refinement of `ShmStream`, proved |
| `ShmMemory` | the shared record and both stream calls, usable by either side |
| `ShmServer` | `SharedMemoryServer_A`'s loop and handlers, `Stop()`, death and restart (EXTENDS `ShmMemory`) |
| `ShmClient` | `SharedMemoryClient`'s commands (EXTENDS `ShmMemory`) |
| `RadioService` | abstract: the radio as an object with atomic operations |
| `ShmSession` | server, client, user and deaths composed; the properties |
| `MCShmSession` | numbers for the instances of `ShmSession` |
| `ShmSessionProofs` | types, ownership, ranges and atomicity of `ShmSession`, proved |
| `ShmObject` | `Init` and `Close` of any processes over any names |
| `MCShmObject` | the three daemons and two names of this system |
| `ShmObjectProofs` | types, meeting in one object, and its size, proved |
| `NamedPipeTransport` | FIFOs and files by name, and `NamedPipeTransport`'s read and write over them |
| `NamedPipes` | `ServerApp`, any `ClientApp`s, their starts and ends (EXTENDS `NamedPipeTransport`); the properties |
| `PipeDevice` | abstract: the server as a device with atomic operations, for one client |
| `MCNamedPipes` | fault's server and two clients; two ways to wire the pipes |
| `NamedPipeTransportProofs` | what each operation on a pipe leaves alone, as lemmas |
| `NamedPipesProofs` | types, pipes, requests handled once, who is ended by whom, and the refinement of `PipeDevice`, proved |
| `Daemon` | `daemonpp::daemon` under any callbacks: start, update loop, signal handler, threads |
| `MCDaemons` | the callbacks of the three daemons, and a daemon without threads |
| `DaemonProofs` | types of any daemon, and what a `stop()` leaves to do, proved |
| `MCDaemonsProofs` | that none of the three daemons cleans up, proved |
| `Vectors` | `std::remove` with `erase`, by which an emergency is cleared |
| `SocketConnections` | connections, file numbers and the calls of `Socket.h` |
| `Sockets` | `Server` with its threads, `Transport`s with their users (EXTENDS `SocketConnections`); the properties |
| `SocketDevice` | abstract: the server as a device with atomic operations, for all users |
| `MCSockets` | which daemon each user's thread is in |
| `SocketsProofs` | types, who is ended by whom, and the refinement of `SocketDevice`, proved |

### How they correspond to the code

**Steps.** An action is what a thread does between two accesses of shared
state that the other side can tell apart. In `SendStreamCore` these are the
copy of a chunk with its size (`Fill`: two stores, both between two stores of
the flag, and read only after the flag), the store of the flag (`Give`), each
look at the flag (`Acked`, `GiveUp`), and the last store (`Final`). In
`RecieveStreamCore` they are the look that finds the memory owned, with the
append that follows (`Take`), the acknowledgement (`Ack`) and the late read of
`dataSize` (`Check`). In the handlers every `GetNumber()` is a read of its own
where the outcome depends on it: `HandleSetFrequency` tests one, and
`AssignFrequency` stores another.

**Memory order.** `state` is a plain `bool` in memory two processes share.
Formally that is a data race. The models assume what an x86 build does of this
source: stores become visible in program order, and every look at the flag is
a load, since each loop calls `usleep`, which the compiler cannot see through.
The one load that may move within these limits, that of `dataSize` around the
store of the flag, is covered: the models take it after the store, and a load
before it only gives the value that a `Check` at once would.

**Data.** Text is chunks of `bufsize` bytes. `left` is `dataSize` in chunks, so
`dataSize <= bufsize` is `left <= 1`. A chunk carries which text it is of,
which request it answers (a history field, not in the code) and the number
`GetNumber()` would read from it (`TextNumbers`, chosen by the run). The list
of faults is as long as the code makes it for codes of one character. "ok" and
"ok, power off" are one text.

**The user.** Everything a user types is a step of its own, because the thread
sits in `std::cin` until he does. In a session this is the command (`Prompt`)
and, in the middle of a command, the number (`SetNumber`) or the string
(`SendStr`) it asks for; the client owns the memory that long, and the server
waits. Over sockets it is the choice (`Choose`) and then, for some, the number
(`TypeNumber`): the connection is made before both, and a thread of the server
sits in `read()` meanwhile, serving nobody else. No fairness makes a user type.

**Time.** `ShmStream` counts polls, as the code does. The session does not: an
await loop may give up whenever it finds it is not its turn (`Timeouts`), or
both sides are always fast enough (`~Timeouts`). The first is weaker than the
code (a loop may give up at once), so what holds there holds for every
relation of the two clocks; the second is the ordinary case, handlers that
answer within a second.

**Processes.** A death loses the process's fields and its place in the code and
keeps the object. A client or server that starts again takes the memory as it
finds it; the server passes control to the client (`Grant`, radio.cpp:20).

**Names.** In `ShmObject` a process constructs its `SharedMemory` objects one
after the other, with `errno` carried from one to the next (or overwritten by
the line `SharedMemoryServer_A`'s constructor writes to syslog), and destroys
them in the reverse order when its `main()` returns. At this commit no daemon
gets that far, because `on_stop` joins threads that cannot be joined; `Close`
is modelled as the library offers it, `Die` stands for every other end. An
`shmp` that was never set is left to chance: `munmap` of it may fail
(`CloseUnmapped`) or succeed (`Close`).

**Pipes.** `NamedPipeTransport` opens a pipe anew for each packet, so the
system calls matter and `NamedPipeTransport.tla` models those of Linux. `open`
of a FIFO blocks until the other end is opened, and who waits there counts as
an end already (`mode`, `fd`); both go on together. `std::istreambuf_iterator`
reads to the end, which comes when the FIFO is empty and nobody has it open
for writing (`Take`, `AtEof`). A packet is written and the pipe closed in one
step: packets are shorter than `PIPE_BUF`, and nothing blocks in between.
`std::ofstream` creates a regular file where the name is free; such a file
never blocks and keeps its contents (`IsFile`). What is read holds all the
packets that were in the pipe, and `Protocol::deserialize` looks at the first:
only the first is kept. The constructor's `access` and `mkfifo` are two steps
for each pipe (`Find`, `Make`), the destructor's two `unlink` are two
(`Leave`, `Left`).

`KEEP_ALIVE` is answered without data, and `sendKeepAlive` wants data that
begins with an 'O': its `Outcome` is always a failure. `PipeDevice` promises
that the call is done, as the client's code expects, and has a parameter for
what fails nevertheless, `Failing`; `NamedPipes` names `KEEP_ALIVE` there and
nothing else (disagreement 6). What a client does with an answer is kept (`told`); what it
prints is not. Requests are numbered (`id`), which the code does not do:
`handled` counts by number how often each was handled. A daemon whose standard
input is closed loops in `ClientApp::run` over a choice it never read: in
`Daemon` that loop may end (`Returning`), and need not. An exception that nobody catches ends
the process (`MakeFails`, `CallThrows`); `ServerApp::run` catches those of a
read. SIGPIPE ends the process too (`SigPipe`).

**Daemons.** A callback is a script: the order in which it logs, makes threads,
calls loops on the main thread, tells loops to stop, and joins. What a loop
does inside is left out but for what ends it: the flag `working`, which it
raises itself when it is entered (`Enter`), a return, an exception, an
`exit()`. The signal handler runs on the main thread, so it is a step between
any two steps of it; while it waits on the condition variable the handler's
`notify_all` moves it (`HandleTerm`). Threads made before `fork()` stay behind
with the parent: the child's `std::thread` is joinable, and its join returns,
as nothing runs under its number ("lost"). A `SIGHUP` only logs. If the main
thread was inside `syslog()`, the handler's first line waits for the lock the
main thread holds, and the process hangs (`HandlerHangs`). Standard input is
closed when `on_start` runs: `Transp` and `clientApp` then loop over a choice
they never read, and nothing makes them end; that they may is the case of a
terminal. `Destroy` stands for the destructors of the members and then of
`daemon`; a member `std::thread` that is still joinable terminates there.

**Sockets.** A client connects, and only then shows the menu, and asks for a
number: `MakeConnection`, `Choose`, `HandleCommand`, `TypeNumber` and
`SendRequest` are five steps, from the first of which to the last the server
may sit in `read()`. An
accepted connection is a number in the process's table, the lowest that is
free; `read()` keeps the file it found, whoever closes the number meanwhile
(`file`). `Accept_client` closes its number twice, by hand and as `new_socket`
is destroyed (`Close`, `Destroy`): what another thread accepted in between is
closed under it. A message carries the choice it was made of (`menu`) and its
connection (`id`), which the code does not send: `effects` keeps by connection
what the request came to. `command` is a field of the `Transport`: its users
share it, and an answer is shown as it says when it comes (`Tell`). An answer
that never came is empty, and shown like an empty one ("No emergencies
raised."). A message for a choice off the menu has whatever command was on the
stack (`Garbage`). Two threads at the vector of emergencies, one changing it,
race: a change may be lost (`Handle`) or the process crash (`Crash`). A second
write to a client that is gone would raise SIGPIPE; that takes two threads,
and is left out.

## 3. What is checked

| run | question | bounds | outcome |
|---|---|---|---|
| `stream` | Is what arrives a prefix? How much can be lost in silence? Do both calls return? | messages of 1 to 4 chunks, three sleeps before a loop gives up, 0 to 2 chunks left over in `dataSize` | holds |
| `stream_whole` | Is a string that is returned the whole message? | the same | violated: the last chunk can be missing |
| `session_punctual` | Is the radio atomic while both sides answer in time? | 3 requests out of 9 commands, numbers -1, 0, 3 around a minimum of 2, texts of one chunk | holds |
| `session_disciplined` | Do give-ups and deaths break ownership, or let a bad number in? | 2 requests out of 6 commands, strings of 0 or 2 chunks, one death | holds |
| `session_all` | Do calls, handlers and `Stop()` end when everything goes wrong? | 2 requests out of 4 commands, strings of 0 or 1 chunk, one death, one `Stop()` | holds |
| `session_livelock` | Do calls return after a longer string was given up? | 2 requests, ping and strings of 2 chunks | violated: both sides receive for ever |
| `object` | Do all who open a name meet in one object, and does `Init` work? | three daemons, two names, four starts in all | holds |
| `object_size` | Does `Init` size every object it makes? | three daemons, two names, two starts | violated by a stale `errno` |
| `pipes` | Is the server atomic to a client that is alone with it? Is a request handled once, whatever clients do to each other? Who can be ended by whom? Does the server get rid of its answers? | a server and two clients, each reading what the other writes; 3 starts, 1 end, 2 requests out of 5 commands, one byte, 4 nodes | holds |
| `pipes_deployed` | Is a request answered, wired as the daemons wire it? | the same processes, all reading one pipe and writing the other; 2 starts, 1 request | violated: both sides block in `open` |
| `daemon` | Does a `stop()` end the update loop, and after how much more? Do joins return? Does a daemon ever clean up? | the three daemons and one without threads, one at a time; signals at every point, as many as come | holds: no daemon of the three cleans up |
| `sockets` | Is the server atomic to its users? Who can end whom? Does every request come to an end? | two acceptors, two users in two processes, 3 connections, an emergency raised, `0` and an unknown choice, one number, `fault` may be killed | holds |

**Why the bounds are enough.** In a stream the two loops are never more than a
chunk apart, so four chunks give a first, two middle and a last one; what
matters of `awaitIter` is that a loop polls several times and then gives up.
In a session, three requests are two neighbours on either side of one, and two
are enough for the answer of one to be taken for that of the next; one death
of either side in every state covers a restart into every state of the memory.
Two chunks are the shortest text whose first chunk is not its last. Where the
bound matters for a verdict it is named: `session_all` takes strings of at
most one chunk because two chunks bring the livelock of `session_livelock`.
With four starts each of the three daemons runs and one of them runs twice.
Over pipes, two requests are one of each client, or two neighbours of one;
three starts let all run, or one of two run again after the one end. Four nodes
are the two pipes and what can come in their places after a `Leave`. The
five commands have one of each shape: no data either way, a byte there, a byte
back, a set changed, a set back.
A daemon has no bound but its scripts, and `late` stops at 2: the loops' flags,
places and threads are finite. Over sockets three connections are the fewest
with which an answer can go to the wrong client: the second `close` of one
takes the number from another, whose request is being handled, and the answer
is written to the third, which got the number in between. Raising an emergency is a command with a number to type, and what two
threads race for. The run has 302771 states and takes minutes; a third user,
who shares fault's `Transport`, or a fourth choice would take it past what is
useful to run with three connections. The other commands and shared Transports
are therefore left to the theorems of `SocketsProofs`, which are about any
users, menus and connections: of the four properties only `Answered` has no
theorem, and it depends on how many threads and numbers there are, not on
which command is sent.

**Fairness.** `FairSpec` of `ShmStream` asks that each side goes on: both are
threads whose loops sleep a fixed time and look again. `FairSpec` of
`ShmSession` asks it of the serving thread and the client's thread, that
somebody starts the radio, and that a `Stop()` once begun is finished. It asks
nothing of the user, neither commands nor the numbers and strings they wait
for, nothing of the main thread and nothing of death: a user who stops after
`setfreq` keeps the memory for ever. `ClientReturns` therefore says that a call
ends or gets back to an input of its user, be it the prompt or the number or
string of the command. `FairSpec` of
`NamedPipes` asks that each process that is up and not blocked goes on; nobody
must start one, and no user must type. `FairSpec` of `Daemon` asks that the
main thread goes on where nothing holds it, that a thread that was made enters
its loop, and that the loops of `Prompt` leave once they find the flag down;
these are the shared memory loops, for which `StopEndsLoop` is checked (with
texts of one chunk) by `session_all`. No loop must end otherwise: `accept` and
a menu wait for others. `FairSpec` of `Sockets` asks that calls that do not
block return and that an `accept` or `read` that finds something does; no user
must type, a choice or a number, and no second thread must enter the loop. A
user who is connected and does not type keeps a thread of the server in
`read()` for ever, so `Answered` has as a premise that nobody does, at the menu
or at the question for a number. All fairness is weak: a
step of a running thread stays enabled until it is taken, except that a FIFO's data may
be taken by another reader first, and then there is nothing to go on with.

**Deadlock.** The sessions, the objects, the pipes, the sockets and the daemons
may stop: a user need not type, and all processes may be gone. Their runs do not
check for deadlock; that nobody waits for ever is `ClientReturns`,
`ServerReturns` and `ClientGetsTurn`, over pipes `Answered` and `ServerGetsRid`,
over sockets `Answered`, and of a daemon `StopIsHeard` and `JoinsReturn`.
`ShmStream` checks it.

### The disagreements

1. **A string can lose its last chunk** (`stream_whole`; SharedMemoryCore.cpp:79-80).
   The receiver acknowledges, the sender stores its last chunk with a
   `dataSize` of one chunk, the receiver reads it and leaves. `OnlyLastChunkLost`
   and `StreamTransfer` say exactly how much can go missing.
2. **Two receivers keep each other busy for ever** (`session_livelock`).
   `toserv` of two chunks is given up by the client while the server is slow;
   the server then receives it, the client is receiving its next answer, and
   each acknowledges the stale chunk to the other. No await loop ever gives
   up, because the flag always moves.
3. **A created object without memory** (`object_size`; SharedMemoryCore.cpp:8).
   The radio opens two names. If configuration was started first and fault was
   not, the radio's second `Init` creates its object, still sees `EEXIST` and
   skips `ftruncate`. The object stays without size for everybody, and the
   first access ends the process with SIGBUS.
4. **The pipes are wired alike on both sides** (`pipes_deployed`;
   ClientApp.cpp:5). Server and clients construct
   `NamedPipeTransport(request pipe, response pipe)`, which reads the first and
   writes the second. The server blocks in `open` of the request pipe for
   reading, the client in `open` of the response pipe for writing, and there is
   no timeout. The run `pipes` crosses the names of the clients, to say what
   the library does with the wiring its messages describe.
5. **No daemon cleans up** (`daemon`, `NeverDestroyed`; radio.cpp:99,
   configuration.cpp:81, fault.cpp:70). `on_stop` of radio and of configuration
   joins a thread that was never made, `on_start` of fault assigns a thread to
   one that is joinable: each ends in `std::terminate`, if its menu loop lets it
   get that far. The destructors that would unlink objects and pipes never run.
6. **Keep Alive never succeeds** (`pipes`; ClientApp.cpp:64). The client wants
   an answer that begins with an 'O', as its comment says, "для "OK"", and would
   then print "Connection is alive."; the server answers without data
   (ServerApp.cpp:27). A live and undisturbed server is reported as "Connection
   check failed." every time. `PipeDevice` promises the success, and the run
   holds because `Failing` excepts this one command; with `Failing` empty TLC
   finds `ImplementsDevice` violated by the first Keep Alive that is answered.

Three things are what the code does, and shape the properties rather than break
one that a comment or a test states. `GetFrequency` and `GetPower` take the
memory back when they waited too long (Client.cpp:49, 60), whatever the server's
handler is doing: `MutualExclusion` is checked and proved without them
(`Disciplined`). A `stop()` that comes before `run()` sets `m_is_running` is
forgotten, and a loop that is told to stop before it raises its flag goes on
for ever: `StopIsHeard` and `JoinsReturn` name both. And from the moment a
second thread runs the accept loop, or two users share a `Transport`, the
server is an atomic device to nobody: `SocketDevice` says so (`Disturb`), while
`EndsExplained` holds all the same, and `Answered` with two threads.

## 4. What is proved

All with TLAPS, for every value of the constants that satisfies the named
assumptions.

**`ShmStreamProofs`** (`MaxChunks`, `AwaitIter` any naturals). The inductive
invariant `IInv` adds to the types: the chunks taken are 1, 2, ... in order
(`InOrder`); what the buffer holds, as a function of where the sender is
(`BufferInv`); how many chunks were taken, as a function of the flag and of
both places (`TurnInv`); and what the receiver's place says of that number
(`ReceiverInv`). The prefix property alone is not inductive: to append chunk
k + 1 the receiver must find exactly that chunk in the buffer, which needs the
flag to tell the number of chunks taken. From `IInv` follow `TypeCorrect`,
`PrefixReceived`, `AtMostLastChunkLost`, `DoneMeansDelivered`, the action
property `BufferStable`, and `Refinement`: `Spec => StreamTransfer!Spec`.

**`ShmSessionProofs`**. `TypeCorrect` holds of the full session, with give-ups,
`Stop()`, taken-back memory and deaths; it needs that a sender inside its loop
has a chunk left (`SendingInv`) and that a client that writes a request has one
(`CommandInv`). `Exclusion`, `FrequencyBound` and `PowerBound` assume
`Disciplined`: no `Stop()`, and if loops can give up, no command that takes
the memory back. Both are needed: either breaks exclusion on a small instance. `OwnerInv` is
inductive because each store of the flag leaves a place that holds the memory
for one that does not. `RangeInv` adds that a number that passed its test is
still in range when it is read again, which is where exclusion is used.

`ExactlyOnce` and `Atomicity` (`Spec => RadioService!Spec`) assume `Punctual`:
no give-ups, no `Stop()`, no deaths, no `exit`, and no text of more than one
chunk, so strings of one, and no list of faults where faults are set. Each
part is needed, as `session_livelock` and the stream runs show for give-ups
and longer texts. The argument is the handshake: `StageInv` lists the twelve
combinations of the server's place, the client's place, the flag and "the last
command was performed" that a session goes through; it is inductive together
with what has been performed (`CountInv`), what the client's place says of its
command (`PlaceInv`), the tag (`RequestInv`) and the one chunk (`ChunkInv`).
For the refinement `ContentInv` adds what the record holds: the typed number
until the command is performed, the answer from then on, and that what the
client received is what the server sent. Then the server's handler is the
service's operation, `Request` its `Call`, the client's last step its `Return`,
and all other steps are none. The service keeps the faults as a bag:
`CountAppend` and `CountErase` say what adding and erasing does to the counts.
`Atomicity` also needs `MaxKept >= 1`: a receiver that keeps nothing tells
nothing.

**`ShmObjectProofs`** (any processes, names, opening orders). `Meeting` and
`InitSucceeds` need what a process inside `Init` knows: the name it is about
to map stands for the object its descriptor has (`AboutToMap`), and an `errno`
other than `EEXIST` means that `shm_open` succeeded (`ErrnoTells`).
`FirstSized`: the first object a process makes has its size before the process
goes on. `FirstOnceAssumption` says that no process constructs its first name
twice (radio.cpp, 51 and 52); a second `Init` of it would find it taken.

**`NamedPipesProofs`** (any processes, wiring, commands and bounds, as long as
the server's two names differ, `WiringAssumption`). Five invariants, each on
the ones before it:

* `TypeInv`: a process has a pipe open exactly in its calls of read and write,
  and what the server reads are requests (`ServerReadsRequests`). The last
  holds because the server writes another pipe than it reads, however the
  clients are wired; without it `reply` has no type.
* `PipesInv`: that a writer finds its pipe needs `PipesThere`, which says of
  each place in the constructor, and of all that follow it, which names are
  taken. `PipesStay` follows. `NodesAssumption` (`MaxNodes \in Nat`) keeps 0,
  which stands for no node, out of the nodes.
* `RequestsInv`: a request that is about to be written, in the server's pipe or
  in its hands is in one of these places only, and unhandled
  (`RequestsAreOne`). `HandledAtMostOnce` follows: another reader can take a
  request away, but nobody puts it back.
* `EndsInv`: a FIFO that may be written has a reader; with one client at most
  one process reads and has not been written to (`OneReads`), and it has a
  packet, or its pipe has one, or the writer who owes it one
  (`ReaderIsServed`). `EndsAreExplained` follows: an empty answer, a missing
  pipe and SIGPIPE each have a cause in `trouble`.
* `AloneInv`, for `Implements`: as long as `trouble` is empty, whoever goes on
  in an `open` has met the other of the two, so both have the pipe of the same
  name (`PipesMeet`); what is on its way to the server, or in its hands, is the
  client's request, and is not handled; what is on its way to the client is
  `reply`, the answer to it, and the server is not at another one
  (`UnderWay`). Then `Ask` is the device's `Call`, `Handle` its `Perform` with
  the outcome that the client will make of the answer (`AnswerSays`; of a Keep
Alive it is the failure that `Failing` allows),
  `Understand` its `Return`, whatever makes `trouble` its `Disturb`, and all
  other steps are none. That the user is told the alarms there are needs that
  `AlarmList` lists them all (`ListHoldsAll`); TLC finds the list by
  enumeration, the proof by the rank of each byte in the set.

`NamedPipeTransportProofs` says once what `OpenRead`, `Take`, `CloseRead` and
the rest do and leave alone, whoever calls them; the other proofs cite it.

**`DaemonProofs`** (any callbacks made of the operations, any threads and
loops). `AtMostOneMore`: after a `stop()` the update loop finishes one
`on_update()` or waits one full duration, never both. The bound alone is not
inductive: once the one thing more is done, the main thread must be on the way
out with the flag down (`LateInv`), and a stop that was asked for and not
forgotten must be in the flag (`FlagTells`), so that no test or predicate lets
the loop begin another round. `TypeCorrect` needs that a script's operations
name threads and loops of the daemon (`ProgramsAssumption`), and that the main
thread is inside a loop only while the operation it is at calls one.

**`MCDaemonsProofs`** is about the three daemons. `NoneDestroyed`: `main()`
returns in none of them, so nothing that the destructors would unlink is ever
unlinked. `StaysInv` says of each script what it cannot get over: radio's
`on_stop` does not pass the join of `client_thread`, which nothing makes;
configuration's not that of `loop_radioSM`; fault's `on_start` not the second
time it makes `server_thread`, which nothing joins in between. The theorem
quantifies over the daemons (`Programs \subseteq MCPrograms`) and over
everything a step can do.

**`SocketsProofs`** (any threads in the loop, users, processes, menus and
connections). `TypeCorrect` needs what the places hold (`PlacesHold`) and, for
the list of emergencies, that removing a value from a list leaves a list
(`WithoutType`). `Vectors` therefore says by cardinalities what `SelectSeq`
says by recursion, and the proof counts with the least-number principle;
`MCSockets` has TLC compare the two on short lists.

The other two theorems rest on an argument about the calm: one thread in the
loop, nobody killed, the server there (`Calm`). `ConnectionsInv` says that a
connection has one client and is in one place of the server, and `CalmInv` that
then the thread keeps the descriptor of the connection it serves
(`KeepsDescriptor`), and that a connection whose client has not written is on
its way to that thread, while one whose client is gone has been written to
(`WaitedFor`). So in the calm no write of a client fails, no descriptor is bad
and no read comes back empty (`CalmSteps`). `EndsAreExplained` follows:
whatever ends a client or breaks the loop, the calm was over. The server's exit
needs a second thread of argument: `EXIT` in a connection, or in a request that
is ready to be sent, means that somebody was tempted (`ExitTempted`); a request
that still waits for its number is one of those that take one (`DraftsTyped`).

`Implements`, that `Sockets` implements `SocketDevice`, adds `DeviceInv`: as
long as nothing is disturbed a process has one user with a connection
(`OneUser`), who is shown an answer as it was asked for (`AskedAsChosen`);
nothing that is not sent has an effect (`NoEffectYet`); a call that waits has
no effect while its request is on the way, the effect of the answer while that
is written, and the effect that the answer in its connection says
(`AwaitsProgress`); and each request in the server still has its sender
(`HasSender`). Then `SendRequest` is the device's `Call`, `Handle` its
`Perform` for the one who sent the request, `Receive` its `Return`, `Miss` its
`Fail` (the server is gone, and there was no effect), `HandleExit` its `Stop`,
whatever ends the calm its `Disturb`, and all other steps are none.

Assumptions on the constants, all named in the modules that declare them, and
evaluated by TLC in the runs: the threads of the loop are finitely many
(`ConnectionsAssumption`); what a user chooses is on the menu, or is nothing,
and no user's process is the server's (`UsersAssumption`); requests, starts and
ends over pipes have a bound (`BoundsAssumption`), requests are of the nine
types (`CommandsAssumption`), and what users type is a `uint8_t`
(`BytesAssumption`).

Only model-checked: every liveness property, as TLAPS proves none under
fairness. Every invariant, action property and refinement that a passing run
checks is a theorem.

## 5. What is not modelled, and the plan

Not modelled, and not planned: reading configuration files, logging (but for
the lock of `syslog`), service units, build files.

* The ping loop of `SharedMemoryClient_A` and the 14 seconds within which the
  README says that a daemon closes. At this commit no daemon runs the loop:
  fault is terminated one statement before the one that makes its thread, and
  configuration makes none (`daemon`). What `Daemon` has of the loop is how it
  is entered, told to stop and left. A model of its timing would begin in a
  state the program cannot be in.
* A start of the socket server that fails in `bind()`, because a connection of
  its predecessor lingers; a full backlog; answers cut off at 256 bytes; the
  second write to a client that is gone.
* Failures of system calls that say nothing about the other processes: a full
  disk, missing permissions, no more threads.

Left to prove: what the liveness properties rest on and is safety. The first is
that the two ends of a pipe never wait for each other for ever: in no state
that is undisturbed do client and server both sit in an `open` that the other
will not answer, or in a `read` of what nobody will write (`OneReads`,
`ReaderIsServed` and `UnderWay` are most of the way there). The second is the
same for the semaphores of a punctual session.
