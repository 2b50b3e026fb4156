# A verification project for epoll_server

epoll_server is a multi-threaded TCP echo server in C++14. One main reactor
accepts connections and gives each to one of several sub reactors; every
reactor is an `epoll` loop on a thread of its own. Messages are TLV frames (an
8-byte header and a body of at most 4096 bytes), and the server answers each
with the same body.

This directory models that program in TLA+, checks the models with TLC on small
instances, and proves some of the results with TLAPS for all instances. Every
definition is taken from the source; `PROJECT.json` maps each to its lines,
and lists the runs, the mutants, the hazards and the theorems.

## 1. The system

| Component | State it keeps | Operations | Interacts with |
|---|---|---|---|
| `EventLoop` | `to_do_list` under `mu`, `calling_funcs`, `tid_`, an eventfd and its channel | `Start`, `QueueOneFunc`, `RunOneFunc`, `HandleToDoList`, `HandleRead` | every thread may queue functions; the eventfd wakes the loop |
| `Epoller`, `Channel` | the kernel's interest list, `listening_events`, `ready_events`, `in_epoll`, `tied`/`tie` | `Epoll`, `UndateChannel`, `DeleteChannel`, `HandleEvent`, `EnableET/Read/Write` | hands raw `Channel*` to the loop; callbacks of connections |
| `Acceptor` | the listening socket and its channel | `Accept` | calls `Server::HandleNewConnection` on the main thread |
| `Server` | `connectionsMap` (descriptor to `shared_ptr`) | `HandleNewConnection`, `HandleClose`, `HandleCloseInLoop` | a close goes sub reactor, main reactor, sub reactor, as queued functions |
| `EventLoopThread`, `EventLoopThreadPool` | the published `event_loop` of each thread, `event_loops`, `next` | `Start`, `ThreadRunFunc`, `NextEventLoop` | condition variable between main and new thread |
| `Connection` | `state`, the partly read header and body, `send_buffer` | `ConnectionEstablished`, `HandleMessage`, `HandleWrite`, `Send`, `Send2`, `SendWithTwoSysCall`, `HandleClose`, `ConnectionDestructor` | socket, channel, the message callback |
| `Buffer` | a vector, `read_index_`, `write_index_` | `Append`, `Retrieve`, `RetrieveAll` | the send buffer of a connection |
| `EchoServer` | none of its own | `onMessage`, `onConnection`, `main` | answers with `Send2` |
| `Logger` | `is_async`, `async_thread_failed`, `buffer` and the console under `mu`, the stream of the writer thread | `StartAasync`, `AsyncThreadFunc`, `Log`, `Fatal` | every thread may log; the writer empties `buffer` into a file every 30 seconds |
| `client`, `client_longconn` | counters shared by the threads, one socket for each thread | `client_thread`, `main` | the server, over TCP |
| `CurrentThread`, `Config`, `BufferPool`, scripts | | | see section 7 |

What is hard about it, and what would make it correct:

* **The task queue.** A function is appended under the mutex, and the wake-up is
  decided after it was released. No function may be lost, run twice, run out of
  order, or stay in the list of a sleeping loop.
* **Ownership across threads.** Connections are owned by `shared_ptr`s in the
  map, in running callbacks and in queued closures of two threads, while `epoll`
  keeps raw pointers and the map is keyed by descriptors the kernel uses again.
  No pointer may dangle, a close must find its own connection, and a descriptor
  may be closed only after it has left `epoll`.
* **Edge-triggered input and output.** The read loop stops after one message and
  the write callback writes once. Every message must still be answered, in
  order, however reads and writes are cut.
* **The logger.** A call of `Log` is two critical sections with unlocked flags
  between them, and the writer may lose its file at any time. What is in the
  file must be what was logged, in order and once; a missing file must not make
  the queue grow for ever; and no caller may hang.
* **The load generators.** One `read` is taken for a whole answer. A success
  must nevertheless be the answer to its own request, and every failure path
  must close its socket and let the test end.
* **The start.** The condition-variable handshake must neither miss the
  notification nor believe a spurious wake-up.

`PROJECT.json` lists these hazards with the line at which each bites.

## 2. The modules

| Module | Kind | Models |
|---|---|---|
| `TaskQueue` | abstract | what a loop promises who hands it functions |
| `EventLoop` | component | the mechanics of the loop: queue, eventfd, epoll_wait, batch |
| `LoopTasks` | composition | loops that hand one another arbitrary functions; refines `TaskQueue` |
| `ConnLifecycle` | abstract | new, open, closing, gone; a descriptor has one owner |
| `Server` | composition | extends `EventLoop` with accepting, registering, closing and destroying connections on the threads of the server; refines `ConnLifecycle` |
| `EchoService` | abstract | the server seen by the client of one connection: its bytes come back in order until it hangs up |
| `Connection` | component | the bytes of one connection: framing, echo, buffered writing, edge-triggered readiness; refines `EchoService` and uses its send buffer as `ByteQueue` |
| `ByteQueue` | abstract | a first-in first-out queue of bytes |
| `Buffer` | component | the send buffer; refines `ByteQueue` |
| `EventLoopThreadPool` | component | starting the sub reactors, round robin |
| `AsyncLog` | abstract | messages are accepted, and written in order until the file breaks |
| `Logger` | component | the asynchronous logger with its writer thread; refines `AsyncLog` |
| `Clients` | component | both load generators against the server of `EchoService` |
| `MCServer`, `MCBuffer` | TLC | values of constants, symmetry |
| `EventLoopProofs` | proofs | the lemmas of `EventLoop`: each step keeps `LoopInv` |
| `LoopTasksProofs`, `ServerProofs`, `BufferProofs`, `EventLoopThreadPoolProofs`, `LoggerProofs`, `ClientsProofs`, `ConnectionProofs` | proofs | the theorems of section 6 |

### EventLoop, LoopTasks

A loop and the thread that runs it share a name. `pc[l]` says where the thread
is: asleep in `epoll_wait` (`Epoll`), handling channels (`HandleEvent`), before
the swap (`Swap`), running the batch (`Calling`). `QueueOneFunc` is two steps,
because the code releases the mutex between them: the append, and `Notify`,
which evaluates `!IsInLoopThread() || calling_funcs` and writes the eventfd or
not. `queueing[t]` marks a thread between the two. The batch is two variables:
`funcs` (still to run) and `spent` (already run: the closures live until the
vector is destroyed, which matters for ownership in `Server`). The eventfd is a
flag, "the counter is not zero": its value is never used.

`tid_` is uninitialised in the code. `Init` lets it hold the id of the loop's
own thread, of no thread, or of a thread in the constant `StrayTids`. All runs
and theorems set `StrayTids = {}`: they assume that the garbage is not, by
chance, the id of *another* reactor thread. If it were, the wake-up decision of
`QueueOneFunc` would be wrong for that thread.

`LoopTasks` lets the code a thread runs (a callback or a queued function) call
`RunOneFunc` and `QueueOneFunc` of any loop with any function not used before.
The refinement to `TaskQueue` maps its queue to `funcs \o to_do_list`.

### Server

The kernel side is `unread` (whole messages received), `backlog` (the listen
queue), `interest` (the epoll entry) and `edges` (the ready list). A thread in
a callback has `handling[l]` (which connection its guard keeps alive) and
`step[l]` (how far it is). Accepting is three steps, between which the sub
reactor runs: `Accept` (accept4, the constructor with `EnableET`), `Establish`
(the map, the state, `Tie`), `EnableRead`.

`event_loops` is a variable that `Init` chooses from the constant `Pools` and no
step changes: one run covers several sizes of the thread pool. `EpollWait`
reports all that is ready, or, when that is more than `EVENT_NUM`, any choice of
that many (the wake-up channel counts); edges that are left out stay in the
ready list, level-triggered channels are found again.

There is no reference count: `Held(c)` says whether some owner of the
connection exists - the map, a callback, a closure in `to_do_list`, `funcs` or
`spent` of a loop. `Destroyed(c)` is its negation after construction; the
descriptors of destroyed connections are free and may be accepted again.

`ReadCallback` abstracts `ReadNonBlocking` and `onMessage` to one message: it
is read and answered, or too long, or there is nothing (EAGAIN, end or error).
That it takes one message at most, and that answering with `Send2` makes
`epoll` look at the socket again, is kept, since the liveness of closing
depends on it. (That `EPOLL_CTL_MOD` cannot fail, since the descriptor is
registered; `EnableET` and `EnableRead` can.)

`ClientClose` stands for all the ways a client goes: shutting down, closing,
resetting, being lost. What a write to it does is therefore for the kernel to
choose. It succeeds if the peer has only sent its FIN; it fails, and the
connection closes, if a reset is pending (`WriteCallback`); and if the read
callback of the same event was told of the reset already, it raises SIGPIPE,
since `Send2` leaves `EPOLLOUT` enabled: `killed`, the whole server ends
(`WriteKills`), and no step follows. `Connection` says which of the three it is.

### Connection

One connection alone, byte by byte, on the thread of its loop. `Read` is one
call of `read(2)`; its five cases are the branches of `ReadNonBlocking`. `stream`
is all that the peer has sent, of which `taken` bytes have been read. Bytes
carry their position (`<<"len", n, k>>`, `<<"body", i, k>>`), so that a
swapped, stale or repeated byte is seen. `SendApis` holds the sending
functions `onMessage` may use; the echo server calls `Send2`, and the two others
are checked as well since they are part of the interface. The peer
sends, shuts down, resets and reads at will; TCP delivers in pieces of any
size; the kernel takes at most `SendSpace` bytes the peer has not read. The
kernel's rule that a socket becomes writable again only when a third of its
buffer is free is abstracted to "some space is free after a short write".
Writing to a connection whose reset has already been reported raises SIGPIPE,
which the program does not handle: `killed`.

The end of the stream closes the connection, but the write callback of the same
event still runs: `HalfCloseAnswered` says that a peer which only shuts down its
side gets its answers, as far as the kernel has room for them at that moment.
What does not fit is dropped by the code.

Two properties need no fairness and say what the liveness rests on.
`ImplementsEcho` refines `EchoService`: the answers written are a growing part of
the stream, and nothing follows a hang-up (the channel has left `epoll`, or the
process has ended). `AnsweredAtRest` says when the thread may leave a connection
alone: asleep in `epoll_wait`, with no edge pending, it has unsent bytes only
while the kernel has no space and watches for some; with `Send2` nothing
readable is left and no message that arrived whole is unanswered; and a
connection that was closed in peace has written all it had room for.

### Buffer

`AppendMessage`, `Retrieve`, `RetrieveAll` and the growth of the vector.
`write_index_` has no bound in the code; `MaxIndex` bounds it for TLC only and
is arbitrary in the proofs.

### EventLoopThreadPool

`main` is where the main thread is: creating thread i, checking `event_loop`
under the mutex, waiting, or running its own loop. A thread constructs its loop,
publishes and notifies under the mutex, and runs the loop. `Wake` is a spurious
wake-up; it has no fairness.

### Logger

`pc[t]` is where a thread is in `Log`: before the console, before the test of
the flags, before the push. The console and the push take `mu` and are one step
each, enabled only while the writer is not in a batch (`Locked`); the test takes
no mutex. The writer is the thread `writer`: it opens the file or fails to, calls
`Log` itself in both cases, and then alternates between a batch (one step per
message) and its sleep. A message is `<<thread, number of its call>>`.
`target_stream` is `failed` from the message on whose write fails, and
`unopened` when there was never a file. `late` is a history variable: the
messages queued after the open failed. `terminated` is what `Fatal` does; no
step follows it. The flags `is_async` and `async_thread_failed`, which the code
reads and writes without the mutex, are taken as sequentially consistent.

This is the logger of `echoserver.cpp`, the only one `StartAasync` is called
for: `Logger` is a static object in a header, so that each source file has its
own. There the main thread is the only caller; the class is modelled for any
number of threads, as its mutex suggests it is meant.

### Clients

One module for both programs, which share their structure: `program` is chosen
by `Init`, and says whether a failure ends the request or the thread, and whether
a connection serves one request or all. The server is external: it answers with
the bytes it was sent, in order and in pieces of any size, and may hang up. This
is `EchoService`, which `Connection` implements; the constant `observed` names
any one thread, whose connection is compared with that service. The size of a message is chosen freely from
`Sizes`, since the threads race for the static counter it comes from. A write
after the hang-up may succeed, fail, or raise SIGPIPE; main divides by
`successful_requests` (`SIGFPE` if it is 0) after it has printed the totals, so
that `TotalIsComplete` covers that end too. `inet_pton` is given a constant
address and cannot fail.

## 3. The runs

| Run | Question | Bounds |
|---|---|---|
| `loops` | types, no lost wake-up, the assertion of `HandleRead`, refinement of `TaskQueue` with its liveness | 2 loops, 3 functions |
| `loop_tid` (violated) | does `RunOneFunc` on the own thread run at once? | 2 loops, 2 functions |
| `buffer` | order of indices, refinement of `ByteQueue` | 2 byte values, messages up to 3 bytes, initial size 2, index up to 6 |
| `pool` | only live loops, even spread, the start ends | 4 threads, 3 connections for each |
| `server_safety` | dangling channels, close finds its connection, deregistration before destruction, nothing forgotten by sleeping loops, refinement of `ConnLifecycle` | 2 clients, 2 descriptors; no, 1 or 2 sub reactors; 2 events per `epoll_wait`; 1 message of each client, 1 failure of `epoll_ctl`, but with one sub reactor a message or a failure only, and with two neither (`Bounded`) |
| `server_live` | connections of gone clients are freed, unless SIGPIPE ends the server before | no or 1 sub reactor, 2 clients, 1 descriptor, 1 message at a time |
| `server_accept` (violated) | does a failed accept close the client? | 2 clients, 1 descriptor |
| `conn_echo` | answers equal requests; reading stays in step; refinement of `EchoService`; all three ways to answer, in any mixture | headers of 2 bytes, bodies up to 2, 3 messages, a kernel buffer of 3 bytes |
| `conn_live` | every message answered, every end closes, a half-closed peer is answered; nothing left at rest | 3 messages, a kernel buffer of 4 bytes |
| `conn_pipelined` (violated) | is a received message handled, with `Send`? | 2 messages |
| `logger` | order and completeness of the file, the queue without a file, calls return | 2 threads and the writer, 2 calls each, batches of 2 |
| `clients` | successes are answers to their requests, sockets closed, totals, end | 2 threads, 3 requests each, a header of 1 byte, bodies of 0 and 2 |

Why the bounds are enough to be interesting: one descriptor for two clients
makes its reuse the only way for the second to be served, and a full process
at the same time; four channels can be ready at once on the single reactor,
twice what `epoll_wait` reports; a batch of the logger can be smaller than its
queue, and its stream can fail at any message; the third request
of a client can meet the rest of an answer of the first or the second; with three functions one runs, one waits behind it in the batch, and one is
queued meanwhile; a two-byte header can be cut, and a
kernel buffer smaller than an answer forces short writes; lengths include zero,
the maximum and one more. Symmetry is used in safety runs only.

Deadlock is checked for the loops, which never stop (an `epoll_wait` may always
return). It is off for `Server`, which sleeps when all clients have gone or
ends by SIGPIPE, for `Connection`, whose peer may fall silent and whose process may be killed, for
`EventLoopThreadPool`, which ends at its bound of connections, and for `Logger`
and `Clients`, whose processes end.

Each property of a passing run has a mutant in its module: a variant of one
mapped definition with a plausible bug (a dropped guard, a wrong order, an
off-by-one, a missing reset), under which TLC finds that property violated.

## 4. Fairness

* Threads are weakly fair as long as the process lives: the operating system
  schedules every thread that can run. This is all the code relies on.
* `epoll_wait` must return only when something is ready to be reported: in
  `LoopTasks` the wake-up channel, in `Server` also a readable connection or a
  client in the backlog, in `Connection` an edge. In `LoopTasks` it *may* also
  return otherwise (a signal, other channels) and may leave the wake-up out when
  others fill its array, but not for ever: strong fairness, since the kernel
  serves its ready list in turn. `server_live` has room for all events.
* The writer of the logger takes its mutex again and again, but sleeps 30
  seconds without it in between: whoever waits for the mutex gets it, which is
  strong fairness of the steps that need it.
* The server of `Clients` answers or hangs up, sooner or later; a server that
  does neither blocks the clients, whose reads have no time-out.
* Spurious wake-ups of the condition variable are not required.
* Clients owe nothing in `Server`. In `Connection`, `FairSpec` assumes that TCP
  delivers what was sent and that the peer reads its answers;
  `EveryMessageAnswered` needs both, as a stalled peer blocks its own answers.
* `server_live` excludes failures of `epoll_ctl`: the code
  ignores them, and a connection that could not be registered is never served
  or freed. It does not exclude resets: a write to a client that is gone may
  raise SIGPIPE, after which nothing is freed but by the end of the process.
  `GoneClientsFreed` therefore allows `killed`, as `EndCloses` does.

## 5. Disagreements found

* **`RunOneFunc` never knows its own thread** (`loop_tid`). `eventloop.h:31`
  says that a function given by the thread that created the loop is run at
  once. `tid_` is never assigned. The consequence is benign: the function is
  queued, and every queued function is run.
* **A failed accept closes nothing** (`server_accept`). `acceptor.cpp:73` says
  that the client's connection is closed; the code calls `close(-1)`. The client
  waits in the listen queue, whose level-triggered channel wakes the main
  reactor until a descriptor is free.
* **A pipelined message may wait** (`conn_pipelined`). `connection.h:47` says
  that the callback runs when a message has been received. The read loop stops
  after one message on an edge-triggered channel; with `Send` or
  `SendWithTwoSysCall` nothing may make `epoll` report the rest. With `Send2`,
  which the echo server uses, its `EPOLL_CTL_MOD` does (`conn_live`).

Seen while reading, and not checked by a run since no text of the repository
promises the contrary: `client.cpp` hashes the vector `received`, into which
nothing was read, and both hashes it compares are always 0 (`client.cpp:108-114`);
`Bind` and `Listen` log success also after they have logged a failure
(`acceptor.cpp:44-63`); what does not fit into the kernel's buffer at the end of
the stream is dropped (`connection.cpp:318`).

## 6. The proofs

**Loops** (`EventLoopProofs`, `LoopTasksProofs`), for any sets of loops and
functions, assuming `NoLoop \notin Loops` and `StrayTids = {}`:
`TypeCorrect`, `WakeupsKept`, `WakeReads`, `LoopsImplementTaskQueue`.
`NoLostWakeup` is not inductive: it says nothing of a loop that is awake and
will sleep without looking again. `LoopInv` adds `ControlInv` (what each `pc`
implies) and `AnnouncedInv`: a non-empty list is announced by the eventfd, or
by a foreign thread between its append and its write (it will write, since
`tid_` is not its id), or the loop is awake and has the swap before it, or its
own thread is between the two halves of `QueueOneFunc`, in which case
`calling_funcs` makes it write. There is one lemma for each step of
`EventLoop`, so that other modules that extend it can use them. The refinement
maps `Notify`, `Epoll`, `HandleRead` and the changes of phase to stutters, the
swap to a stutter because `funcs` is empty before it, and the end of a function
to `RunHead`.

**Server** (`ServerProofs`), for any loops, connections, descriptors, thread
pools, events of one `epoll_wait`, messages and failures of `epoll_ctl`,
assuming `ServerAssumption` and `StrayTids = {}`: `ServerTypeCorrect`,
`NoChannelDangles`, `ClosesFindTheirConnection`, `DeregisteredFirst`,
`ServerImplementsConnLifecycle`, and `ServerWakeupsKept`, which carries the
result on wake-ups over to the functions of this program. The four properties
say nothing of where an unfinished close is, and so none is inductive. `LifeInv`,
at the end of `Server`, does. Its core is `StateInv`: a constructed connection
is being accepted, or open and in the map, or closed, and then it is still in
the map, or its `ConnectionDestructor` waits in the queue of its own loop, or it
has left `epoll`. `QueueInv` and `OnceInv` say that either function of the close
is bound for one loop only, once, and that the map entry is there until the
first has begun and gone when the second is queued. `FdInv` says that two
connections that exist never share a descriptor, so the entry a close erases
is its own; `EstablishInv`, that no other thread knows a connection before
`EnableRead`; `BacklogInv` and `MapInv`, that an accepted client is new to
everyone and that the map's keys are right; `ThreadInv`, that a batch and a
round of channels never overlap on one thread, which is why a destructor
finds no pointer to its channel in `ready`. There is a lemma for each part
(`NextThread` to `NextState`), about the steps of the living server;
`StepOrKilled` says that the signal changes nothing but `killed`. Then: what anything can still reach is held
(`ReachableHeld`), what was let go stays so (`HeldShrinks`), and a step accepts
(`AcceptOpens`), closes (`CloseCloses`) or at most destroys what was closed
(`OthersDestroy`), which are the steps of `ConnLifecycle`.

`ServerForgetsNothing` is what `GoneClientsFreed` rests on: with the loop of a
connection and the main reactor asleep, every close has been carried through,
and an open connection has nothing to read that `epoll` will not report (or
`epoll_ctl` has failed). It needs `RestInv` beside `LifeInv`: `EdgeInv`, what can be read on
a watched connection has its edge, or is reported, or is just being read;
`InterestInv`, only a failure leaves an open connection unwatched;
`ClosingInv`, a close whose map entry is still there is queued to erase it;
`HandlerInv` and `SpentInv`, which say that a sleeping loop holds no connection.
That a sleeping loop has an empty queue is `NoLostWakeup`. `ServerUsesEventLoop`
relates the composition to its part: every step of the server is a step of a
loop, or hands over a function as `LoopTasks` allows, from inside a callback or
a function, and one that no loop has yet.

**Buffer** (`BufferProofs`), for any messages, initial size and bound:
`IndicesCorrect`, whose invariant is `IndicesOK` itself, and
`BufferImplementsByteQueue`, which rests on a lemma about each operation's
effect on the readable bytes. `SendBufferIsByteQueue` (`ConnectionProofs`) is the
other side: whatever function answers, the connection only appends to its send
buffer and retrieves from the front.

**Thread pool** (`EventLoopThreadPoolProofs`), for any `thread_nums`, zero and
negative ones included, and any number of connections: `PoolTypeCorrect`,
`OnlyLiveLoops`, `EvenlySpread`. `Balanced` is not inductive: the invariant
`TurnInv` says that the first `next` sub reactors are exactly one connection
ahead of the others, and `StartInv` that the main thread runs its loop only
when all threads have been started. `NoMissedNotification` is the safety core of
`PoolStarts`: the main thread waits only while the thread it waits for has its
notification before it.

**Logger** (`LoggerProofs`), for any threads, number of calls and size of a
batch: `LoggerTypeCorrect`, `MessagesInCallOrder`, `LateMessagesBounded`,
`LoggerImplementsAsyncLog`. `LoggerInv` adds to the order of the messages that
none is later than the calls that are over (`Past`), so that the next one is
later than all of its thread; and to the bound of late messages that their
threads are not before the push, and that no thread will find `is_async` set.
`AllAfterStep` is the lemma the order rests on: a step leaves the file with the
queue behind it as it is, appends a message of the call in progress, or drops the
one at which the stream fails. `WriterComesBack` is the safety core of
`QueuedIsWritten` and `LogReturns`: as long as the file can be written, a queue
that is not empty has a writer that comes to it, and in a batch the writer has a
step to take. Each of its steps counts towards `max_size` or gives the mutex
back, and no other thread has a part in the batch. Its invariant
`WriterInv` says which state of the file goes with each place of the writer.

**Clients** (`ClientsProofs`), for any threads, number of requests, length of a
header and sizes, assuming `ClientsAssumption`: `ClientsTypeCorrect`,
`OwnAnswersCounted`, `SocketsAreClosed`, `TotalsComplete`. The counters are
typed by their bounds, and the bounds need to know what has been counted:
`CountInv` says that `total_requests` is the number of pairs of a thread and a
request in `Counted`, and `successful_requests` the number of some of those
begun, that of the current request not among them. `PlaceInv` gives the socket
at each place, and that a thread that waits for an answer has read all but its
last packet, so that what is compared is the answer to it. The number of
all pairs is a product, which the library does not have: `ProductCardinality`
numbers them row by row.

That the test ends is proved as far as it goes without fairness.
`NobodyWaitsInVain`: a thread in `read` has something to read, is owed an answer
by a server that has not hung up, or will read the end; it follows from
`PlaceInv`, since the thread has read all but its last packet.
`EveryStepAdvances`: each step lowers the `Rank` of one thread in lexicographic
order (requests to come, then the way through the current one, then bytes of
answers on their way, then the hang-up) and leaves the others alone, so no
failure path and no dribble of answers can keep a loop of the programs going.
`ClientsUseEchoService` and `EveryEchoServiceServes` compare the external server
with `EchoService`: it does no more and no less to a connection, for any thread
`observed`. With `ConnectionImplementsEcho` this closes the chain from the
counted successes to the bytes the server writes.

**Connection** (`ConnectionProofs`), for any lengths of messages and of a header,
any largest body and any kernel buffer, assuming `ConnectionAssumption`:
`ConnectionTypeCorrect`, `AnswersAreTheRequests`, `ReadsInStep`. `EchoInOrder`
says nothing of what the next answer will be. `ConnectionInv`, at the end of
`Connection`, does, in three parts: `FramedInv`, the stream is cut into whole
messages (`Heads` are the bytes behind which one begins), so that a complete
message is followed by the head of the next; `ParseInv`, `header` and
`read_buffer` hold the beginning of the message behind `Pos`, and `length` is
what its header announces, unless that was too long and the connection is
closed; `AnswerInv`, on an open connection all before `Pos` has been answered,
and between the two calls of `SendWithTwoSysCall` all but the body that is still
in `read_buffer`. Types and parsing need each other: that the body read so far
fits in the resized `read_buffer` holds because nothing of it was read before
the header was complete. Either all bytes that are sent join the output (what
was written, then the send buffer) or the connection closes (`Keeping`,
`Sending`), and the write callback leaves the output as it is (`Flushing`); a
step extends the stream by a whole message or not at all (`SendExtends`).

`ConnectionImplementsEcho` follows: what is written only grows, along the stream,
and `GoneInv` (outside `epoll` no step is left to take) stops it at the hang-up.
`NothingLeftAtRest` proves `AnsweredAtRest`, which is what `EveryMessageAnswered`,
`EndCloses` and `HalfCloseAnswered` rest on. Two invariants carry it. `RestInv`: unsent bytes
are about to be written in this event, or an edge comes, or the kernel has no
space and watches for it (`FlushInv`); unread bytes are about to be read, or an
edge comes, at the latest from the `EPOLL_CTL_MOD` of the `Send2` that answers
the message just read (`ReadInv`); and reading stops only short of a whole
message (`PartInv`). The second holds for `Send2` alone, as `conn_pipelined`
shows, and is stated under `SendApis = {"Send2"}`. `EndingInv`: when the end of
the stream is found in peace, all of the stream has been answered, and what is
still in the send buffer is written by the write callback of the same event,
because that event was reported with `EPOLLOUT` (`EndInv`): the message it answers
was handled in an earlier one.

**Only model-checked**: all liveness, since TLAPS handles neither fairness nor
`ENABLED`: `EveryFuncRuns`, `PoolStarts`, `GoneClientsFreed`,
`EveryMessageAnswered`, `EndCloses`, `HalfCloseAnswered`, `QueuedIsWritten`,
`LogReturns`, `TestEnds`. For each a theorem states the part that is safety: nobody
rests or waits while there is something to do for which nobody is responsible.

| Liveness, checked by TLC | Its safety core, proved |
|---|---|
| `EveryFuncRuns` | `WakeupsKept`, `LoopsImplementTaskQueue` |
| `PoolStarts` | `NoMissedNotification` |
| `GoneClientsFreed` | `ServerForgetsNothing` |
| `EveryMessageAnswered`, `EndCloses`, `HalfCloseAnswered` | `NothingLeftAtRest` |
| `QueuedIsWritten`, `LogReturns` | `WriterComesBack` |
| `TestEnds` | `NobodyWaitsInVain`, `EveryStepAdvances` |

Some of the formulas proved are not properties of a run: `NoMissedNotification`,
`WriterComesBack`, `NobodyWaitsInVain`, `EveryStepAdvances`,
`ClientsUseEchoService`, `SendBufferIsByteQueue` and `ServerUsesEventLoop` state
formulas that stand, with their comments, in the module of their component.

## 7. What is not modelled

* Of the logger: what the console shows; `SetIsPrintCout`, which has no body, so
  that `is_print_cout` is always true; `Debug`, which is below `_LOG_LEVEL`; the
  `catch` around the writer, since nothing in it throws short of exhausted
  memory. The other modules leave their calls of `Log` out: nothing depends on
  them but time. (`Fatal` is called only while sockets and loops are set up.)
* Of `EventLoopThread`: `loop1` (`eventloopthread.cpp:43`), which is never used.
* `CurrentThread` caches the thread id; the models use identities directly.
* `Config` parses the command line once; `thread_nums` ranges over every int.
* `BufferPool`: no file includes its header.
* `Append(const std::string&)` and `RetrieveAsString` of `Buffer` are declared
  and never defined.
* The setup of the listening socket, which runs before any thread exists; the
  destructors of loops, threads and server, which never run, because `Start`
  does not return.
* EINTR of `read` and `write`, after which the code tries again; exhaustion of memory and the overflow of `write_index_`.
* Of the clients: response times. The scripts and the build.

## 8. Plan

Done: the task queue, the ownership and close protocol, the echo of a
connection, the send buffer, the start of the pool, the logger, the load
generators, and the proofs above.

Next, in this order:

1. The dispatch of `Server` related to `Connection` (a read callback takes one
   message), so that the two abstractions of the same code are one. The send
   buffer of `Connection` is related to `Buffer` through `ByteQueue` already.
2. A callback that calls `Connection::HandleClose` itself (commented out in
   `onMessage`).
