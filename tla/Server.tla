-------------------------------- MODULE Server --------------------------------
(***************************************************************************)
(* The life of connections across the threads of the server: acceptor.cpp, *)
(* server.cpp, and the parts of connection.cpp, channel.cpp and            *)
(* epoller.cpp that create, register, close and destroy a connection.      *)
(*                                                                         *)
(* The main reactor accepts, and gives the connection to a sub reactor.    *)
(* The sub reactor handles its events, and closes it in three hops: it     *)
(* hands HandleCloseInLoop to the main reactor, which erases the map entry *)
(* and hands ConnectionDestructor back.  A connection is destroyed, and    *)
(* its descriptor closed, when the last shared_ptr to it goes: Held says   *)
(* where those are.                                                        *)
(*                                                                         *)
(* What a connection reads and writes is abstracted to whole messages;     *)
(* the kernel (listen queue, descriptors, edge-triggered epoll) and the    *)
(* clients are modelled as far as the code can tell.                       *)
(***************************************************************************)
EXTENDS EventLoop, Naturals, FiniteSets

CONSTANTS
  Conns,        \* the connections clients make: every client connects once
  NoConn,
  Acceptor,     \* the channel of the listening socket
  Fds,          \* the descriptors the process may have open for connections
  NoFd,
  main_reactor, \* the loop of the main thread
  Pools,        \* what event_loops may be: <<>> if thread_nums is 0
  EVENT_NUM,    \* events of one epoll_wait (4096 in the code)
  MaxMessages,  \* bound of the model: messages a client sends
  MaxFailures   \* bound of the model: failures of epoll_ctl

(* The functions that are queued in this program: binds of a member        *)
(* function to the shared_ptr of a connection.                             *)
Functions == [fn : {"HandleCloseInLoop", "ConnectionDestructor"}, conn : Conns]

ASSUME ServerAssumption ==
  /\ Tasks = Functions
  /\ main_reactor \in Loops
  /\ Pools \subseteq Seq(Loops)
  /\ EVENT_NUM \in Nat \ {0}
  /\ NoConn \notin Conns /\ Acceptor \notin Conns /\ NoFd \notin Fds
  /\ MaxMessages \in Nat /\ MaxFailures \in Nat

VARIABLES
  client,         \* [Conns -> {"idle", "connected", "closed"}]: the peer
  unread,         \* messages received by the kernel and not read
  backlog,        \* the listen queue
  interest,       \* the epoll entry: "none", "ET" (no events) or "IN"
  edges,          \* connections in the ready list of their epoll instance
  failures,       \* failures of epoll_ctl so far
  client_fd,      \* NoFd before the connection is constructed
  event_loop,     \* the loop of the connection
  state,          \* "uninitialized" until ConnectionEstablished
  connectionsMap, \* [Fds -> Conns \cup {NoConn}]
  event_loops,    \* the loops of the thread pool: it has started
  next,           \* position of the next loop in event_loops, from 0
  ready,          \* channels epoll reported and the thread has not handled
  ready_events,   \* connections the last epoll_wait reported with EPOLLIN
  handling,       \* the connection of the callback the thread is in, or NoConn
  step,           \* where that callback, or the running function, is
  killed          \* SIGPIPE has ended the process

peerVars == <<client, unread, backlog>>
epollVars == <<interest, edges, failures>>
connVars == <<client_fd, event_loop, event_loops, next>>
readyVars == <<ready, ready_events>>
serverVars == <<loopVars, peerVars, epollVars, connVars, state, connectionsMap,
                readyVars, handling, step>>
vars == <<serverVars, killed>>

Steps == {"idle", "read", "write", "accepted", "established", "done"}

TypeOK ==
  /\ LoopTypeOK
  /\ client \in [Conns -> {"idle", "connected", "closed"}]
  /\ unread \in [Conns -> 0 .. MaxMessages]
  /\ backlog \in Seq(Conns)
  /\ interest \in [Conns -> {"none", "ET", "IN"}]
  /\ edges \subseteq Conns
  /\ failures \in 0 .. MaxFailures
  /\ client_fd \in [Conns -> Fds \cup {NoFd}]
  /\ event_loop \in [Conns -> Loops \cup {NoLoop}]
  /\ event_loops \in Pools
  /\ next \in {0} \cup {i \in DOMAIN event_loops : i < Len(event_loops)}
  /\ state \in [Conns -> {"uninitialized", "Connected", "Disconected"}]
  /\ connectionsMap \in [Fds -> Conns \cup {NoConn}]
  /\ ready \in [Loops -> SUBSET (Conns \cup {Acceptor})]
  /\ ready_events \subseteq Conns
  /\ handling \in [Loops -> Conns \cup {NoConn}]
  /\ step \in [Loops -> Steps]
  /\ killed \in BOOLEAN

Init ==
  /\ LoopInit
  /\ client = [c \in Conns |-> "idle"]
  /\ unread = [c \in Conns |-> 0]
  /\ backlog = <<>>
  /\ interest = [c \in Conns |-> "none"]
  /\ edges = {}
  /\ failures = 0
  /\ client_fd = [c \in Conns |-> NoFd]
  /\ event_loop = [c \in Conns |-> NoLoop]
  /\ event_loops \in Pools
  /\ next = 0
  /\ state = [c \in Conns |-> "uninitialized"]
  /\ connectionsMap = [fd \in Fds |-> NoConn]
  /\ ready = [l \in Loops |-> {}]
  /\ ready_events = {}
  /\ handling = [l \in Loops |-> NoConn]
  /\ step = [l \in Loops |-> "idle"]
  /\ killed = FALSE

-----------------------------------------------------------------------------
(* Where the shared_ptrs to a connection are.                              *)

Elements(s) == {s[i] : i \in DOMAIN s}

Bound(l) == Elements(to_do_list[l]) \cup Elements(funcs[l]) \cup spent[l]

Constructed(c) == client_fd[c] # NoFd

(* Mutant: ConnectionDestructor is bound to the raw pointer.               *)
HeldRawDestructor(c) ==
  /\ Constructed(c)
  /\ \/ \E fd \in Fds : connectionsMap[fd] = c
     \/ \E l \in Loops : handling[l] = c
     \/ \E l \in Loops : \E f \in Bound(l) : f.conn = c /\ f.fn = "HandleCloseInLoop"

(* The map, the local conn of HandleNewConnection or the guard of          *)
(* HandleEvent, and the functions bound to it.                             *)
Held(c) ==
  /\ Constructed(c)
  /\ \/ \E fd \in Fds : connectionsMap[fd] = c
     \/ \E l \in Loops : handling[l] = c
     \/ \E l \in Loops : \E f \in Bound(l) : f.conn = c

Destroyed(c) == Constructed(c) /\ ~Held(c)

(* ~Connection closes its descriptor: only held connections own one.       *)
FreeFds == Fds \ {client_fd[c] : c \in {d \in Conns : Held(d)}}

-----------------------------------------------------------------------------
(* The clients, and what the kernel does for them.                         *)

Readable(c) == unread[c] > 0 \/ client[c] = "closed"

ClientConnect(c) ==
  /\ client[c] = "idle"
  /\ client' = [client EXCEPT ![c] = "connected"]
  /\ backlog' = Append(backlog, c)
  /\ UNCHANGED <<unread, edges>>

ClientSend(c) ==
  /\ client[c] = "connected" /\ unread[c] < MaxMessages
  /\ unread' = [unread EXCEPT ![c] = @ + 1]
  /\ edges' = edges \cup {d \in {c} : interest[d] # "none"}
  /\ UNCHANGED <<client, backlog>>

(* The client closes or resets the connection, or its host is lost.        *)
ClientClose(c) ==
  /\ client[c] = "connected"
  /\ client' = [client EXCEPT ![c] = "closed"]
  /\ edges' = edges \cup {d \in {c} : interest[d] # "none"}
  /\ UNCHANGED <<unread, backlog>>

Client(c) ==
  /\ ClientConnect(c) \/ ClientSend(c) \/ ClientClose(c)
  /\ UNCHANGED <<loopVars, interest, failures, connVars, state, connectionsMap,
                 readyVars, handling, step>>

(* epoll_ctl ADD or MOD: it looks at the descriptor again, so that an edge *)
(* seen before is reported again; or it fails and nobody reads the flag.   *)
UpdateChannel(c, events) ==
  \/ /\ interest' = [interest EXCEPT ![c] = events]
     /\ edges' = edges \cup {d \in {c} : Readable(d)}
     /\ UNCHANGED failures
  \/ /\ failures < MaxFailures
     /\ failures' = failures + 1
     /\ UNCHANGED <<interest, edges>>

-----------------------------------------------------------------------------
(* epoll_wait: edges are reported once.  An entry with no event but ET     *)
(* reports only a reset; the listening socket is level-triggered.          *)

Quiet(l) == handling[l] = NoConn /\ step[l] = "idle"

Edges(l) == {c \in edges : event_loop[c] = l}
Reported(l) == {c \in Edges(l) : interest[c] = "IN" /\ Readable(c)}
Acceptable(l) == {a \in {Acceptor} : l = main_reactor /\ backlog # <<>>}
Resets(l) == {c \in Edges(l) : interest[c] = "ET" /\ client[c] = "closed"}

EventNum(channels, reported) == Cardinality(channels) + IF reported THEN 1 ELSE 0

(* All that is ready, or as much of it as the array takes: an edge that is *)
(* left out stays in the ready list.  (For a call that a signal ends see   *)
(* LoopTasks.)                                                             *)
EpollWait(l) ==
  /\ At(l, "Epoll")
  /\ \E resets \in SUBSET Resets(l), reported \in BOOLEAN :
       LET all == Reported(l) \cup resets \cup Acceptable(l) IN
       \E channels \in SUBSET all :
         /\ EventNum(channels, reported) \in 1 .. EVENT_NUM
         /\ \/ EventNum(channels, reported) = EVENT_NUM
            \/ channels = all /\ reported = wakeup_event_fd[l]
         /\ Epoll(l, reported)
         /\ ready' = [ready EXCEPT ![l] = channels]
         /\ ready_events' = {c \in ready_events : event_loop[c] # l}
                              \cup (Reported(l) \cap channels)
         /\ edges' = (edges \ Edges(l)) \cup ((all \ channels) \ {Acceptor})
  /\ UNCHANGED <<peerVars, interest, failures, connVars, state, connectionsMap,
                 handling, step>>

-----------------------------------------------------------------------------
(* Accepting: the callback of the acceptor's channel, on the main thread.  *)

NextEventLoop == IF event_loops = <<>> THEN main_reactor ELSE event_loops[next + 1]

(* Mutant: next is compared with the size before it is incremented.        *)
NextPositionLate ==
  IF event_loops = <<>> \/ next = Len(event_loops) THEN 0 ELSE next + 1

NextPosition ==
  IF event_loops = <<>> \/ next + 1 = Len(event_loops) THEN 0 ELSE next + 1

(* No descriptor is left: the client stays in the listen queue.            *)
AcceptFails ==
  /\ At(main_reactor, "HandleEvent") /\ Quiet(main_reactor)
  /\ Acceptor \in ready[main_reactor]
  /\ FreeFds = {}
  /\ ready' = [ready EXCEPT ![main_reactor] = @ \ {Acceptor}]
  /\ UNCHANGED <<loopVars, peerVars, epollVars, connVars, state, connectionsMap,
                 ready_events, handling, step>>

(* accept4, then the constructor: EnableET adds the channel to epoll.      *)
Accept ==
  /\ At(main_reactor, "HandleEvent") /\ Quiet(main_reactor)
  /\ Acceptor \in ready[main_reactor] /\ backlog # <<>>
  /\ LET c == Head(backlog) IN
       /\ \E fd \in FreeFds : client_fd' = [client_fd EXCEPT ![c] = fd]
       /\ event_loop' = [event_loop EXCEPT ![c] = NextEventLoop]
       /\ UpdateChannel(c, "ET")
       /\ handling' = [handling EXCEPT ![main_reactor] = c]
  /\ backlog' = Tail(backlog)
  /\ next' = NextPosition
  /\ ready' = [ready EXCEPT ![main_reactor] = @ \ {Acceptor}]
  /\ step' = [step EXCEPT ![main_reactor] = "accepted"]
  /\ UNCHANGED <<loopVars, client, unread, event_loops, state, connectionsMap,
                 ready_events>>

(* Mutant: the connection is not put into the map.                         *)
EstablishUnmapped ==
  /\ step[main_reactor] = "accepted"
  /\ state' = [state EXCEPT ![handling[main_reactor]] = "Connected"]
  /\ step' = [step EXCEPT ![main_reactor] = "established"]
  /\ UNCHANGED <<loopVars, peerVars, epollVars, connVars, readyVars, handling,
                 connectionsMap>>

(* The rest of HandleNewConnection up to the state and Tie.                *)
Establish ==
  /\ step[main_reactor] = "accepted"
  /\ LET c == handling[main_reactor] IN
       /\ connectionsMap' = [connectionsMap EXCEPT ![client_fd[c]] = c]
       /\ state' = [state EXCEPT ![c] = "Connected"]
  /\ step' = [step EXCEPT ![main_reactor] = "established"]
  /\ UNCHANGED <<loopVars, peerVars, epollVars, connVars, readyVars, handling>>

(* From here on the sub reactor runs the callbacks of the connection.      *)
EnableRead ==
  /\ step[main_reactor] = "established"
  /\ UpdateChannel(handling[main_reactor], "IN")
  /\ step' = [step EXCEPT ![main_reactor] = "done"]
  /\ UNCHANGED <<loopVars, peerVars, connVars, state, connectionsMap, readyVars,
                 handling>>

-----------------------------------------------------------------------------
(* Closing.                                                                *)

Bind(fn, c) == [fn |-> fn, conn |-> c]

(* Mutant: ConnectionDestructor runs where the map was erased.             *)
HandleCloseInLoopStays(t, c) ==
  /\ connectionsMap[client_fd[c]] # NoConn
  /\ connectionsMap' = [connectionsMap EXCEPT ![client_fd[c]] = NoConn]
  /\ QueueOneFunc(t, main_reactor, Bind("ConnectionDestructor", c))

(* Its assertion: the map has the connection.  If not, nothing follows.    *)
HandleCloseInLoop(t, c) ==
  /\ connectionsMap[client_fd[c]] # NoConn
  /\ connectionsMap' = [connectionsMap EXCEPT ![client_fd[c]] = NoConn]
  /\ QueueOneFunc(t, event_loop[c], Bind("ConnectionDestructor", c))

(* Mutant: every error closes, whatever was closed before.                 *)
HandleCloseUnguarded(t, c) ==
  /\ state' = [state EXCEPT ![c] = "Disconected"]
  /\ \/ IsInLoopThread(t, main_reactor) /\ HandleCloseInLoop(t, c)
     \/ /\ ~IsInLoopThread(t, main_reactor)
        /\ QueueOneFunc(t, main_reactor, Bind("HandleCloseInLoop", c))
        /\ UNCHANGED connectionsMap

(* Connection::HandleClose and Server::HandleClose with RunOneFunc.        *)
HandleClose(t, c) ==
  \/ state[c] = "Disconected" /\ UNCHANGED <<loopVars, state, connectionsMap>>
  \/ /\ state[c] # "Disconected"
     /\ state' = [state EXCEPT ![c] = "Disconected"]
     /\ \/ IsInLoopThread(t, main_reactor) /\ HandleCloseInLoop(t, c)
        \/ /\ ~IsInLoopThread(t, main_reactor)
           /\ QueueOneFunc(t, main_reactor, Bind("HandleCloseInLoop", c))
           /\ UNCHANGED connectionsMap

-----------------------------------------------------------------------------
(* The events of a connection, on the thread of its loop: HandleEvent runs *)
(* the read callback and then the write callback.                          *)

(* Only EPOLLHUP or EPOLLERR was reported: no callback runs.               *)
HandleEventIgnored(l, c) ==
  /\ At(l, "HandleEvent") /\ Quiet(l)
  /\ c \in ready[l] /\ c \notin ready_events
  /\ ready' = [ready EXCEPT ![l] = @ \ {c}]
  /\ UNCHANGED <<loopVars, peerVars, epollVars, connVars, state, connectionsMap,
                 ready_events, handling, step>>

HandleEvent(l, c) ==
  /\ At(l, "HandleEvent") /\ Quiet(l)
  /\ c \in ready[l] /\ c \in ready_events
  /\ ready' = [ready EXCEPT ![l] = @ \ {c}]
  /\ handling' = [handling EXCEPT ![l] = c]
  /\ step' = [step EXCEPT ![l] = "read"]
  /\ UNCHANGED <<loopVars, peerVars, epollVars, connVars, state, connectionsMap,
                 ready_events>>

(* Mutant: the answer is written at once, and nothing looks at the socket  *)
(* again.                                                                  *)
ReadMessageNoRearm(l, c) ==
  /\ unread[c] > 0
  /\ unread' = [unread EXCEPT ![c] = @ - 1]
  /\ UNCHANGED <<loopVars, state, connectionsMap, edges>>

(* One message is read and answered by Send2, which updates the channel    *)
(* and so looks at the socket again; a closed connection does not answer.  *)
ReadMessage(l, c) ==
  /\ unread[c] > 0
  /\ unread' = [unread EXCEPT ![c] = @ - 1]
  /\ edges' = edges \cup
       {d \in {c} : state[d] = "Connected" /\ (unread'[d] > 0 \/ client[d] = "closed")}
  /\ UNCHANGED <<loopVars, state, connectionsMap>>

(* The header announces too long a message.                                *)
ReadTooLong(l, c) ==
  /\ unread[c] > 0
  /\ unread' = [unread EXCEPT ![c] = @ - 1]
  /\ HandleClose(l, c)
  /\ UNCHANGED edges

(* All is read: EAGAIN, or the end of the stream or an error.              *)
ReadRest(l, c) ==
  /\ unread[c] = 0
  /\ \/ client[c] = "connected" /\ UNCHANGED <<loopVars, state, connectionsMap>>
     \/ client[c] = "closed" /\ HandleClose(l, c)
  /\ UNCHANGED <<unread, edges>>

ReadCallback(l) ==
  /\ step[l] = "read" /\ queueing[l] = NoLoop
  /\ \E c \in {handling[l]} :
       ReadMessage(l, c) \/ ReadTooLong(l, c) \/ ReadRest(l, c)
  /\ step' = [step EXCEPT ![l] = "write"]
  /\ UNCHANGED <<client, backlog, interest, failures, connVars, readyVars, handling>>

(* It runs if EPOLLOUT was reported.  What becomes of a write to a peer    *)
(* that is gone is for the kernel to say (for how see Connection): the     *)
(* peer has only stopped sending and it succeeds, or ECONNRESET is pending *)
(* and it fails,                                                           *)
WriteCallback(l) ==
  /\ step[l] = "write" /\ queueing[l] = NoLoop
  /\ \/ UNCHANGED <<loopVars, state, connectionsMap>>
     \/ client[handling[l]] = "closed" /\ HandleClose(l, handling[l])
  /\ step' = [step EXCEPT ![l] = "done"]
  /\ UNCHANGED <<peerVars, epollVars, connVars, readyVars, handling>>

(* or the connection was reset and nothing is pending, because the read    *)
(* callback of the same event was told: then it raises SIGPIPE.            *)
WriteKills(l) ==
  /\ step[l] = "write" /\ queueing[l] = NoLoop
  /\ client[handling[l]] = "closed"
  /\ killed' = TRUE
  /\ UNCHANGED serverVars

(* The callback returns and its shared_ptr goes.                           *)
EndCallback(l) ==
  /\ At(l, "HandleEvent") /\ step[l] = "done"
  /\ handling' = [handling EXCEPT ![l] = NoConn]
  /\ step' = [step EXCEPT ![l] = "idle"]
  /\ UNCHANGED <<loopVars, peerVars, epollVars, connVars, state, connectionsMap,
                 readyVars>>

-----------------------------------------------------------------------------
(* The functions of the batch.                                             *)

ConnectionDestructor(c) ==
  /\ interest' = [interest EXCEPT ![c] = "none"]
  /\ edges' = edges \ {c}

RunFunc(l) ==
  /\ At(l, "Calling") /\ funcs[l] # <<>> /\ step[l] = "idle"
  /\ LET f == Head(funcs[l]) IN
       \/ /\ f.fn = "HandleCloseInLoop"
          /\ HandleCloseInLoop(l, f.conn)
          /\ UNCHANGED <<interest, edges>>
       \/ /\ f.fn = "ConnectionDestructor"
          /\ ConnectionDestructor(f.conn)
          /\ UNCHANGED <<loopVars, connectionsMap>>
  /\ step' = [step EXCEPT ![l] = "done"]
  /\ UNCHANGED <<peerVars, failures, connVars, state, readyVars, handling>>

EndFunc(l) ==
  /\ FinishFunc(l) /\ step[l] = "done"
  /\ step' = [step EXCEPT ![l] = "idle"]
  /\ UNCHANGED <<peerVars, epollVars, connVars, state, connectionsMap, readyVars,
                 handling>>

(* The steps of the loop itself, between callbacks.                        *)
LoopStep(l) ==
  /\ \/ Quiet(l) /\ HandleRead(l)
     \/ Quiet(l) /\ ready[l] = {} /\ EnterToDoList(l)
     \/ SwapToDoList(l) \/ LeaveToDoList(l) \/ Notify(l)
  /\ UNCHANGED <<peerVars, epollVars, connVars, state, connectionsMap, readyVars,
                 handling, step>>

MainStep == AcceptFails \/ Accept \/ Establish \/ EnableRead

(* What the thread of a loop does once epoll_wait has returned.            *)
ThreadStep(l) ==
  \/ LoopStep(l)
  \/ \E c \in Conns : HandleEventIgnored(l, c) \/ HandleEvent(l, c)
  \/ ReadCallback(l) \/ WriteCallback(l) \/ EndCallback(l)
  \/ RunFunc(l) \/ EndFunc(l)
  \/ l = main_reactor /\ MainStep

ServerStep ==
  \/ \E c \in Conns : Client(c)
  \/ \E l \in Loops : EpollWait(l) \/ ThreadStep(l)

(* Once a signal has ended the process nothing follows.                    *)
Next ==
  /\ ~killed
  /\ \/ ServerStep /\ UNCHANGED killed
     \/ \E l \in Loops : WriteKills(l)

(***************************************************************************)
(* A thread that can take a step takes it, and epoll_wait returns when     *)
(* there is something to report, as long as the process lives.  Clients    *)
(* owe nothing.  (In the runs that need fairness EVENT_NUM leaves nothing  *)
(* out.)                                                                   *)
(***************************************************************************)
SomethingReady(l) ==
  wakeup_event_fd[l] \/ Reported(l) # {} \/ Acceptable(l) # {}

Alive(A) == ~killed /\ A /\ UNCHANGED killed

Fairness ==
  \A l \in Loops :
    /\ WF_vars(Alive(ThreadStep(l)))
    /\ WF_vars(Alive(SomethingReady(l) /\ EpollWait(l)))

Spec == Init /\ [][Next]_vars
FairSpec == Spec /\ Fairness

-----------------------------------------------------------------------------
(***************************************************************************)
(* No use after free: epoll hands the loop raw pointers to channels        *)
(* (epoller.cpp:38-41), and the loop handles them one after the other      *)
(* (eventloop.cpp:54-57) while the main reactor may be dropping its        *)
(* references.  No pointer in that list dangles.                           *)
(***************************************************************************)
NoDanglingChannel ==
  \A l \in Loops : \A c \in ready[l] \ {Acceptor} : Held(c)

(***************************************************************************)
(* The assertion of HandleCloseInLoop (server.cpp:62), and more: a close   *)
(* on its way to the main reactor finds this connection in the map, not a  *)
(* later one that was given the same descriptor, and it is on its way once *)
(* only.                                                                   *)
(***************************************************************************)
Rest(l) == IF pc[l] = "Calling" /\ step[l] = "done" THEN Tail(funcs[l]) ELSE funcs[l]

NotBegun(l) == Elements(to_do_list[l]) \cup Elements(Rest(l))

CloseFindsConnection ==
  \A l \in Loops : \A f \in NotBegun(l) :
    f.fn = "HandleCloseInLoop" => connectionsMap[client_fd[f.conn]] = f.conn

(***************************************************************************)
(* A connection is destroyed only after its own loop took it out of epoll  *)
(* (connection.cpp:39-55): the descriptor is never closed under a channel  *)
(* that is still registered, nor registered after that.                    *)
(***************************************************************************)
DeregisteredBeforeDestroyed ==
  \A c \in Conns : Destroyed(c) => interest[c] = "none" /\ c \notin edges

(***************************************************************************)
(* The server implements the life cycle of connections: no connection is   *)
(* destroyed before its close began, none closes twice or comes back, and  *)
(* a descriptor has one owner (connection.cpp:39-77, server.cpp:34-67).    *)
(***************************************************************************)
Phase(c) ==
  IF ~Constructed(c) THEN "new"
  ELSE IF ~Held(c) THEN "gone"
  ELSE IF state[c] = "Disconected" THEN "closing" ELSE "open"

Life == INSTANCE ConnLifecycle
          WITH phase <- [c \in Conns |-> Phase(c)],
               owns <- [c \in Conns |-> IF Held(c) THEN client_fd[c] ELSE NoFd]

ConnectionsLive == Life!Spec

(***************************************************************************)
(* A connection whose client has gone is destroyed, and its descriptor     *)
(* freed: the close crosses to the main reactor and back and no hop is     *)
(* lost (server.cpp:54-67, eventloop.cpp:81-86); unless a write to a peer  *)
(* that has reset its connection ends the whole server before              *)
(* (connection.cpp:306).                                                   *)
(***************************************************************************)
GoneClientsFreed ==
  \A c \in Conns : Constructed(c) /\ client[c] = "closed" ~> (killed \/ Destroyed(c))

(***************************************************************************)
(* Nothing is forgotten: when the loop of a connection and the main        *)
(* reactor are asleep and nobody is about to wake them, every hop of a     *)
(* close is done (server.cpp:54-67), and an open connection that has       *)
(* something to read will be reported, although its edge may be long gone  *)
(* (connection.cpp:275); or epoll_ctl failed, and nobody looked            *)
(* (epoller.cpp:55).                                                       *)
(***************************************************************************)
Asleep(l) ==
  pc[l] = "Epoll" /\ ~wakeup_event_fd[l] /\ \A t \in Loops : queueing[t] # l

NothingForgotten ==
  \A c \in Conns :
    Constructed(c) /\ Asleep(event_loop[c]) /\ Asleep(main_reactor) =>
      \/ Destroyed(c)
      \/ /\ state[c] = "Connected"
         /\ IF interest[c] = "IN" THEN Readable(c) => c \in Reported(event_loop[c])
                                  ELSE failures > 0

(***************************************************************************)
(* The server uses its loops as LoopTasks does, the most general use: a    *)
(* thread hands a function over only inside a callback or a function of    *)
(* its batch, and one that is nowhere queued; otherwise the loops take     *)
(* their own steps (server.cpp:54-67, eventloop.cpp:48-87).                *)
(***************************************************************************)
LoopSteps(l) ==
  \/ \E reported \in BOOLEAN : Epoll(l, reported)
  \/ HandleRead(l) \/ EnterToDoList(l) \/ SwapToDoList(l) \/ FinishFunc(l)
  \/ LeaveToDoList(l) \/ Notify(l)

HandsOver(t, l, f) ==
  InUserCode(t) /\ (\A k \in Loops : f \notin Bound(k)) /\ QueueOneFunc(t, l, f)

UsesEventLoop ==
  [][\/ \E l \in Loops : LoopSteps(l)
     \/ \E t, l \in Loops, f \in Functions : HandsOver(t, l, f)]_loopVars

(***************************************************************************)
(* acceptor.cpp:73: when accept fails the client's connection is closed.   *)
(***************************************************************************)
AcceptErrorClosesClient == [][AcceptFails => backlog' # backlog]_vars

-----------------------------------------------------------------------------
(***************************************************************************)
(* The inductive invariant behind these properties: where a connection is  *)
(* in its life, said of every variable that has a part in it.              *)
(***************************************************************************)
NoDuplicates(s) == \A i, j \in DOMAIN s : s[i] = s[j] => i = j

(* What a thread does is in step with where its loop is.                   *)
ThreadInv ==
  \A l \in Loops :
    /\ pc[l] \in {"Epoll", "Swap"} => step[l] = "idle"
    /\ pc[l] = "Calling" => step[l] \in {"idle", "done"}
    /\ pc[l] = "Calling" /\ step[l] = "done" => funcs[l] # <<>>
    /\ pc[l] # "HandleEvent" => handling[l] = NoConn /\ ready[l] = {}
    /\ step[l] \in Steps \ {"idle", "done"} => handling[l] # NoConn
    /\ step[l] \in {"accepted", "established"} => l = main_reactor
    /\ \A c \in ready[l] \ {Acceptor} : event_loop[c] = l

(* Who waits in the listen queue, waits once and has no connection yet.    *)
BacklogInv ==
  /\ NoDuplicates(backlog)
  /\ \A c \in Elements(backlog) : ~Constructed(c) /\ client[c] # "idle"
  /\ \A c \in Conns : client[c] = "idle" => ~Constructed(c)

Deregistered(c) ==
  interest[c] = "none" /\ c \notin edges /\ \A l \in Loops : c \notin ready[l]

Establishing(c) ==
  handling[main_reactor] = c /\ step[main_reactor] \in {"accepted", "established"}

(* No other thread knows a connection before EnableRead.                   *)
EstablishInv ==
  \A c \in Conns : Establishing(c) =>
    /\ state[c] = IF step[main_reactor] = "accepted" THEN "uninitialized" ELSE "Connected"
    /\ interest[c] # "IN" /\ c \notin ready_events
    /\ \A l \in Loops : handling[l] = c => l = main_reactor

MapInv ==
  \A fd \in Fds : \A c \in Conns :
    connectionsMap[fd] = c => client_fd[c] = fd /\ state[c] # "uninitialized"

Mapped(c) == connectionsMap[client_fd[c]] = c

(* What holds a connection in each of its states.                          *)
StateInv ==
  \A c \in Conns :
    /\ ~Constructed(c) => /\ state[c] = "uninitialized"
                          /\ Deregistered(c) /\ c \notin ready_events
                          /\ \A l \in Loops : handling[l] # c
    /\ Constructed(c) => event_loop[c] \in Loops
    /\ Constructed(c) /\ state[c] = "uninitialized"
         => handling[main_reactor] = c /\ step[main_reactor] = "accepted"
    /\ state[c] = "Connected" => Mapped(c)
    /\ state[c] # "Disconected" => \A l \in Loops : \A f \in Bound(l) : f.conn # c
    /\ Constructed(c) /\ state[c] = "Disconected"
         => \/ Mapped(c)
            \/ Bind("ConnectionDestructor", c) \in NotBegun(event_loop[c])
            \/ Deregistered(c)

(* Every function is queued once,                                          *)
OnceInv ==
  \A l \in Loops :
    /\ NoDuplicates(to_do_list[l]) /\ NoDuplicates(funcs[l])
    /\ Elements(to_do_list[l]) \cap (Elements(funcs[l]) \cup spent[l]) = {}

(* for the one loop it is meant for, and in its turn.                      *)
QueueInv ==
  \A l \in Loops, c \in Conns :
    /\ Bind("HandleCloseInLoop", c) \in Bound(l) => l = main_reactor
    /\ Bind("HandleCloseInLoop", c) \in NotBegun(l) => Mapped(c)
    /\ Bind("ConnectionDestructor", c) \in Bound(l) => l = event_loop[c] /\ ~Mapped(c)

FdInv ==
  \A c, d \in Conns :
    Held(c) /\ Held(d) /\ client_fd[c] = client_fd[d] => c = d

LifeInv ==
  /\ ThreadInv /\ BacklogInv /\ EstablishInv /\ MapInv /\ StateInv
  /\ OnceInv /\ QueueInv /\ FdInv

(***************************************************************************)
(* And what makes NothingForgotten inductive: who still has to look at an  *)
(* open connection, and who still has a close to carry on.                 *)
(***************************************************************************)
Watched(c) == state[c] = "Connected" /\ interest[c] = "IN"

(* What can be read will be reported, or is reported, or is being read.    *)
EdgeInv ==
  \A c \in Conns : Watched(c) /\ Readable(c) =>
    \/ c \in edges
    \/ c \in ready_events /\ \E l \in Loops : c \in ready[l]
    \/ \E l \in Loops : handling[l] = c /\ step[l] = "read"

(* Only a failure of epoll_ctl leaves an open connection unwatched.        *)
InterestInv ==
  \A c \in Conns :
    state[c] = "Connected" /\ interest[c] # "IN" => Establishing(c) \/ failures > 0

(* A close that has not erased the map entry is queued to do so.           *)
ClosingInv ==
  \A c \in Conns :
    state[c] = "Disconected" /\ Mapped(c)
      => Bind("HandleCloseInLoop", c) \in NotBegun(main_reactor)

(* Callbacks run on the loop of their connection, or establish it.         *)
HandlerInv ==
  \A l \in Loops, c \in Conns :
    handling[l] = c => l \in {event_loop[c], main_reactor}

(* The closures of a batch are gone when the loop leaves it.               *)
SpentInv == \A l \in Loops : pc[l] # "Calling" => spent[l] = {}

RestInv == EdgeInv /\ InterestInv /\ ClosingInv /\ HandlerInv /\ SpentInv

=============================================================================
