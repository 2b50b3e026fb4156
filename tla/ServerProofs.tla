---------------------------- MODULE ServerProofs ----------------------------
(***************************************************************************)
(* The close protocol for any number of loops, connections and             *)
(* descriptors: LifeInv is inductive, and nothing dangles, no close is     *)
(* lost or taken for another's, and the life of a connection is that of    *)
(* ConnLifecycle.  With RestInv, sleeping loops have forgotten nothing.    *)
(***************************************************************************)
EXTENDS Server, EventLoopProofs

-----------------------------------------------------------------------------
(* What the operations on queues do to their elements.                     *)

LEMMA ElementsEmpty == Elements(<<>>) = {} /\ NoDuplicates(<<>>)
BY DEF Elements, NoDuplicates

LEMMA ElementsAppend ==
  ASSUME NEW S, NEW s \in Seq(S), NEW e \in S
  PROVE  /\ Elements(Append(s, e)) = Elements(s) \cup {e}
         /\ NoDuplicates(s) /\ e \notin Elements(s) => NoDuplicates(Append(s, e))
<1>1. /\ DOMAIN Append(s, e) = 1 .. Len(s) + 1
      /\ DOMAIN s = 1 .. Len(s) /\ Len(s) \in Nat
      /\ \A i \in 1 .. Len(s) : Append(s, e)[i] = s[i]
      /\ Append(s, e)[Len(s) + 1] = e
  BY AppendProperties
<1>2. Elements(Append(s, e)) = Elements(s) \cup {e}
  <2>1. Elements(Append(s, e)) \subseteq Elements(s) \cup {e}
    BY <1>1 DEF Elements
  <2>2. Elements(s) \cup {e} \subseteq Elements(Append(s, e))
    BY <1>1 DEF Elements
  <2>. QED  BY <2>1, <2>2
<1>3. ASSUME NoDuplicates(s), e \notin Elements(s)  PROVE NoDuplicates(Append(s, e))
  BY <1>1, <1>3 DEF Elements, NoDuplicates
<1>. QED  BY <1>2, <1>3

LEMMA ElementsHeadTail ==
  ASSUME NEW S, NEW s \in Seq(S), s # <<>>
  PROVE  /\ Head(s) \in S /\ Tail(s) \in Seq(S)
         /\ Elements(s) = {Head(s)} \cup Elements(Tail(s))
         /\ NoDuplicates(s) => /\ Head(s) \notin Elements(Tail(s))
                               /\ NoDuplicates(Tail(s))
<1>1. /\ DOMAIN s = 1 .. Len(s) /\ Len(s) \in Nat \ {0}
      /\ Tail(s) \in Seq(S) /\ Len(Tail(s)) = Len(s) - 1
      /\ DOMAIN Tail(s) = 1 .. Len(s) - 1
      /\ \A i \in 1 .. Len(s) - 1 : Tail(s)[i] = s[i + 1]
      /\ Head(s) = s[1] /\ Head(s) \in S
  BY HeadTailProperties, EmptySeq
<1>2. Elements(s) = {Head(s)} \cup Elements(Tail(s))
  <2>1. Elements(s) \subseteq {Head(s)} \cup Elements(Tail(s))
    <3> SUFFICES ASSUME NEW i \in DOMAIN s  PROVE s[i] = Head(s) \/ s[i] \in Elements(Tail(s))
      BY DEF Elements
    <3>1. CASE i = 1  BY <3>1, <1>1
    <3>2. CASE i # 1
      <4>1. i - 1 \in DOMAIN Tail(s) /\ Tail(s)[i - 1] = s[i]  BY <3>2, <1>1
      <4>. QED  BY <4>1 DEF Elements
    <3>. QED  BY <3>1, <3>2
  <2>2. Head(s) \in Elements(s)  BY <1>1 DEF Elements
  <2>3. Elements(Tail(s)) \subseteq Elements(s)  BY <1>1 DEF Elements
  <2>. QED  BY <2>1, <2>2, <2>3
<1>3. ASSUME NoDuplicates(s)
      PROVE  Head(s) \notin Elements(Tail(s)) /\ NoDuplicates(Tail(s))
  BY <1>1, <1>3 DEF Elements, NoDuplicates
<1>. QED  BY <1>1, <1>2, <1>3

-----------------------------------------------------------------------------
Inv == LoopInv /\ TypeOK /\ LifeInv

(* The functions of this program are well formed.                          *)
LEMMA BindTyped ==
  /\ \A c \in Conns : /\ Bind("HandleCloseInLoop", c) \in Tasks
                      /\ Bind("ConnectionDestructor", c) \in Tasks
  /\ \A f \in Tasks : /\ f.conn \in Conns
                      /\ f = Bind(f.fn, f.conn)
                      /\ f.fn \in {"HandleCloseInLoop", "ConnectionDestructor"}
BY ServerAssumption DEF Functions, Bind

(* A connection whose callback or function runs has a loop to go to.       *)
LEMMA ConstructedHasLoop ==
  ASSUME Inv, NEW c \in Conns, Constructed(c)
  PROVE  client_fd[c] \in Fds /\ event_loop[c] \in Loops
BY DEF Inv, LifeInv, StateInv, Constructed, TypeOK

(* A function in a queue belongs to a connection that exists.              *)
LEMMA BoundConstructed ==
  ASSUME Inv, NEW l \in Loops, NEW f \in Bound(l), f.conn \in Conns
  PROVE  Constructed(f.conn) /\ state[f.conn] = "Disconected"
<1>1. state[f.conn] = "Disconected"
  BY DEF Inv, LifeInv, StateInv, TypeOK
<1>2. Constructed(f.conn)
  BY <1>1 DEF Inv, LifeInv, StateInv
<1>. QED  BY <1>1, <1>2

(* The function at the head of the batch is one of the queue.              *)
LEMMA HeadBound ==
  ASSUME Inv, NEW l \in Loops, funcs[l] # <<>>
  PROVE  /\ Head(funcs[l]) \in Bound(l) /\ Head(funcs[l]) \in Tasks
         /\ Head(funcs[l]).conn \in Conns
         /\ Constructed(Head(funcs[l]).conn)
         /\ state[Head(funcs[l]).conn] = "Disconected"
<1>1. Head(funcs[l]) \in Elements(funcs[l]) /\ Head(funcs[l]) \in Tasks
  BY ElementsHeadTail DEF Inv, LoopInv, LoopTypeOK
<1>2. Head(funcs[l]) \in Bound(l) /\ Head(funcs[l]).conn \in Conns
  BY <1>1, BindTyped DEF Bound
<1>. QED  BY <1>1, <1>2, BoundConstructed

(* In a read or write callback the connection is open or was closed.       *)
LEMMA HandledConstructed ==
  ASSUME Inv, NEW l \in Loops, step[l] \in {"read", "write"}
  PROVE  /\ handling[l] \in Conns /\ Constructed(handling[l])
         /\ state[handling[l]] # "uninitialized"
         /\ ~Establishing(handling[l])
         /\ pc[l] = "HandleEvent"
<1> USE DEF Inv, LifeInv
<1>1. handling[l] \in Conns /\ handling[l] # NoConn
  BY DEF ThreadInv, TypeOK, Steps
<1>2. Constructed(handling[l])
  BY <1>1 DEF StateInv
<1>3. ~Establishing(handling[l])
  BY <1>1 DEF EstablishInv, Establishing
<1>4. state[handling[l]] # "uninitialized"
  BY <1>1, <1>2, <1>3 DEF StateInv, Establishing
<1>5. pc[l] = "HandleEvent"
  BY <1>1 DEF ThreadInv
<1>. QED  BY <1>1, <1>2, <1>3, <1>4, <1>5

(* Closing either changes no loop or queues one function, and that one is  *)
(* new: the close had not begun.                                           *)
LEMMA HandleCloseQueues ==
  ASSUME Inv, NEW t \in Loops, NEW c \in Conns, Constructed(c),
         state[c] # "uninitialized", HandleClose(t, c)
  PROVE  \/ UNCHANGED <<loopVars, state, connectionsMap>>
         \/ /\ state[c] = "Connected" /\ Mapped(c)
            /\ state' = [state EXCEPT ![c] = "Disconected"]
            /\ \/ /\ QueueOneFunc(t, event_loop[c], Bind("ConnectionDestructor", c))
                  /\ connectionsMap' = [connectionsMap EXCEPT ![client_fd[c]] = NoConn]
               \/ /\ QueueOneFunc(t, main_reactor, Bind("HandleCloseInLoop", c))
                  /\ connectionsMap' = connectionsMap
<1>1. state[c] # "Disconected" => state[c] = "Connected" /\ Mapped(c)
  BY DEF Inv, LifeInv, StateInv, TypeOK
<1>. QED  BY <1>1 DEF HandleClose, HandleCloseInLoop

-----------------------------------------------------------------------------
(* Every step keeps the types and the invariant of the loops.              *)

LEMMA InitTyped == ASSUME StrayTids = {}, Init PROVE LoopInv /\ TypeOK
<1>1. LoopInv  BY LoopInitInv DEF Init
<1>2. /\ client \in [Conns -> {"idle", "connected", "closed"}]
      /\ unread \in [Conns -> 0 .. MaxMessages] /\ backlog \in Seq(Conns)
      /\ interest \in [Conns -> {"none", "ET", "IN"}]
      /\ edges \subseteq Conns /\ failures \in 0 .. MaxFailures
  BY ServerAssumption DEF Init
<1>3. /\ client_fd \in [Conns -> Fds \cup {NoFd}]
      /\ event_loop \in [Conns -> Loops \cup {NoLoop}]
      /\ event_loops \in Pools /\ next = 0
      /\ state \in [Conns -> {"uninitialized", "Connected", "Disconected"}]
      /\ connectionsMap \in [Fds -> Conns \cup {NoConn}]
  BY DEF Init
<1>4. /\ ready \in [Loops -> SUBSET (Conns \cup {Acceptor})]
      /\ ready_events \subseteq Conns
      /\ handling \in [Loops -> Conns \cup {NoConn}]
      /\ step \in [Loops -> Steps] /\ killed \in BOOLEAN
  BY DEF Init, Steps
<1>. QED  BY <1>1, <1>2, <1>3, <1>4 DEF TypeOK, LoopInv

LEMMA NextEventLoopTyped ==
  ASSUME TypeOK
  PROVE  /\ NextEventLoop \in Loops
         /\ NextPosition \in {0} \cup {i \in DOMAIN event_loops : i < Len(event_loops)}
<1>1. event_loops \in Seq(Loops)  BY ServerAssumption DEF TypeOK
<1>2. /\ DOMAIN event_loops = 1 .. Len(event_loops) /\ Len(event_loops) \in Nat
      /\ \A i \in 1 .. Len(event_loops) : event_loops[i] \in Loops
      /\ event_loops # <<>> => Len(event_loops) # 0
  BY <1>1, EmptySeq, LenProperties, ElementOfSeq
<1>3. next \in Nat /\ (event_loops # <<>> => next < Len(event_loops))
  BY <1>2 DEF TypeOK
<1>4. NextEventLoop \in Loops
  BY <1>2, <1>3, ServerAssumption DEF NextEventLoop
<1>5. NextPosition \in {0} \cup {i \in DOMAIN event_loops : i < Len(event_loops)}
  <2>1. CASE event_loops = <<>> \/ next + 1 = Len(event_loops)
    BY <2>1 DEF NextPosition
  <2>2. CASE event_loops # <<>> /\ next + 1 # Len(event_loops)
    <3>1. next + 1 \in 1 .. Len(event_loops) /\ next + 1 < Len(event_loops)
      <4>1. next \in Nat /\ Len(event_loops) \in Nat /\ next < Len(event_loops)
        BY <2>2, <1>2, <1>3
      <4>2. next + 1 # Len(event_loops)  BY <2>2
      <4>. QED  BY <4>1, <4>2
    <3>2. NextPosition = next + 1  BY <2>2 DEF NextPosition
    <3>. QED  BY <3>1, <3>2, <1>2
  <2>. QED  BY <2>1, <2>2
<1>. QED  BY <1>4, <1>5

LEMMA ClientTyped ==
  ASSUME Inv, NEW c \in Conns, Client(c), killed' \in BOOLEAN
  PROVE  LoopInv' /\ TypeOK'
<1> USE DEF Inv
<1>1. LoopInv'  BY LoopStutterInv DEF Client
<1>2. client' \in [Conns -> {"idle", "connected", "closed"}] /\ edges' \subseteq Conns
  BY DEF TypeOK, Client, ClientConnect, ClientSend, ClientClose
<1>3. unread' \in [Conns -> 0 .. MaxMessages]
  <2>1. CASE ClientSend(c)
    <3>1. unread[c] + 1 \in 0 .. MaxMessages
      BY <2>1, ServerAssumption DEF TypeOK, ClientSend
    <3>. QED  BY <2>1, <3>1 DEF TypeOK, ClientSend
  <2>. QED  BY <2>1 DEF TypeOK, Client, ClientConnect, ClientClose
<1>4. backlog' \in Seq(Conns)
  <2>1. backlog' = Append(backlog, c) \/ backlog' = backlog
    BY DEF Client, ClientConnect, ClientSend, ClientClose
  <2>2. backlog \in Seq(Conns)  BY DEF TypeOK
  <2>. QED  BY <2>1, <2>2, AppendProperties
<1>. QED
  BY <1>1, <1>2, <1>3, <1>4 DEF TypeOK, LoopInv, Client, connVars, readyVars

LEMMA EpollWaitTyped ==
  ASSUME Inv, NEW l \in Loops, EpollWait(l), killed' \in BOOLEAN
  PROVE  LoopInv' /\ TypeOK'
<1> USE DEF Inv
<1>1. LoopInv'  BY EpollInv DEF EpollWait
<1>2. ready' \in [Loops -> SUBSET (Conns \cup {Acceptor})]
      /\ ready_events' \subseteq Conns /\ edges' \subseteq Conns
  BY DEF EpollWait, TypeOK, Reported, Resets, Acceptable, Edges
<1>. QED
  BY <1>1, <1>2 DEF TypeOK, LoopInv, EpollWait, peerVars, connVars

LEMMA LoopStepTyped ==
  ASSUME Inv, NEW l \in Loops, LoopStep(l), killed' \in BOOLEAN
  PROVE  LoopInv' /\ TypeOK'
<1> USE DEF Inv
<1>1. LoopInv'
  BY HandleReadInv, EnterToDoListInv, SwapToDoListInv, LeaveToDoListInv, NotifyInv
     DEF LoopStep
<1>. QED
  BY <1>1 DEF TypeOK, LoopInv, LoopStep, peerVars, epollVars, connVars, readyVars

(* Registering a channel, or failing to.                                   *)
LEMMA UpdateChannelTyped ==
  ASSUME Inv, NEW c \in Conns, NEW events \in {"ET", "IN"}, UpdateChannel(c, events)
  PROVE  /\ interest' \in [Conns -> {"none", "ET", "IN"}]
         /\ edges' \subseteq Conns /\ failures' \in 0 .. MaxFailures
<1>1. interest' \in [Conns -> {"none", "ET", "IN"}] /\ edges' \subseteq Conns
  BY DEF Inv, TypeOK, UpdateChannel
<1>2. failures' \in 0 .. MaxFailures
  <2>1. failures \in 0 .. MaxFailures  BY DEF Inv, TypeOK
  <2>. QED  BY <2>1, ServerAssumption DEF UpdateChannel
<1>. QED  BY <1>1, <1>2

LEMMA MainStepTyped ==
  ASSUME Inv, MainStep, killed' \in BOOLEAN
  PROVE  LoopInv' /\ TypeOK'
<1> USE ServerAssumption DEF Inv
<1>1. LoopInv'
  BY LoopStutterInv DEF MainStep, AcceptFails, Accept, Establish, EnableRead
<1>2. CASE AcceptFails
  BY <1>1, <1>2 DEF TypeOK, LoopInv, AcceptFails, peerVars, epollVars, connVars
<1>3. CASE Accept
  <2> DEFINE c == Head(backlog)
  <2>1. c \in Conns /\ Tail(backlog) \in Seq(Conns)
    BY <1>3, ElementsHeadTail DEF Accept, TypeOK
  <2>2. client_fd' \in [Conns -> Fds \cup {NoFd}]
    BY <1>3, <2>1 DEF Accept, TypeOK, FreeFds
  <2>3. event_loop' \in [Conns -> Loops \cup {NoLoop}]
    BY <1>3, <2>1, NextEventLoopTyped DEF Accept, TypeOK
  <2>4. handling' \in [Loops -> Conns \cup {NoConn}] /\ step' \in [Loops -> Steps]
        /\ ready' \in [Loops -> SUBSET (Conns \cup {Acceptor})]
    BY <1>3, <2>1 DEF Accept, TypeOK, Steps
  <2>5. next' \in {0} \cup {i \in DOMAIN event_loops' : i < Len(event_loops')}
    BY <1>3, NextEventLoopTyped DEF Accept
  <2>6. UpdateChannel(c, "ET")  BY <1>3 DEF Accept
  <2>. QED
    BY <1>1, <1>3, <2>1, <2>2, <2>3, <2>4, <2>5, <2>6, UpdateChannelTyped
       DEF TypeOK, LoopInv, Accept
<1>4. CASE Establish
  <2>1. handling[main_reactor] \in Conns
    BY <1>4 DEF Establish, LifeInv, ThreadInv, TypeOK, Steps
  <2>2. connectionsMap' \in [Fds -> Conns \cup {NoConn}]
        /\ state' \in [Conns -> {"uninitialized", "Connected", "Disconected"}]
        /\ step' \in [Loops -> Steps]
    BY <1>4, <2>1 DEF Establish, TypeOK, Steps
  <2>. QED
    BY <1>1, <1>4, <2>2
       DEF TypeOK, LoopInv, Establish, peerVars, epollVars, connVars, readyVars
<1>5. CASE EnableRead
  <2>1. handling[main_reactor] \in Conns
    BY <1>5 DEF EnableRead, LifeInv, ThreadInv, TypeOK, Steps
  <2>2. step' \in [Loops -> Steps]  BY <1>5 DEF EnableRead, TypeOK, Steps
  <2>3. UpdateChannel(handling[main_reactor], "IN")  BY <1>5 DEF EnableRead
  <2>. QED
    BY <1>1, <1>5, <2>1, <2>2, <2>3, UpdateChannelTyped
       DEF TypeOK, LoopInv, EnableRead, peerVars, connVars, readyVars
<1>. QED  BY <1>2, <1>3, <1>4, <1>5 DEF MainStep

(* Closing a connection from a callback of its thread.                     *)
LEMMA HandleCloseTyped ==
  ASSUME Inv, NEW t \in Loops, NEW c \in Conns, Constructed(c), InUserCode(t),
         state[c] # "uninitialized", HandleClose(t, c)
  PROVE  /\ LoopInv'
         /\ state' \in [Conns -> {"uninitialized", "Connected", "Disconected"}]
         /\ connectionsMap' \in [Fds -> Conns \cup {NoConn}]
<1> USE DEF Inv
<1>1. /\ client_fd[c] \in Fds /\ event_loop[c] \in Loops /\ main_reactor \in Loops
      /\ Bind("ConnectionDestructor", c) \in Tasks
      /\ Bind("HandleCloseInLoop", c) \in Tasks
  BY ConstructedHasLoop, BindTyped, ServerAssumption
<1>2. CASE UNCHANGED <<loopVars, state, connectionsMap>>
  BY <1>2, LoopStutterInv DEF TypeOK
<1>3. CASE /\ QueueOneFunc(t, event_loop[c], Bind("ConnectionDestructor", c))
           /\ connectionsMap' = [connectionsMap EXCEPT ![client_fd[c]] = NoConn]
           /\ state' = [state EXCEPT ![c] = "Disconected"]
  <2>1. LoopInv'  BY <1>1, <1>3, QueueOneFuncInv
  <2>. QED  BY <1>1, <1>3, <2>1 DEF TypeOK
<1>4. CASE /\ QueueOneFunc(t, main_reactor, Bind("HandleCloseInLoop", c))
           /\ connectionsMap' = connectionsMap
           /\ state' = [state EXCEPT ![c] = "Disconected"]
  <2>1. LoopInv'  BY <1>1, <1>4, QueueOneFuncInv
  <2>. QED  BY <1>4, <2>1 DEF TypeOK
<1>. QED  BY <1>2, <1>3, <1>4, HandleCloseQueues

LEMMA ReadCallbackTyped ==
  ASSUME Inv, NEW l \in Loops, ReadCallback(l), killed' \in BOOLEAN
  PROVE  LoopInv' /\ TypeOK'
<1> USE DEF Inv
<1> DEFINE c == handling[l]
<1>1. /\ c \in Conns /\ Constructed(c) /\ state[c] # "uninitialized"
      /\ pc[l] = "HandleEvent"
  BY HandledConstructed DEF ReadCallback
<1>2. InUserCode(l)
  BY <1>1 DEF InUserCode, At, ReadCallback
<1>3. unread' \in [Conns -> 0 .. MaxMessages]
  <2>1. unread[c] \in 0 .. MaxMessages  BY <1>1 DEF TypeOK
  <2>2. unread[c] > 0 => unread[c] - 1 \in 0 .. MaxMessages
    BY <2>1, ServerAssumption
  <2>3. \/ unread[c] > 0 /\ unread' = [unread EXCEPT ![c] = @ - 1]
        \/ unread' = unread
    BY DEF ReadCallback, ReadMessage, ReadTooLong, ReadRest
  <2>. QED  BY <1>1, <2>2, <2>3 DEF TypeOK
<1>4. edges' \subseteq Conns
  BY <1>1 DEF TypeOK, ReadCallback, ReadMessage, ReadTooLong, ReadRest
<1>5. /\ LoopInv'
      /\ state' \in [Conns -> {"uninitialized", "Connected", "Disconected"}]
      /\ connectionsMap' \in [Fds -> Conns \cup {NoConn}]
  <2>1. CASE HandleClose(l, c)  BY <1>1, <1>2, <2>1, HandleCloseTyped
  <2>2. CASE UNCHANGED <<loopVars, state, connectionsMap>>
    BY <2>2, LoopStutterInv DEF TypeOK
  <2>. QED
    BY <2>1, <2>2 DEF ReadCallback, ReadMessage, ReadTooLong, ReadRest
<1>6. step' \in [Loops -> Steps]  BY DEF TypeOK, ReadCallback, Steps
<1>. QED
  BY <1>3, <1>4, <1>5, <1>6 DEF TypeOK, LoopInv, ReadCallback, connVars, readyVars

LEMMA WriteCallbackTyped ==
  ASSUME Inv, NEW l \in Loops, WriteCallback(l), killed' \in BOOLEAN
  PROVE  LoopInv' /\ TypeOK'
<1> USE DEF Inv
<1> DEFINE c == handling[l]
<1>1. /\ c \in Conns /\ Constructed(c) /\ state[c] # "uninitialized"
      /\ pc[l] = "HandleEvent"
  BY HandledConstructed DEF WriteCallback
<1>2. InUserCode(l)
  BY <1>1 DEF InUserCode, At, WriteCallback
<1>3. /\ LoopInv'
      /\ state' \in [Conns -> {"uninitialized", "Connected", "Disconected"}]
      /\ connectionsMap' \in [Fds -> Conns \cup {NoConn}]
  <2>1. CASE HandleClose(l, c)  BY <1>1, <1>2, <2>1, HandleCloseTyped
  <2>2. CASE UNCHANGED <<loopVars, state, connectionsMap>>
    BY <2>2, LoopStutterInv DEF TypeOK
  <2>. QED  BY <2>1, <2>2 DEF WriteCallback
<1>4. step' \in [Loops -> Steps]  BY DEF TypeOK, WriteCallback, Steps
<1>. QED
  BY <1>3, <1>4
     DEF TypeOK, LoopInv, WriteCallback, peerVars, epollVars, connVars, readyVars

LEMMA HandleEventTyped ==
  ASSUME Inv, NEW l \in Loops,
         EndCallback(l) \/ \E c \in Conns : HandleEventIgnored(l,
         c) \/ HandleEvent(l, c), killed' \in BOOLEAN
  PROVE  LoopInv' /\ TypeOK'
<1> USE DEF Inv, HandleEventIgnored, HandleEvent, EndCallback
<1>1. LoopInv'  BY LoopStutterInv
<1>2. /\ ready' \in [Loops -> SUBSET (Conns \cup {Acceptor})]
      /\ handling' \in [Loops -> Conns \cup {NoConn}]
      /\ step' \in [Loops -> Steps]
  <2>1. CASE EndCallback(l)  BY <2>1 DEF TypeOK, Steps, readyVars
  <2>2. ASSUME NEW c \in Conns, HandleEventIgnored(l, c)
        PROVE  ready' \in [Loops -> SUBSET (Conns \cup {Acceptor})]
               /\ UNCHANGED <<handling, step>>
    BY <2>2 DEF TypeOK
  <2>3. ASSUME NEW c \in Conns, HandleEvent(l, c)
        PROVE  /\ ready' \in [Loops -> SUBSET (Conns \cup {Acceptor})]
               /\ handling' \in [Loops -> Conns \cup {NoConn}]
               /\ step' \in [Loops -> Steps]
    BY <2>3 DEF TypeOK, Steps
  <2>. QED  BY <2>1, <2>2, <2>3 DEF TypeOK
<1>. QED
  BY <1>1, <1>2 DEF TypeOK, LoopInv, peerVars, epollVars, connVars, readyVars

LEMMA RunFuncTyped ==
  ASSUME Inv, NEW l \in Loops, RunFunc(l), killed' \in BOOLEAN
  PROVE  LoopInv' /\ TypeOK'
<1> USE DEF Inv
<1> DEFINE f == Head(funcs[l])  c == f.conn
<1>1. c \in Conns /\ Constructed(c)  BY HeadBound DEF RunFunc
<1>2. /\ client_fd[c] \in Fds /\ event_loop[c] \in Loops
      /\ Bind("ConnectionDestructor", c) \in Tasks
  BY <1>1, ConstructedHasLoop, BindTyped
<1>3. InUserCode(l)  BY DEF RunFunc, InUserCode
<1>4. LoopInv' /\ connectionsMap' \in [Fds -> Conns \cup {NoConn}]
  <2>1. CASE HandleCloseInLoop(l, c)
    <3>1. LoopInv'
      BY <1>2, <1>3, <2>1, QueueOneFuncInv DEF HandleCloseInLoop
    <3>. QED  BY <1>2, <2>1, <3>1 DEF HandleCloseInLoop, TypeOK
  <2>2. CASE UNCHANGED <<loopVars, connectionsMap>>
    BY <2>2, LoopStutterInv DEF TypeOK
  <2>. QED  BY <2>1, <2>2 DEF RunFunc
<1>5. /\ interest' \in [Conns -> {"none", "ET", "IN"}]
      /\ edges' \subseteq Conns /\ step' \in [Loops -> Steps]
  BY <1>1 DEF RunFunc, ConnectionDestructor, TypeOK, Steps
<1>. QED
  BY <1>4, <1>5 DEF TypeOK, LoopInv, RunFunc, peerVars, connVars, readyVars

LEMMA EndFuncTyped ==
  ASSUME Inv, NEW l \in Loops, EndFunc(l), killed' \in BOOLEAN
  PROVE  LoopInv' /\ TypeOK'
<1> USE DEF Inv
<1>1. LoopInv'  BY FinishFuncInv DEF EndFunc
<1>2. step' \in [Loops -> Steps]  BY DEF EndFunc, TypeOK, Steps
<1>. QED
  BY <1>1, <1>2
     DEF TypeOK, LoopInv, EndFunc, peerVars, epollVars, connVars, readyVars

(* A signal ends the process and changes nothing else.                     *)
LEMMA StepOrKilled ==
  ASSUME TypeOK, [Next]_vars
  PROVE  [ServerStep]_serverVars /\ killed' \in BOOLEAN
BY DEF Next, vars, WriteKills, TypeOK

LEMMA NextTyped ==
  ASSUME Inv, [ServerStep]_serverVars, killed' \in BOOLEAN
  PROVE  LoopInv' /\ TypeOK'
<1>1. ASSUME NEW l \in Loops, ThreadStep(l)  PROVE LoopInv' /\ TypeOK'
  BY <1>1, LoopStepTyped, HandleEventTyped, ReadCallbackTyped, WriteCallbackTyped,
     RunFuncTyped, EndFuncTyped, MainStepTyped DEF ThreadStep
<1>2. CASE UNCHANGED serverVars
  <2>1. LoopInv'  BY <1>2, LoopStutterInv DEF serverVars, Inv
  <2>. QED
    BY <1>2, <2>1
       DEF serverVars, Inv, TypeOK, LoopInv, peerVars, epollVars, connVars,
           readyVars
<1>. QED  BY <1>1, <1>2, ClientTyped, EpollWaitTyped DEF ServerStep

-----------------------------------------------------------------------------
(* ThreadInv.                                                              *)

LEMMA NextThread == ASSUME Inv, [ServerStep]_serverVars PROVE ThreadInv'
<1> USE LoopsAssumption, ServerAssumption
    DEF Inv, LoopInv, LoopTypeOK, LifeInv, ThreadInv, At, Quiet
<1>1. ASSUME NEW c \in Conns, Client(c)  PROVE ThreadInv'
  BY <1>1 DEF Client, loopVars, connVars, readyVars
<1>2. ASSUME NEW l \in Loops, EpollWait(l)  PROVE ThreadInv'
  <2>1. PICK channels :
          /\ channels \subseteq Edges(l) \cup {Acceptor}
          /\ ready' = [ready EXCEPT ![l] = channels]
    BY <1>2 DEF EpollWait, Reported, Resets, Acceptable
  <2>2. /\ pc[l] = "Epoll" /\ pc' = [pc EXCEPT ![l] = "HandleEvent"]
        /\ UNCHANGED <<handling, step, funcs, event_loop>>
    BY <1>2 DEF EpollWait, Epoll, connVars
  <2>. QED  BY <2>1, <2>2 DEF Edges, TypeOK
<1>3. ASSUME NEW l \in Loops, LoopStep(l)  PROVE ThreadInv'
  <2>1. UNCHANGED <<handling, step, ready, event_loop>>
    BY <1>3 DEF LoopStep, connVars, readyVars
  <2>2. CASE Quiet(l) /\ HandleRead(l)  BY <2>1, <2>2 DEF HandleRead
  <2>3. CASE Quiet(l) /\ ready[l] = {} /\ EnterToDoList(l)
    BY <2>1, <2>3 DEF EnterToDoList
  <2>4. CASE SwapToDoList(l)  BY <2>1, <2>4 DEF SwapToDoList
  <2>5. CASE LeaveToDoList(l)  BY <2>1, <2>5 DEF LeaveToDoList, TypeOK, Steps
  <2>6. CASE Notify(l)  BY <2>1, <2>6 DEF Notify
  <2>. QED  BY <1>3, <2>2, <2>3, <2>4, <2>5, <2>6 DEF LoopStep
<1>4. CASE AcceptFails
  BY <1>4 DEF AcceptFails, loopVars, connVars, TypeOK
<1>5. CASE Accept
  <2>1. Head(backlog) \in Conns /\ Head(backlog) \in Elements(backlog)
    BY <1>5, ElementsHeadTail DEF Accept, TypeOK
  <2>2. \A k \in Loops : Head(backlog) \notin ready[k]
    BY <2>1 DEF BacklogInv, StateInv, Deregistered
  <2>3. /\ pc[main_reactor] = "HandleEvent" /\ UNCHANGED <<pc, funcs>>
        /\ handling' = [handling EXCEPT ![main_reactor] = Head(backlog)]
        /\ step' = [step EXCEPT ![main_reactor] = "accepted"]
        /\ ready' = [ready EXCEPT ![main_reactor] = @ \ {Acceptor}]
        /\ \A d \in Conns \ {Head(backlog)} : event_loop'[d] = event_loop[d]
    BY <1>5 DEF Accept, loopVars, TypeOK
  <2>. QED  BY <2>1, <2>2, <2>3 DEF TypeOK
<1>6. CASE Establish
  BY <1>6 DEF Establish, loopVars, connVars, readyVars, TypeOK
<1>7. CASE EnableRead
  BY <1>7 DEF EnableRead, loopVars, connVars, readyVars, TypeOK
<1>8. ASSUME NEW l \in Loops, NEW c \in Conns, HandleEventIgnored(l, c)
      PROVE  ThreadInv'
  BY <1>8 DEF HandleEventIgnored, loopVars, connVars, TypeOK
<1>9. ASSUME NEW l \in Loops, NEW c \in Conns, HandleEvent(l, c)
      PROVE  ThreadInv'
  BY <1>9 DEF HandleEvent, loopVars, connVars, TypeOK
<1>10. ASSUME NEW l \in Loops, ReadCallback(l) \/ WriteCallback(l)
       PROVE  ThreadInv'
  <2>1. /\ pc[l] = "HandleEvent" /\ handling[l] # NoConn
        /\ step' = [step EXCEPT ![l] = "write"] \/ step' = [step EXCEPT ![l] = "done"]
        /\ UNCHANGED <<handling, ready, event_loop>>
    BY <1>10, HandledConstructed DEF ReadCallback, WriteCallback, connVars, readyVars
  <2>2. UNCHANGED <<pc, funcs>>
    BY <1>10 DEF ReadCallback, WriteCallback, ReadMessage, ReadTooLong, ReadRest,
                 HandleClose, HandleCloseInLoop, QueueOneFunc, loopVars
  <2>. QED  BY <2>1, <2>2 DEF TypeOK
<1>11. ASSUME NEW l \in Loops, EndCallback(l)  PROVE ThreadInv'
  BY <1>11 DEF EndCallback, loopVars, connVars, readyVars, TypeOK, Steps
<1>12. ASSUME NEW l \in Loops, RunFunc(l)  PROVE ThreadInv'
  <2>1. /\ pc[l] = "Calling" /\ funcs[l] # <<>>
        /\ step' = [step EXCEPT ![l] = "done"]
        /\ UNCHANGED <<handling, ready, event_loop>>
    BY <1>12 DEF RunFunc, connVars, readyVars
  <2>2. UNCHANGED <<pc, funcs>>
    BY <1>12 DEF RunFunc, HandleCloseInLoop, QueueOneFunc, loopVars
  <2>. QED  BY <2>1, <2>2 DEF TypeOK
<1>13. ASSUME NEW l \in Loops, EndFunc(l)  PROVE ThreadInv'
  BY <1>13 DEF EndFunc, FinishFunc, connVars, readyVars, TypeOK, Steps
<1>14. CASE UNCHANGED serverVars
  BY <1>14 DEF serverVars, loopVars, connVars, readyVars
<1>. QED
  BY <1>1, <1>2, <1>3, <1>4, <1>5, <1>6, <1>7, <1>8, <1>9, <1>10, <1>11, <1>12,
     <1>13, <1>14 DEF ServerStep, ThreadStep, MainStep

-----------------------------------------------------------------------------
(* BacklogInv.                                                             *)

(* Only clients and Accept touch the listen queue.                         *)
LEMMA WhoChangesBacklog ==
  ASSUME [ServerStep]_serverVars
  PROVE  \/ \E c \in Conns : Client(c)
         \/ Accept
         \/ UNCHANGED <<client, backlog, client_fd>>
BY DEF ServerStep, serverVars, peerVars, connVars, EpollWait, ThreadStep,
       LoopStep,
       HandleEventIgnored, HandleEvent, ReadCallback, WriteCallback, EndCallback,
       RunFunc, EndFunc, MainStep, AcceptFails, Establish, EnableRead

LEMMA NextBacklog == ASSUME Inv, [ServerStep]_serverVars PROVE BacklogInv'
<1> USE DEF Inv, LifeInv, BacklogInv, TypeOK
<1>1. ASSUME NEW c \in Conns, Client(c)  PROVE BacklogInv'
  <2>1. client_fd' = client_fd  BY <1>1 DEF Client, connVars
  <2>2. CASE ClientConnect(c)
    <3>1. c \notin Elements(backlog) /\ ~Constructed(c)
      BY <2>2 DEF ClientConnect
    <3>2. NoDuplicates(backlog') /\ Elements(backlog') = Elements(backlog) \cup {c}
      BY <2>2, <3>1, ElementsAppend DEF ClientConnect
    <3>. QED  BY <2>1, <2>2, <3>1, <3>2 DEF ClientConnect, Constructed
  <2>3. CASE ClientSend(c)  BY <2>1, <2>3 DEF ClientSend, Constructed
  <2>4. CASE ClientClose(c)  BY <2>1, <2>4 DEF ClientClose, Constructed
  <2>. QED  BY <1>1, <2>2, <2>3, <2>4 DEF Client
<1>2. CASE Accept
  <2> DEFINE c == Head(backlog)
  <2>1. /\ c \in Conns /\ c \in Elements(backlog)
        /\ c \notin Elements(Tail(backlog)) /\ NoDuplicates(Tail(backlog))
        /\ Elements(Tail(backlog)) \subseteq Elements(backlog)
    BY <1>2, ElementsHeadTail DEF Accept
  <2>2. /\ \A d \in Conns \ {c} : client_fd'[d] = client_fd[d]
        /\ backlog' = Tail(backlog) /\ client' = client
    BY <1>2, <2>1 DEF Accept
  <2>3. Elements(Tail(backlog)) \subseteq Conns
    <3>1. Tail(backlog) \in Seq(Conns)  BY <1>2, ElementsHeadTail DEF Accept
    <3>. QED  BY <3>1, LenProperties, ElementOfSeq DEF Elements
  <2>. QED  BY <2>1, <2>2, <2>3 DEF Constructed
<1>3. CASE UNCHANGED <<client, backlog, client_fd>>
  BY <1>3 DEF Constructed
<1>. QED  BY <1>1, <1>2, <1>3, WhoChangesBacklog

-----------------------------------------------------------------------------
(* MapInv, and what happens to the state of a connection.                  *)

(* Only these steps touch the map, the state or the descriptor.            *)
LEMMA WhoChangesState ==
  ASSUME [ServerStep]_serverVars
  PROVE  \/ Accept \/ Establish
         \/ \E l \in Loops : ReadCallback(l) \/ WriteCallback(l) \/ RunFunc(l)
         \/ UNCHANGED <<state, connectionsMap, client_fd, event_loop>>
BY DEF ServerStep, serverVars, peerVars, connVars, EpollWait, ThreadStep,
       LoopStep, Client,
       HandleEventIgnored, HandleEvent, EndCallback, EndFunc, MainStep,
       AcceptFails, EnableRead

(* The connection at the head of the listen queue is new to everyone.      *)
LEMMA AcceptedIsNew ==
  ASSUME Inv, Accept
  PROVE  \E c \in Conns :
         /\ c = Head(backlog) /\ ~Constructed(c) /\ state[c] = "uninitialized"
         /\ Deregistered(c) /\ c \notin ready_events
         /\ \A l \in Loops : handling[l] # c
         /\ \A fd \in Fds : connectionsMap[fd] # c
         /\ \E fd \in FreeFds : client_fd' = [client_fd EXCEPT ![c] = fd]
         /\ Constructed(c)' /\ client_fd'[c] \in Fds
         /\ \A d \in Conns \ {c} : /\ client_fd'[d] = client_fd[d]
                                   /\ event_loop'[d] = event_loop[d]
                                   /\ Constructed(d)' <=> Constructed(d)
<1> USE DEF Inv, LifeInv
<1>1. PICK c \in Conns : c = Head(backlog) /\ c \in Elements(backlog)
  BY ElementsHeadTail DEF Accept, TypeOK
<1>2. ~Constructed(c)  BY <1>1 DEF BacklogInv
<1>3. /\ state[c] = "uninitialized" /\ Deregistered(c) /\ c \notin ready_events
      /\ \A l \in Loops : handling[l] # c
  BY <1>1, <1>2 DEF StateInv
<1>4. \A fd \in Fds : connectionsMap[fd] # c
  BY <1>1, <1>3 DEF MapInv
<1>5. PICK fd \in FreeFds : client_fd' = [client_fd EXCEPT ![c] = fd]
  BY <1>1 DEF Accept
<1>6. /\ Constructed(c)' /\ client_fd'[c] \in Fds
      /\ \A d \in Conns \ {c} : /\ client_fd'[d] = client_fd[d]
                                /\ Constructed(d)' <=> Constructed(d)
  <2>1. fd \in Fds /\ fd # NoFd /\ client_fd \in [Conns -> Fds \cup {NoFd}]
    BY ServerAssumption DEF FreeFds, TypeOK
  <2>2. client_fd'[c] = fd /\ \A d \in Conns \ {c} : client_fd'[d] = client_fd[d]
    BY <1>1, <1>5, <2>1
  <2>3. Constructed(c)' /\ client_fd'[c] \in Fds  BY <2>1, <2>2 DEF Constructed
  <2>4. ASSUME NEW d \in Conns \ {c}  PROVE Constructed(d)' <=> Constructed(d)
    BY <2>2 DEF Constructed
  <2>. QED  BY <2>2, <2>3, <2>4
<1>7. \A d \in Conns \ {c} : event_loop'[d] = event_loop[d]
  BY <1>1 DEF Accept, TypeOK
<1>. QED  BY <1>1, <1>2, <1>3, <1>4, <1>5, <1>6, <1>7

(* The connection that is being established.                               *)
LEMMA EstablishedIsNew ==
  ASSUME Inv, Establish
  PROVE  \E c \in Conns :
         /\ c = handling[main_reactor] /\ Constructed(c) /\ client_fd[c] \in Fds
         /\ state[c] = "uninitialized"
         /\ connectionsMap' = [connectionsMap EXCEPT ![client_fd[c]] = c]
         /\ state' = [state EXCEPT ![c] = "Connected"]
         /\ UNCHANGED <<client_fd, event_loop, handling>>
         /\ Establishing(c)
         /\ \A d \in Conns : connectionsMap[client_fd[c]] # d
<1> USE ServerAssumption DEF Inv, LifeInv
<1>1. PICK c \in Conns : c = handling[main_reactor] /\ Establishing(c)
  BY DEF Establish, ThreadInv, TypeOK, Steps, Establishing
<1>2. Constructed(c) /\ client_fd[c] \in Fds
  BY <1>1 DEF StateInv, TypeOK, Constructed
<1>3. state[c] = "uninitialized"
  BY <1>1 DEF EstablishInv, Establish
<1>4. ASSUME NEW d \in Conns, connectionsMap[client_fd[c]] = d  PROVE FALSE
  <2>1. client_fd[d] = client_fd[c] /\ d # c
    BY <1>2, <1>3, <1>4, <1>1 DEF MapInv
  <2>2. Held(d) /\ Held(c)
    BY <1>1, <1>2, <1>4, <2>1 DEF Held, Constructed
  <2>. QED  BY <1>1, <2>1, <2>2 DEF FdInv
<1>. QED  BY <1>1, <1>2, <1>3, <1>4 DEF Establish, connVars

(* What closing in a callback does to the state and the map.               *)
LEMMA CallbackCases ==
  ASSUME Inv, NEW l \in Loops, ReadCallback(l) \/ WriteCallback(l)
  PROVE  \E c \in Conns :
         /\ c = handling[l] /\ Constructed(c) /\ client_fd[c] \in Fds
         /\ event_loop[c] \in Loops /\ ~Establishing(c) /\ pc[l] = "HandleEvent"
         /\ state[c] # "uninitialized" /\ queueing[l] = NoLoop
         /\ UNCHANGED <<client_fd, event_loop, handling, ready, ready_events, interest>>
         /\ \/ UNCHANGED <<loopVars, state, connectionsMap>>
            \/ /\ state[c] = "Connected" /\ Mapped(c)
               /\ state' = [state EXCEPT ![c] = "Disconected"]
               /\ edges' = edges
               /\ \/ /\ QueueOneFunc(l, event_loop[c], Bind("ConnectionDestructor", c))
                     /\ connectionsMap' = [connectionsMap EXCEPT ![client_fd[c]] = NoConn]
                  \/ /\ QueueOneFunc(l, main_reactor, Bind("HandleCloseInLoop", c))
                     /\ connectionsMap' = connectionsMap
<1>1. PICK c \in Conns :
        /\ c = handling[l] /\ Constructed(c) /\ client_fd[c] \in Fds
        /\ event_loop[c] \in Loops /\ ~Establishing(c) /\ pc[l] = "HandleEvent"
        /\ state[c] # "uninitialized"
  BY HandledConstructed, ConstructedHasLoop DEF ReadCallback, WriteCallback
<1>2. /\ queueing[l] = NoLoop
      /\ UNCHANGED <<client_fd, event_loop, handling, ready, ready_events, interest>>
  BY DEF ReadCallback, WriteCallback, connVars, readyVars, epollVars
<1>3. \/ UNCHANGED <<loopVars, state, connectionsMap>>
      \/ HandleClose(l, c) /\ edges' = edges
  BY <1>1 DEF ReadCallback, WriteCallback, ReadMessage, ReadTooLong, ReadRest,
              epollVars
<1>. QED  BY <1>1, <1>2, <1>3, HandleCloseQueues

(* What the function at the head of the batch does.                        *)
LEMMA RunFuncCases ==
  ASSUME Inv, NEW l \in Loops, RunFunc(l)
  PROVE  \E c \in Conns :
         /\ Constructed(c) /\ client_fd[c] \in Fds /\ event_loop[c] \in Loops
         /\ state[c] = "Disconected" /\ pc[l] = "Calling" /\ queueing[l] = NoLoop
         /\ funcs[l] # <<>> /\ step[l] = "idle" /\ step' = [step EXCEPT ![l] = "done"]
         /\ UNCHANGED <<pc, funcs, spent, client_fd, event_loop, state, handling, ready,
                        ready_events>>
         /\ \/ /\ Head(funcs[l]) = Bind("HandleCloseInLoop", c)
               /\ Mapped(c) /\ l = main_reactor
               /\ QueueOneFunc(l, event_loop[c], Bind("ConnectionDestructor", c))
               /\ connectionsMap' = [connectionsMap EXCEPT ![client_fd[c]] = NoConn]
               /\ UNCHANGED <<interest, edges>>
            \/ /\ Head(funcs[l]) = Bind("ConnectionDestructor", c)
               /\ ~Mapped(c) /\ l = event_loop[c]
               /\ interest' = [interest EXCEPT ![c] = "none"] /\ edges' = edges \ {c}
               /\ UNCHANGED <<loopVars, connectionsMap>>
<1> DEFINE f == Head(funcs[l])
<1>1. /\ f \in Bound(l) /\ f \in Tasks /\ f.conn \in Conns /\ Constructed(f.conn)
      /\ state[f.conn] = "Disconected" /\ f = Bind(f.fn, f.conn)
  BY HeadBound, BindTyped DEF RunFunc
<1>2. client_fd[f.conn] \in Fds /\ event_loop[f.conn] \in Loops
  BY <1>1, ConstructedHasLoop
<1>3. /\ pc[l] = "Calling" /\ queueing[l] = NoLoop /\ funcs[l] # <<>>
      /\ step[l] = "idle" /\ step' = [step EXCEPT ![l] = "done"]
      /\ UNCHANGED <<client_fd, event_loop, state, handling, ready, ready_events>>
  BY DEF RunFunc, At, connVars, readyVars
<1>4. f \in NotBegun(l)
  <2>1. f \in Elements(funcs[l])
    BY <1>3, ElementsHeadTail DEF Inv, LoopInv, LoopTypeOK
  <2>. QED  BY <2>1, <1>3 DEF NotBegun, Rest
<1>5. UNCHANGED <<pc, funcs, spent>>
  BY DEF RunFunc, HandleCloseInLoop, QueueOneFunc, loopVars
<1>6. CASE f.fn = "HandleCloseInLoop" /\ HandleCloseInLoop(l, f.conn)
           /\ UNCHANGED <<interest, edges>>
  <2>1. Mapped(f.conn) /\ l = main_reactor
    BY <1>1, <1>4, <1>6 DEF Inv, LifeInv, QueueInv
  <2>. QED  BY <1>1, <1>2, <1>3, <1>5, <1>6, <2>1 DEF HandleCloseInLoop
<1>7. CASE f.fn = "ConnectionDestructor" /\ ConnectionDestructor(f.conn)
           /\ UNCHANGED <<loopVars, connectionsMap>>
  <2>1. ~Mapped(f.conn) /\ l = event_loop[f.conn]
    BY <1>1, <1>7 DEF Inv, LifeInv, QueueInv
  <2>. QED  BY <1>1, <1>2, <1>3, <1>5, <1>7, <2>1 DEF ConnectionDestructor
<1>. QED  BY <1>6, <1>7 DEF RunFunc

LEMMA NextMap == ASSUME Inv, [ServerStep]_serverVars PROVE MapInv'
<1> USE DEF Inv, LifeInv, MapInv, TypeOK
<1>1. CASE Accept
  <2>1. PICK c \in Conns :
          /\ \A fd \in Fds : connectionsMap[fd] # c
          /\ \A d \in Conns \ {c} : client_fd'[d] = client_fd[d]
    BY <1>1, AcceptedIsNew
  <2>2. UNCHANGED <<connectionsMap, state>>  BY <1>1 DEF Accept
  <2>. QED  BY <2>1, <2>2
<1>2. CASE Establish
  <2>1. PICK c \in Conns :
          /\ client_fd[c] \in Fds /\ client_fd' = client_fd
          /\ connectionsMap' = [connectionsMap EXCEPT ![client_fd[c]] = c]
          /\ state' = [state EXCEPT ![c] = "Connected"]
    BY <1>2, EstablishedIsNew
  <2>. QED  BY <2>1
<1>3. ASSUME NEW l \in Loops, ReadCallback(l) \/ WriteCallback(l)  PROVE MapInv'
  <2>1. PICK c \in Conns :
          /\ client_fd' = client_fd
          /\ state' = state \/ state' = [state EXCEPT ![c] = "Disconected"]
          /\ \/ connectionsMap' = connectionsMap
             \/ connectionsMap' = [connectionsMap EXCEPT ![client_fd[c]] = NoConn]
    BY <1>3, CallbackCases
  <2>2. ASSUME NEW fd \in Fds, NEW d \in Conns, connectionsMap'[fd] = d
        PROVE  connectionsMap[fd] = d
    BY <2>1, <2>2, ServerAssumption
  <2>3. ASSUME NEW d \in Conns, state[d] # "uninitialized"
        PROVE  state'[d] # "uninitialized"
    BY <2>1, <2>3
  <2>. QED  BY <2>1, <2>2, <2>3
<1>4. ASSUME NEW l \in Loops, RunFunc(l)  PROVE MapInv'
  <2>1. PICK c \in Conns :
          /\ UNCHANGED <<client_fd, state>>
          /\ \/ connectionsMap' = connectionsMap
             \/ connectionsMap' = [connectionsMap EXCEPT ![client_fd[c]] = NoConn]
    BY <1>4, RunFuncCases
  <2>2. ASSUME NEW fd \in Fds, NEW d \in Conns, connectionsMap'[fd] = d
        PROVE  connectionsMap[fd] = d
    BY <2>1, <2>2, ServerAssumption
  <2>3. ASSUME NEW d \in Conns, state[d] # "uninitialized"
        PROVE  state'[d] # "uninitialized"
    BY <2>1, <2>3
  <2>. QED  BY <2>1, <2>2, <2>3
<1>5. CASE UNCHANGED <<state, connectionsMap, client_fd, event_loop>>
  BY <1>5
<1>. QED  BY <1>1, <1>2, <1>3, <1>4, <1>5, WhoChangesState

-----------------------------------------------------------------------------
(* EstablishInv.                                                           *)

(* A connection that epoll reports as readable is not being established.   *)
LEMMA NextEstablish == ASSUME Inv, [ServerStep]_serverVars PROVE EstablishInv'
<1> USE ServerAssumption DEF Inv, LifeInv, EstablishInv, Establishing, TypeOK
<1>1. ASSUME NEW c \in Conns, Client(c)  PROVE EstablishInv'
  BY <1>1 DEF Client, readyVars
<1>2. ASSUME NEW l \in Loops, EpollWait(l)  PROVE EstablishInv'
  BY <1>2 DEF EpollWait, Reported
<1>3. ASSUME NEW l \in Loops, LoopStep(l)  PROVE EstablishInv'
  BY <1>3 DEF LoopStep, epollVars, readyVars
<1>4. CASE AcceptFails
  BY <1>4 DEF AcceptFails, epollVars
<1>5. CASE Accept
  <2>1. PICK c \in Conns :
          /\ c = Head(backlog) /\ state[c] = "uninitialized"
          /\ Deregistered(c) /\ c \notin ready_events
          /\ \A l \in Loops : handling[l] # c
    BY <1>5, AcceptedIsNew
  <2>2. /\ handling' = [handling EXCEPT ![main_reactor] = c]
        /\ step' = [step EXCEPT ![main_reactor] = "accepted"]
        /\ UNCHANGED <<state, ready_events>>
        /\ interest' = [interest EXCEPT ![c] = "ET"] \/ interest' = interest
    BY <1>5, <2>1 DEF Accept, UpdateChannel
  <2>. QED  BY <2>1, <2>2 DEF Deregistered
<1>6. CASE Establish
  <2>1. PICK c \in Conns :
          /\ c = handling[main_reactor] /\ Establishing(c)
          /\ state' = [state EXCEPT ![c] = "Connected"] /\ handling' = handling
    BY <1>6, EstablishedIsNew
  <2>2. /\ step' = [step EXCEPT ![main_reactor] = "established"]
        /\ UNCHANGED <<interest, ready_events>>
    BY <1>6 DEF Establish, epollVars, readyVars
  <2>. QED  BY <2>1, <2>2
<1>7. CASE EnableRead
  <2>1. \A c \in Conns : ~Establishing(c)'  BY <1>7 DEF EnableRead
  <2>. QED  BY <2>1
<1>8. ASSUME NEW l \in Loops, NEW c \in Conns, HandleEventIgnored(l, c)
      PROVE  EstablishInv'
  BY <1>8 DEF HandleEventIgnored, epollVars
<1>9. ASSUME NEW l \in Loops, NEW c \in Conns, HandleEvent(l, c)
      PROVE  EstablishInv'
  BY <1>9 DEF HandleEvent, epollVars, Quiet
<1>10. ASSUME NEW l \in Loops, ReadCallback(l) \/ WriteCallback(l)
       PROVE  EstablishInv'
  <2>1. PICK c \in Conns :
          /\ ~Establishing(c)
          /\ UNCHANGED <<handling, ready_events, interest>>
          /\ state' = state \/ state' = [state EXCEPT ![c] = "Disconected"]
    BY <1>10, CallbackCases
  <2>2. /\ step[l] \in {"read", "write"}
        /\ step' = [step EXCEPT ![l] = "write"] \/ step' = [step EXCEPT ![l] = "done"]
    BY <1>10 DEF ReadCallback, WriteCallback
  <2>. QED  BY <2>1, <2>2
<1>11. ASSUME NEW l \in Loops, EndCallback(l)  PROVE EstablishInv'
  BY <1>11 DEF EndCallback, epollVars, readyVars
<1>12. ASSUME NEW l \in Loops, RunFunc(l)  PROVE EstablishInv'
  BY <1>12, HeadBound DEF RunFunc, ConnectionDestructor, readyVars
<1>13. ASSUME NEW l \in Loops, EndFunc(l)  PROVE EstablishInv'
  BY <1>13 DEF EndFunc, epollVars, readyVars
<1>14. CASE UNCHANGED serverVars
  BY <1>14 DEF serverVars, epollVars, readyVars
<1>. QED
  BY <1>1, <1>2, <1>3, <1>4, <1>5, <1>6, <1>7, <1>8, <1>9, <1>10, <1>11, <1>12,
     <1>13, <1>14 DEF ServerStep, ThreadStep, MainStep

-----------------------------------------------------------------------------
(* What the steps do to the queues: Bound and NotBegun.                    *)

LEMMA QueueTypes ==
  ASSUME Inv, NEW l \in Loops
  PROVE  to_do_list[l] \in Seq(Tasks) /\ funcs[l] \in Seq(Tasks)
BY DEF Inv, LoopInv, LoopTypeOK

(* A function handed to a loop that does not hold it.                      *)
LEMMA QueueOneSets ==
  ASSUME Inv, NEW t \in Loops, NEW l \in Loops, NEW f \in Tasks,
         QueueOneFunc(t, l, f), f \notin Bound(l)
  PROVE  /\ OnceInv'
         /\ \A k \in Loops \ {l} : /\ Bound(k)' = Bound(k)
                                   /\ Elements(to_do_list'[k]) = Elements(to_do_list[k])
         /\ Bound(l)' = Bound(l) \cup {f}
         /\ Elements(to_do_list'[l]) = Elements(to_do_list[l]) \cup {f}
<1> USE DEF Inv, LifeInv, OnceInv
<1>1. /\ \A k \in Loops \ {l} : to_do_list'[k] = to_do_list[k]
      /\ to_do_list'[l] = Append(to_do_list[l], f)
      /\ UNCHANGED <<funcs, spent>>
  BY DEF QueueOneFunc, LoopInv, LoopTypeOK
<1>2. f \notin Elements(to_do_list[l]) /\ f \notin Elements(funcs[l]) /\ f \notin spent[l]
  BY DEF Bound
<1>3. /\ Elements(to_do_list'[l]) = Elements(to_do_list[l]) \cup {f}
      /\ NoDuplicates(to_do_list'[l])
  BY <1>1, <1>2, QueueTypes, ElementsAppend
<1>4. Bound(l)' = Bound(l) \cup {f}
  BY <1>1, <1>3 DEF Bound
<1>5. ASSUME NEW k \in Loops \ {l}
      PROVE  Bound(k)' = Bound(k) /\ Elements(to_do_list'[k]) = Elements(to_do_list[k])
  BY <1>1 DEF Bound
<1>6. OnceInv'
  <2> SUFFICES ASSUME NEW k \in Loops
               PROVE  /\ NoDuplicates(to_do_list'[k]) /\ NoDuplicates(funcs'[k])
                      /\ Elements(to_do_list'[k]) \cap (Elements(funcs'[k]) \cup spent'[k]) = {}
    OBVIOUS
  <2>1. CASE k = l  BY <2>1, <1>1, <1>2, <1>3
  <2>2. CASE k # l  BY <2>2, <1>1
  <2>. QED  BY <2>1, <2>2
<1>. QED  BY <1>3, <1>4, <1>5, <1>6

(* A step that leaves the queues alone, and the step of every thread that  *)
(* runs functions.                                                         *)
LEMMA SameQueues ==
  ASSUME Inv, UNCHANGED <<to_do_list, funcs, spent, pc>>,
         \A k \in Loops : pc[k] = "Calling" => step'[k] = step[k]
  PROVE  OnceInv' /\ \A k \in Loops : Bound(k)' = Bound(k) /\ NotBegun(k)' = NotBegun(k)
<1>1. OnceInv'  BY DEF Inv, LifeInv, OnceInv
<1>2. ASSUME NEW k \in Loops  PROVE Bound(k)' = Bound(k) /\ Rest(k)' = Rest(k)
  BY <1>2 DEF Bound, Rest
<1>. QED  BY <1>1, <1>2 DEF NotBegun

(* The loop's own steps move functions, and let them go when they have run.*)
LEMMA LoopStepQueues ==
  ASSUME Inv, NEW l \in Loops, LoopStep(l)
  PROVE  /\ OnceInv'
         /\ \A k \in Loops : Bound(k)' \subseteq Bound(k) /\ NotBegun(k)' = NotBegun(k)
<1> USE DEF Inv, LifeInv, LoopInv
<1>0. step' = step  BY DEF LoopStep
<1>1. CASE HandleRead(l)
  BY <1>0, <1>1, SameQueues DEF HandleRead
<1>2. CASE Notify(l)
  BY <1>0, <1>2, SameQueues DEF Notify
<1>3. CASE EnterToDoList(l)
  <2>1. OnceInv'  BY <1>3 DEF EnterToDoList, OnceInv
  <2>2. ASSUME NEW k \in Loops  PROVE Bound(k)' = Bound(k) /\ Rest(k)' = Rest(k)
    BY <1>0, <1>3 DEF EnterToDoList, At, Bound, Rest, LoopTypeOK
  <2>. QED  BY <1>3, <2>1, <2>2 DEF EnterToDoList, NotBegun
<1>4. CASE SwapToDoList(l)
  <2>1. funcs[l] = <<>> /\ step[l] = "idle" /\ pc[l] = "Swap"
    BY <1>4 DEF SwapToDoList, At, ControlInv, ThreadInv
  <2>2. /\ funcs'[l] = to_do_list[l] /\ to_do_list'[l] = <<>>
        /\ \A k \in Loops \ {l} : /\ funcs'[k] = funcs[k] /\ to_do_list'[k] = to_do_list[k]
                                  /\ pc'[k] = pc[k]
        /\ spent' = spent
    BY <1>4 DEF SwapToDoList, LoopTypeOK
  <2>3. OnceInv'
    BY <2>2, ElementsEmpty DEF OnceInv
  <2>4. ASSUME NEW k \in Loops \ {l}  PROVE Bound(k)' = Bound(k) /\ NotBegun(k)' = NotBegun(k)
    BY <1>0, <2>2 DEF Bound, NotBegun, Rest
  <2>5. Bound(l)' = Bound(l)
    BY <2>1, <2>2, ElementsEmpty DEF Bound
  <2>6. Rest(l)' = to_do_list[l] /\ Rest(l) = <<>>
    BY <1>0, <2>1, <2>2 DEF Rest
  <2>7. NotBegun(l)' = NotBegun(l)
    BY <2>2, <2>6, ElementsEmpty DEF NotBegun
  <2>. QED  BY <2>3, <2>4, <2>5, <2>7
<1>5. CASE LeaveToDoList(l)
  <2>1. funcs[l] = <<>> /\ step[l] = "idle"
    BY <1>5 DEF LeaveToDoList, At, ThreadInv, TypeOK
  <2>2. /\ spent'[l] = {} /\ UNCHANGED <<to_do_list, funcs>>
        /\ \A k \in Loops \ {l} : spent'[k] = spent[k] /\ pc'[k] = pc[k]
    BY <1>5 DEF LeaveToDoList, LoopTypeOK
  <2>3. OnceInv'
    <3> SUFFICES ASSUME NEW k \in Loops
                 PROVE  Elements(to_do_list[k]) \cap (Elements(funcs[k]) \cup spent'[k]) = {}
      BY <2>2 DEF OnceInv
    <3>. QED  BY <2>2 DEF OnceInv
  <2>4. ASSUME NEW k \in Loops  PROVE Bound(k)' \subseteq Bound(k)
    BY <2>2 DEF Bound
  <2>5. ASSUME NEW k \in Loops  PROVE Rest(k)' = Rest(k)
    BY <1>0, <2>1, <2>2 DEF Rest
  <2>. QED  BY <2>2, <2>3, <2>4, <2>5 DEF NotBegun
<1>. QED  BY <1>1, <1>2, <1>3, <1>4, <1>5 DEF LoopStep

(* A function that has returned is kept to the end of the batch.           *)
LEMMA EndFuncQueues ==
  ASSUME Inv, NEW l \in Loops, EndFunc(l)
  PROVE  /\ OnceInv'
         /\ \A k \in Loops : Bound(k)' = Bound(k) /\ NotBegun(k)' = NotBegun(k)
<1> USE DEF Inv, LifeInv, LoopInv
<1>1. /\ funcs[l] # <<>> /\ step[l] = "done" /\ pc[l] = "Calling"
      /\ spent'[l] = spent[l] \cup {Head(funcs[l])} /\ funcs'[l] = Tail(funcs[l])
      /\ step'[l] = "idle" /\ UNCHANGED <<pc, to_do_list>>
      /\ \A k \in Loops \ {l} : /\ funcs'[k] = funcs[k] /\ spent'[k] = spent[k]
                                /\ step'[k] = step[k]
  BY DEF EndFunc, FinishFunc, At, LoopTypeOK, TypeOK
<1>2. /\ Elements(funcs[l]) = {Head(funcs[l])} \cup Elements(funcs'[l])
      /\ NoDuplicates(funcs'[l])
  BY <1>1, QueueTypes, ElementsHeadTail DEF OnceInv
<1>3. OnceInv'
  <2> SUFFICES ASSUME NEW k \in Loops
               PROVE  /\ NoDuplicates(to_do_list'[k]) /\ NoDuplicates(funcs'[k])
                      /\ Elements(to_do_list'[k]) \cap (Elements(funcs'[k]) \cup spent'[k]) = {}
    BY DEF OnceInv
  <2>1. CASE k = l  BY <2>1, <1>1, <1>2 DEF OnceInv
  <2>2. CASE k # l  BY <2>2, <1>1 DEF OnceInv
  <2>. QED  BY <2>1, <2>2
<1>4. ASSUME NEW k \in Loops \ {l}  PROVE Bound(k)' = Bound(k) /\ NotBegun(k)' = NotBegun(k)
  BY <1>1 DEF Bound, NotBegun, Rest
<1>5. Bound(l)' = Bound(l)  BY <1>1, <1>2 DEF Bound
<1>6. Rest(l)' = Tail(funcs[l]) /\ Rest(l) = Tail(funcs[l])  BY <1>1 DEF Rest
<1>7. NotBegun(l)' = NotBegun(l)  BY <1>1, <1>6 DEF NotBegun
<1>. QED  BY <1>3, <1>4, <1>5, <1>7

(* A callback hands a function over.                                       *)
LEMMA HandOverQueues ==
  ASSUME Inv, NEW t \in Loops, NEW l \in Loops, NEW f \in Tasks,
         QueueOneFunc(t, l, f), f \notin Bound(l), pc[t] = "HandleEvent",
         \A k \in Loops \ {t} : step'[k] = step[k]
  PROVE  /\ OnceInv'
         /\ \A k \in Loops \ {l} : Bound(k)' = Bound(k) /\ NotBegun(k)' = NotBegun(k)
         /\ Bound(l)' = Bound(l) \cup {f} /\ NotBegun(l)' = NotBegun(l) \cup {f}
<1>1. UNCHANGED <<pc, funcs>>  BY DEF QueueOneFunc
<1>2. ASSUME NEW k \in Loops  PROVE Rest(k)' = Rest(k)
  BY <1>1 DEF Rest
<1>. QED  BY <1>2, QueueOneSets DEF NotBegun

(* The function at the head of the batch begins: it leaves NotBegun.       *)
LEMMA RunFuncRest ==
  ASSUME Inv, NEW l \in Loops, RunFunc(l)
  PROVE  /\ NotBegun(l) = Elements(to_do_list[l]) \cup {Head(funcs[l])} \cup Elements(Rest(l)')
         /\ Head(funcs[l]) \notin Elements(to_do_list[l])
         /\ Head(funcs[l]) \notin Elements(Rest(l)')
         /\ \A k \in Loops \ {l} : Rest(k)' = Rest(k)
<1>1. /\ pc[l] = "Calling" /\ funcs[l] # <<>> /\ step[l] = "idle"
      /\ step'[l] = "done" /\ UNCHANGED <<pc, funcs>>
      /\ \A k \in Loops \ {l} : step'[k] = step[k]
  BY RunFuncCases DEF Inv, TypeOK
<1>2. /\ Elements(funcs[l]) = {Head(funcs[l])} \cup Elements(Tail(funcs[l]))
      /\ Head(funcs[l]) \notin Elements(Tail(funcs[l]))
      /\ Head(funcs[l]) \in Elements(funcs[l])
  BY <1>1, QueueTypes, ElementsHeadTail DEF Inv, LifeInv, OnceInv
<1>3. Rest(l) = funcs[l] /\ Rest(l)' = Tail(funcs[l])
  BY <1>1 DEF Rest
<1>4. \A k \in Loops \ {l} : Rest(k)' = Rest(k)
  BY <1>1 DEF Rest
<1>5. Head(funcs[l]) \notin Elements(to_do_list[l])
  BY <1>2 DEF Inv, LifeInv, OnceInv
<1>. QED  BY <1>2, <1>3, <1>4, <1>5 DEF NotBegun

(* Every other step only drops functions that have run.                    *)
LEMMA OtherQueues ==
  ASSUME Inv, [ServerStep]_serverVars,
         \A l \in Loops : ~ReadCallback(l) /\ ~WriteCallback(l) /\ ~RunFunc(l)
  PROVE  /\ OnceInv'
         /\ \A k \in Loops : Bound(k)' \subseteq Bound(k) /\ NotBegun(k)' = NotBegun(k)
<1> DEFINE Kept == /\ UNCHANGED <<to_do_list, funcs, spent, pc>>
                   /\ \A k \in Loops : pc[k] = "Calling" => step'[k] = step[k]
<1> USE DEF Inv, LifeInv, ThreadInv, TypeOK
<1>1. ASSUME NEW l \in Loops, EpollWait(l)
      PROVE  OnceInv' /\ \A k \in Loops : Bound(k)' = Bound(k) /\ NotBegun(k)' = NotBegun(k)
  <2>1. UNCHANGED <<to_do_list, funcs, spent, step>>
    BY <1>1 DEF EpollWait, Epoll
  <2>2. OnceInv'  BY <2>1 DEF OnceInv
  <2>3. ASSUME NEW k \in Loops  PROVE Bound(k)' = Bound(k) /\ Rest(k)' = Rest(k)
    BY <1>1, <2>1 DEF EpollWait, Epoll, At, Bound, Rest, LoopInv, LoopTypeOK
  <2>. QED  BY <2>1, <2>2, <2>3 DEF NotBegun
<1>2. CASE \E c \in Conns : Client(c)
  <2>1. Kept  BY <1>2 DEF Client, loopVars
  <2>. QED  BY <2>1, SameQueues
<1>3. CASE \E l \in Loops, c \in Conns : HandleEventIgnored(l, c) \/ HandleEvent(l, c)
  <2>1. Kept  BY <1>3 DEF HandleEventIgnored, HandleEvent, At, loopVars
  <2>. QED  BY <2>1, SameQueues
<1>4. CASE \E l \in Loops : EndCallback(l)
  <2>1. Kept  BY <1>4 DEF EndCallback, At, loopVars
  <2>. QED  BY <2>1, SameQueues
<1>5. CASE MainStep
  <2>1. Kept
    BY <1>5, ServerAssumption
       DEF MainStep, AcceptFails, Accept, Establish, EnableRead, At, loopVars
  <2>. QED  BY <2>1, SameQueues
<1>6. CASE UNCHANGED serverVars
  <2>1. Kept  BY <1>6 DEF serverVars, loopVars
  <2>. QED  BY <2>1, SameQueues
<1>. QED
  BY <1>1, <1>2, <1>3, <1>4, <1>5, <1>6, LoopStepQueues, EndFuncQueues
     DEF ServerStep, ThreadStep

-----------------------------------------------------------------------------
(* OnceInv and QueueInv.                                                   *)

(* Functions are told apart by what they do and for whom.                  *)
LEMMA BindInjective ==
  /\ \A c, d \in Conns : Bind("HandleCloseInLoop", c) # Bind("ConnectionDestructor", d)
  /\ \A c, d \in Conns, fn \in {"HandleCloseInLoop", "ConnectionDestructor"} :
       Bind(fn, c) = Bind(fn, d) => c = d
BY DEF Bind

(* What a close queues was in no queue before.                             *)
LEMMA CloseIsNew ==
  ASSUME Inv, NEW c \in Conns, NEW l \in Loops
  PROVE  /\ state[c] = "Connected" =>
              /\ Bind("ConnectionDestructor", c) \notin Bound(l)
              /\ Bind("HandleCloseInLoop", c) \notin Bound(l)
         /\ Mapped(c) => Bind("ConnectionDestructor", c) \notin Bound(l)
<1>1. Bind("ConnectionDestructor", c).conn = c /\ Bind("HandleCloseInLoop", c).conn = c
  BY DEF Bind
<1>. QED  BY <1>1 DEF Inv, LifeInv, StateInv, QueueInv

(* Taking one connection out of the map leaves the others in it.           *)
LEMMA EraseOne ==
  ASSUME Inv, NEW c \in Conns, client_fd[c] \in Fds, Mapped(c), client_fd' = client_fd,
         connectionsMap' = [connectionsMap EXCEPT ![client_fd[c]] = NoConn]
  PROVE  /\ ~Mapped(c)'
         /\ \A d \in Conns : client_fd[d] \in Fds =>
              (Mapped(d)' <=> Mapped(d) /\ d # c)
<1>1. connectionsMap \in [Fds -> Conns \cup {NoConn}]
  BY DEF Inv, TypeOK
<1>2. ASSUME NEW d \in Conns, client_fd[d] \in Fds
      PROVE  Mapped(d)' <=> Mapped(d) /\ d # c
  <2>1. CASE client_fd[d] = client_fd[c]
    BY <1>1, <1>2, <2>1, ServerAssumption DEF Mapped
  <2>2. CASE client_fd[d] # client_fd[c]
    BY <1>1, <1>2, <2>2 DEF Mapped
  <2>. QED  BY <2>1, <2>2
<1>. QED  BY <1>2

(* Whose functions are queued has a descriptor and a loop.                 *)
LEMMA QueuedConnection ==
  ASSUME Inv, NEW k \in Loops, NEW d \in Conns,
         \/ Bind("HandleCloseInLoop", d) \in Bound(k)
         \/ Bind("ConnectionDestructor", d) \in Bound(k)
  PROVE  Constructed(d) /\ state[d] = "Disconected" /\ client_fd[d] \in Fds
<1>1. Bind("ConnectionDestructor", d).conn = d /\ Bind("HandleCloseInLoop", d).conn = d
  BY DEF Bind
<1>2. Constructed(d) /\ state[d] = "Disconected"  BY <1>1, BoundConstructed
<1>. QED  BY <1>2, ConstructedHasLoop

LEMMA NotBegunBound == ASSUME NEW k \in Loops, LoopInv PROVE NotBegun(k) \subseteq Bound(k)
<1>1. Elements(Rest(k)) \subseteq Elements(funcs[k])
  <2>1. CASE funcs[k] = <<>> /\ Rest(k) # funcs[k]
    <3>1. pc[k] = "Calling" /\ Rest(k) = Tail(funcs[k])  BY <2>1 DEF Rest
    <3>2. Elements(Tail(<<>>)) = {}  BY DEF Elements
    <3>. QED  BY <2>1, <3>1, <3>2
  <2>2. CASE funcs[k] # <<>> /\ Rest(k) # funcs[k]
    <3>1. Rest(k) = Tail(funcs[k])  BY <2>2 DEF Rest
    <3>2. funcs[k] \in Seq(Tasks)  BY DEF LoopInv, LoopTypeOK
    <3>. QED  BY <2>2, <3>1, <3>2, ElementsHeadTail
  <2>. QED  BY <2>1, <2>2
<1>. QED  BY <1>1 DEF NotBegun, Bound

(* Either way of queueing the destructor: the map entry goes as it does.   *)
LEMMA DestructorQueued ==
  ASSUME Inv, NEW c \in Conns, NEW m \in Loops, m = event_loop[c],
         client_fd[c] \in Fds, Mapped(c), UNCHANGED <<client_fd, event_loop>>,
         connectionsMap' = [connectionsMap EXCEPT ![client_fd[c]] = NoConn],
         Bound(m)' \subseteq Bound(m) \cup {Bind("ConnectionDestructor", c)},
         \A k \in Loops \ {m} : Bound(k)' \subseteq Bound(k),
         \A k \in Loops : /\ NotBegun(k)' \subseteq NotBegun(k) \cup {Bind("ConnectionDestructor", c)}
                          /\ Bind("HandleCloseInLoop", c) \notin NotBegun(k)'
  PROVE  QueueInv'
<1> USE DEF Inv, LifeInv
<1> DEFINE f == Bind("ConnectionDestructor", c)
<1>1. ~Mapped(c)' /\ \A d \in Conns : client_fd[d] \in Fds => (Mapped(d)' <=> Mapped(d) /\ d # c)
  BY EraseOne
<1>2. ASSUME NEW k \in Loops, NEW d \in Conns
      PROVE  /\ Bind("HandleCloseInLoop", d) \in Bound(k)' => k = main_reactor
             /\ Bind("HandleCloseInLoop", d) \in NotBegun(k)' => Mapped(d)'
             /\ Bind("ConnectionDestructor", d) \in Bound(k)' => k = event_loop[d] /\ ~Mapped(d)'
  <2>1. Bind("HandleCloseInLoop", d) # f  BY BindInjective
  <2>2. Bind("HandleCloseInLoop", d) \in Bound(k)' => k = main_reactor
    BY <2>1 DEF QueueInv
  <2>3. ASSUME Bind("HandleCloseInLoop", d) \in NotBegun(k)'  PROVE Mapped(d)'
    <3>1. Bind("HandleCloseInLoop", d) \in NotBegun(k)  BY <2>1, <2>3
    <3>2. Bind("HandleCloseInLoop", d) \in Bound(k)  BY <3>1, NotBegunBound
    <3>3. Mapped(d)  BY <3>1 DEF QueueInv
    <3>4. d # c  BY <2>3
    <3>. QED  BY <3>2, <3>3, <3>4, <1>1, QueuedConnection
  <2>4. ASSUME Bind("ConnectionDestructor", d) \in Bound(k)'
        PROVE  k = event_loop[d] /\ ~Mapped(d)'
    <3>1. CASE Bind("ConnectionDestructor", d) \in Bound(k)
      BY <3>1, <1>1, QueuedConnection DEF QueueInv
    <3>2. CASE Bind("ConnectionDestructor", d) \notin Bound(k)
      <4>1. Bind("ConnectionDestructor", d) = f /\ k = m  BY <3>2, <2>4
      <4>2. d = c  BY <4>1, BindInjective
      <4>. QED  BY <4>1, <4>2, <1>1
    <3>. QED  BY <3>1, <3>2
  <2>. QED  BY <2>2, <2>3, <2>4
<1>. QED  BY <1>2 DEF QueueInv

(* Queueing HandleCloseInLoop: the map entry is there and stays.           *)
LEMMA CloseQueued ==
  ASSUME Inv, NEW c \in Conns, Mapped(c), UNCHANGED <<client_fd, event_loop, connectionsMap>>,
         \A k \in Loops : /\ Bound(k)' \subseteq Bound(k) \cup {Bind("HandleCloseInLoop", c)}
                          /\ NotBegun(k)' \subseteq NotBegun(k) \cup {Bind("HandleCloseInLoop", c)}
                          /\ k # main_reactor => Bound(k)' \subseteq Bound(k)
  PROVE  QueueInv'
<1> USE DEF Inv, LifeInv
<1> DEFINE f == Bind("HandleCloseInLoop", c)
<1>1. \A d \in Conns : Mapped(d)' <=> Mapped(d)  BY DEF Mapped
<1>2. ASSUME NEW k \in Loops, NEW d \in Conns
      PROVE  /\ Bind("HandleCloseInLoop", d) \in Bound(k)' => k = main_reactor
             /\ Bind("HandleCloseInLoop", d) \in NotBegun(k)' => Mapped(d)'
             /\ Bind("ConnectionDestructor", d) \in Bound(k)' => k = event_loop[d] /\ ~Mapped(d)'
  <2>1. Bind("ConnectionDestructor", d) # f  BY BindInjective
  <2>2. Bind("HandleCloseInLoop", d) \in Bound(k)' => k = main_reactor
    BY DEF QueueInv
  <2>3. Bind("HandleCloseInLoop", d) \in NotBegun(k)' => Mapped(d)'
    <3>1. Bind("HandleCloseInLoop", d) = f => d = c  BY BindInjective
    <3>. QED  BY <3>1, <1>1 DEF QueueInv
  <2>4. Bind("ConnectionDestructor", d) \in Bound(k)' => k = event_loop[d] /\ ~Mapped(d)'
    BY <2>1, <1>1 DEF QueueInv
  <2>. QED  BY <2>2, <2>3, <2>4
<1>. QED  BY <1>2 DEF QueueInv

(* What a callback does to the queues, with what it does to the map.       *)
LEMMA CallbackQueues ==
  ASSUME Inv, NEW l \in Loops, ReadCallback(l) \/ WriteCallback(l)
  PROVE  /\ OnceInv'
         /\ \E c \in Conns :
              \/ /\ UNCHANGED <<state, connectionsMap>>
                 /\ \A k \in Loops : Bound(k)' = Bound(k) /\ NotBegun(k)' = NotBegun(k)
              \/ \E m \in Loops, fn \in {"HandleCloseInLoop", "ConnectionDestructor"} :
                   /\ c = handling[l] /\ client_fd[c] \in Fds
                   /\ state[c] = "Connected" /\ Mapped(c)
                   /\ state' = [state EXCEPT ![c] = "Disconected"]
                   /\ \A k \in Loops \ {m} : Bound(k)' = Bound(k) /\ NotBegun(k)' = NotBegun(k)
                   /\ Bound(m)' = Bound(m) \cup {Bind(fn, c)}
                   /\ NotBegun(m)' = NotBegun(m) \cup {Bind(fn, c)}
                   /\ \/ /\ fn = "ConnectionDestructor" /\ m = event_loop[c]
                         /\ connectionsMap' = [connectionsMap EXCEPT ![client_fd[c]] = NoConn]
                      \/ /\ fn = "HandleCloseInLoop" /\ m = main_reactor
                         /\ connectionsMap' = connectionsMap
<1>1. PICK c \in Conns :
        /\ c = handling[l] /\ client_fd[c] \in Fds /\ event_loop[c] \in Loops
        /\ pc[l] = "HandleEvent"
        /\ \/ UNCHANGED <<loopVars, state, connectionsMap>>
           \/ /\ state[c] = "Connected" /\ Mapped(c)
              /\ state' = [state EXCEPT ![c] = "Disconected"]
              /\ \/ /\ QueueOneFunc(l, event_loop[c], Bind("ConnectionDestructor", c))
                    /\ connectionsMap' = [connectionsMap EXCEPT ![client_fd[c]] = NoConn]
                 \/ /\ QueueOneFunc(l, main_reactor, Bind("HandleCloseInLoop", c))
                    /\ connectionsMap' = connectionsMap
  BY CallbackCases
<1>2. \A k \in Loops \ {l} : step'[k] = step[k]
  BY DEF ReadCallback, WriteCallback, Inv, TypeOK
<1>3. CASE UNCHANGED <<loopVars, state, connectionsMap>>
  <2>1. OnceInv' /\ \A k \in Loops : Bound(k)' = Bound(k) /\ NotBegun(k)' = NotBegun(k)
    BY <1>1, <1>2, <1>3, SameQueues DEF loopVars
  <2>. QED  BY <2>1, <1>3
<1>4. ASSUME NEW m \in Loops, NEW fn \in {"HandleCloseInLoop", "ConnectionDestructor"},
             QueueOneFunc(l, m, Bind(fn, c)), state[c] = "Connected"
      PROVE  /\ OnceInv'
             /\ \A k \in Loops \ {m} : Bound(k)' = Bound(k) /\ NotBegun(k)' = NotBegun(k)
             /\ Bound(m)' = Bound(m) \cup {Bind(fn, c)}
             /\ NotBegun(m)' = NotBegun(m) \cup {Bind(fn, c)}
  <2>1. Bind(fn, c) \in Tasks /\ Bind(fn, c) \notin Bound(m)
    BY <1>4, CloseIsNew, BindTyped
  <2>. QED  BY <1>1, <1>2, <1>4, <2>1, HandOverQueues
<1>5. CASE /\ state[c] = "Connected" /\ Mapped(c)
           /\ state' = [state EXCEPT ![c] = "Disconected"]
           /\ QueueOneFunc(l, event_loop[c], Bind("ConnectionDestructor", c))
           /\ connectionsMap' = [connectionsMap EXCEPT ![client_fd[c]] = NoConn]
  <2>1. PICK m \in Loops : m = event_loop[c]  BY <1>1
  <2>2. QueueOneFunc(l, m, Bind("ConnectionDestructor", c))  BY <2>1, <1>5
  <2>. QED  BY <1>1, <1>5, <2>1, <2>2, <1>4
<1>6. CASE /\ state[c] = "Connected" /\ Mapped(c)
           /\ state' = [state EXCEPT ![c] = "Disconected"]
           /\ QueueOneFunc(l, main_reactor, Bind("HandleCloseInLoop", c))
           /\ connectionsMap' = connectionsMap
  BY <1>1, <1>6, <1>4, ServerAssumption
<1>. QED  BY <1>1, <1>3, <1>5, <1>6

(* What a function does to the queues: it has begun, and may queue one.    *)
LEMMA RunFuncQueues ==
  ASSUME Inv, NEW l \in Loops, RunFunc(l)
  PROVE  /\ OnceInv'
         /\ \E c \in Conns, m \in Loops :
              /\ client_fd[c] \in Fds /\ m = event_loop[c] /\ state[c] = "Disconected"
              /\ \A k \in Loops \ {m} : Bound(k)' = Bound(k)
              /\ \/ /\ Mapped(c) /\ Head(funcs[l]) = Bind("HandleCloseInLoop", c)
                    /\ connectionsMap' = [connectionsMap EXCEPT ![client_fd[c]] = NoConn]
                    /\ UNCHANGED <<interest, edges>>
                    /\ Bound(m)' = Bound(m) \cup {Bind("ConnectionDestructor", c)}
                    /\ Bind("ConnectionDestructor", c) \in NotBegun(m)'
                    /\ \A k \in Loops :
                         /\ NotBegun(k)' \subseteq NotBegun(k) \cup {Bind("ConnectionDestructor", c)}
                         /\ NotBegun(k) \subseteq NotBegun(k)' \cup {Bind("HandleCloseInLoop", c)}
                         /\ Bind("HandleCloseInLoop", c) \notin NotBegun(k)'
                 \/ /\ l = m /\ pc[m] = "Calling"
                    /\ interest' = [interest EXCEPT ![c] = "none"] /\ edges' = edges \ {c}
                    /\ connectionsMap' = connectionsMap
                    /\ Bound(m)' = Bound(m)
                    /\ \A k \in Loops :
                         /\ NotBegun(k)' \subseteq NotBegun(k)
                         /\ NotBegun(k) \subseteq NotBegun(k)' \cup {Bind("ConnectionDestructor", c)}
<1>1. PICK c \in Conns :
         /\ Constructed(c) /\ client_fd[c] \in Fds /\ event_loop[c] \in Loops
         /\ state[c] = "Disconected" /\ pc[l] = "Calling"
         /\ UNCHANGED <<pc, funcs, spent>>
         /\ \/ /\ Head(funcs[l]) = Bind("HandleCloseInLoop", c)
               /\ Mapped(c) /\ l = main_reactor
               /\ QueueOneFunc(l, event_loop[c], Bind("ConnectionDestructor", c))
               /\ connectionsMap' = [connectionsMap EXCEPT ![client_fd[c]] = NoConn]
               /\ UNCHANGED <<interest, edges>>
            \/ /\ Head(funcs[l]) = Bind("ConnectionDestructor", c)
               /\ ~Mapped(c) /\ l = event_loop[c]
               /\ interest' = [interest EXCEPT ![c] = "none"] /\ edges' = edges \ {c}
               /\ UNCHANGED <<loopVars, connectionsMap>>
  BY RunFuncCases
<1>2. PICK m \in Loops : m = event_loop[c]  BY <1>1
<1>3. /\ NotBegun(l) = Elements(to_do_list[l]) \cup {Head(funcs[l])} \cup Elements(Rest(l)')
      /\ Head(funcs[l]) \notin Elements(to_do_list[l])
      /\ Head(funcs[l]) \notin Elements(Rest(l)')
      /\ \A k \in Loops \ {l} : Rest(k)' = Rest(k)
  BY RunFuncRest
<1>4. CASE /\ Head(funcs[l]) = Bind("HandleCloseInLoop", c)
           /\ Mapped(c) /\ l = main_reactor
           /\ QueueOneFunc(l, m, Bind("ConnectionDestructor", c))
           /\ connectionsMap' = [connectionsMap EXCEPT ![client_fd[c]] = NoConn]
           /\ UNCHANGED <<interest, edges>>
  <2> DEFINE f == Bind("ConnectionDestructor", c)  g == Bind("HandleCloseInLoop", c)
  <2>1. f \in Tasks /\ f \notin Bound(m)  BY <1>4, CloseIsNew, BindTyped
  <2>2. /\ OnceInv'
        /\ \A k \in Loops \ {m} : /\ Bound(k)' = Bound(k)
                                  /\ Elements(to_do_list'[k]) = Elements(to_do_list[k])
        /\ Bound(m)' = Bound(m) \cup {f}
        /\ Elements(to_do_list'[m]) = Elements(to_do_list[m]) \cup {f}
    BY <1>4, <2>1, QueueOneSets
  <2>3. f # g  BY BindInjective
  <2>4. ASSUME NEW k \in Loops
        PROVE  /\ NotBegun(k)' \subseteq NotBegun(k) \cup {f}
               /\ NotBegun(k) \subseteq NotBegun(k)' \cup {g}
               /\ g \notin NotBegun(k)'
    <3>1. NotBegun(k)' = Elements(to_do_list'[k]) \cup Elements(Rest(k)')
      BY DEF NotBegun
    <3>2. NotBegun(k) = Elements(to_do_list[k]) \cup Elements(Rest(k))
      BY DEF NotBegun
    <3>3. CASE k = l
      BY <3>1, <3>3, <1>3, <1>4, <2>2, <2>3
    <3>4. CASE k # l
      <4>1. NotBegun(k)' = Elements(to_do_list'[k]) \cup Elements(Rest(k))
        BY <3>1, <3>4, <1>3
      <4>2. g \notin NotBegun(k)
        BY <3>4, <1>4, NotBegunBound DEF Inv, LifeInv, QueueInv
      <4>. QED  BY <4>1, <4>2, <3>2, <2>2, <2>3
    <3>. QED  BY <3>3, <3>4
  <2>5. f \in NotBegun(m)'  BY <2>2 DEF NotBegun
  <2>. QED  BY <1>1, <1>2, <1>4, <2>2, <2>4, <2>5
<1>5. CASE /\ Head(funcs[l]) = Bind("ConnectionDestructor", c)
           /\ ~Mapped(c) /\ l = event_loop[c]
           /\ interest' = [interest EXCEPT ![c] = "none"] /\ edges' = edges \ {c}
           /\ UNCHANGED <<loopVars, connectionsMap>>
  <2>1. OnceInv' /\ \A k \in Loops : Bound(k)' = Bound(k)
    BY <1>5 DEF loopVars, Inv, LifeInv, OnceInv, Bound
  <2>2. ASSUME NEW k \in Loops
        PROVE  /\ NotBegun(k)' \subseteq NotBegun(k)
               /\ NotBegun(k) \subseteq NotBegun(k)' \cup {Bind("ConnectionDestructor", c)}
    <3>1. NotBegun(k)' = Elements(to_do_list[k]) \cup Elements(Rest(k)')
      BY <1>5 DEF NotBegun, loopVars
    <3>2. CASE k = l  BY <3>1, <3>2, <1>3, <1>5
    <3>3. CASE k # l  BY <3>1, <3>3, <1>3 DEF NotBegun
    <3>. QED  BY <3>2, <3>3
  <2>. QED  BY <1>1, <1>2, <1>5, <2>1, <2>2
<1>. QED  BY <1>1, <1>2, <1>4, <1>5

(* While no connection is closed, Mapped changes for new connections only. *)
LEMMA OtherQueueInv ==
  ASSUME Inv, [ServerStep]_serverVars,
         \A l \in Loops : ~ReadCallback(l) /\ ~WriteCallback(l) /\ ~RunFunc(l)
  PROVE  QueueInv'
<1>1. \A k \in Loops : Bound(k)' \subseteq Bound(k) /\ NotBegun(k)' = NotBegun(k)
  BY OtherQueues
<1>2. ASSUME NEW k \in Loops, NEW d \in Conns,
             \/ Bind("HandleCloseInLoop", d) \in Bound(k)
             \/ Bind("ConnectionDestructor", d) \in Bound(k)
      PROVE  event_loop'[d] = event_loop[d] /\ (Mapped(d)' <=> Mapped(d))
  <2>1. Constructed(d) /\ state[d] = "Disconected" /\ client_fd[d] \in Fds
    BY <1>2, QueuedConnection
  <2>2. CASE Accept
    <3>1. PICK c \in Conns :
            /\ ~Constructed(c)
            /\ \A e \in Conns \ {c} : /\ client_fd'[e] = client_fd[e]
                                      /\ event_loop'[e] = event_loop[e]
      BY <2>2, AcceptedIsNew
    <3>2. connectionsMap' = connectionsMap  BY <2>2 DEF Accept
    <3>. QED  BY <2>1, <3>1, <3>2 DEF Mapped
  <2>3. CASE Establish
    <3>1. PICK c \in Conns :
            /\ client_fd[c] \in Fds /\ state[c] = "uninitialized"
            /\ connectionsMap' = [connectionsMap EXCEPT ![client_fd[c]] = c]
            /\ UNCHANGED <<client_fd, event_loop>>
            /\ \A e \in Conns : connectionsMap[client_fd[c]] # e
      BY <2>3, EstablishedIsNew
    <3>2. d # c  BY <2>1, <3>1
    <3>. QED  BY <2>1, <3>1, <3>2 DEF Mapped, Inv, TypeOK
  <2>4. CASE UNCHANGED <<state, connectionsMap, client_fd, event_loop>>
    BY <2>4 DEF Mapped
  <2>. QED  BY <2>2, <2>3, <2>4, WhoChangesState
<1>3. ASSUME NEW k \in Loops, NEW d \in Conns
      PROVE  /\ Bind("HandleCloseInLoop", d) \in Bound(k)' => k = main_reactor
             /\ Bind("HandleCloseInLoop", d) \in NotBegun(k)' => Mapped(d)'
             /\ Bind("ConnectionDestructor", d) \in Bound(k)' => k = event_loop'[d] /\ ~Mapped(d)'
  BY <1>1, <1>2, NotBegunBound DEF Inv, LifeInv, QueueInv
<1>. QED  BY <1>3 DEF QueueInv

LEMMA NextQueue ==
  ASSUME Inv, [ServerStep]_serverVars
  PROVE  OnceInv' /\ QueueInv'
<1>1. ASSUME NEW l \in Loops, ReadCallback(l) \/ WriteCallback(l)
      PROVE  OnceInv' /\ QueueInv'
  <2>1. UNCHANGED <<client_fd, event_loop>>
    BY <1>1, CallbackCases
  <2>2. OnceInv'  BY <1>1, CallbackQueues
  <2>3. PICK c \in Conns :
          \/ /\ UNCHANGED connectionsMap
             /\ \A k \in Loops : Bound(k)' = Bound(k) /\ NotBegun(k)' = NotBegun(k)
          \/ \E m \in Loops, fn \in {"HandleCloseInLoop", "ConnectionDestructor"} :
               /\ client_fd[c] \in Fds /\ state[c] = "Connected" /\ Mapped(c)
               /\ \A k \in Loops \ {m} : Bound(k)' = Bound(k) /\ NotBegun(k)' = NotBegun(k)
               /\ Bound(m)' = Bound(m) \cup {Bind(fn, c)}
               /\ NotBegun(m)' = NotBegun(m) \cup {Bind(fn, c)}
               /\ \/ /\ fn = "ConnectionDestructor" /\ m = event_loop[c]
                     /\ connectionsMap' = [connectionsMap EXCEPT ![client_fd[c]] = NoConn]
                  \/ /\ fn = "HandleCloseInLoop" /\ m = main_reactor
                     /\ connectionsMap' = connectionsMap
    BY <1>1, CallbackQueues
  <2>4. CASE /\ UNCHANGED connectionsMap
             /\ \A k \in Loops : Bound(k)' = Bound(k) /\ NotBegun(k)' = NotBegun(k)
    <3>1. \A d \in Conns : Mapped(d)' <=> Mapped(d)  BY <2>1, <2>4 DEF Mapped
    <3>. QED  BY <2>1, <2>2, <2>4, <3>1 DEF QueueInv, Inv, LifeInv
  <2>5. ASSUME NEW m \in Loops, client_fd[c] \in Fds, state[c] = "Connected", Mapped(c),
               \A k \in Loops \ {m} : Bound(k)' = Bound(k) /\ NotBegun(k)' = NotBegun(k),
               Bound(m)' = Bound(m) \cup {Bind("ConnectionDestructor", c)},
               NotBegun(m)' = NotBegun(m) \cup {Bind("ConnectionDestructor", c)},
               m = event_loop[c],
               connectionsMap' = [connectionsMap EXCEPT ![client_fd[c]] = NoConn]
        PROVE  QueueInv'
    <3>1. \A k \in Loops : Bind("HandleCloseInLoop", c) \notin NotBegun(k)
      BY <2>5, CloseIsNew, NotBegunBound DEF Inv
    <3>2. Bind("HandleCloseInLoop", c) # Bind("ConnectionDestructor", c)
      BY BindInjective
    <3>3. \A k \in Loops :
            /\ NotBegun(k)' \subseteq NotBegun(k) \cup {Bind("ConnectionDestructor", c)}
            /\ Bind("HandleCloseInLoop", c) \notin NotBegun(k)'
      BY <2>5, <3>1, <3>2
    <3>. QED  BY <2>1, <2>5, <3>3, DestructorQueued
  <2>6. ASSUME NEW m \in Loops, Mapped(c),
               \A k \in Loops \ {m} : Bound(k)' = Bound(k) /\ NotBegun(k)' = NotBegun(k),
               Bound(m)' = Bound(m) \cup {Bind("HandleCloseInLoop", c)},
               NotBegun(m)' = NotBegun(m) \cup {Bind("HandleCloseInLoop", c)},
               m = main_reactor, connectionsMap' = connectionsMap
        PROVE  QueueInv'
    BY <2>1, <2>6, CloseQueued
  <2>. QED  BY <2>2, <2>3, <2>4, <2>5, <2>6
<1>2. ASSUME NEW l \in Loops, RunFunc(l)  PROVE OnceInv' /\ QueueInv'
  <2>1. UNCHANGED <<client_fd, event_loop>>  BY <1>2, RunFuncCases
  <2>2. OnceInv'  BY <1>2, RunFuncQueues
  <2>3. PICK c \in Conns, m \in Loops :
          /\ client_fd[c] \in Fds /\ m = event_loop[c]
          /\ \A k \in Loops \ {m} : Bound(k)' = Bound(k)
          /\ \/ /\ Mapped(c)
                /\ connectionsMap' = [connectionsMap EXCEPT ![client_fd[c]] = NoConn]
                /\ Bound(m)' = Bound(m) \cup {Bind("ConnectionDestructor", c)}
                /\ \A k \in Loops :
                     /\ NotBegun(k)' \subseteq NotBegun(k) \cup {Bind("ConnectionDestructor", c)}
                     /\ Bind("HandleCloseInLoop", c) \notin NotBegun(k)'
             \/ /\ connectionsMap' = connectionsMap /\ Bound(m)' = Bound(m)
                /\ \A k \in Loops : NotBegun(k)' \subseteq NotBegun(k)
    BY <1>2, RunFuncQueues
  <2>4. CASE /\ Mapped(c)
             /\ connectionsMap' = [connectionsMap EXCEPT ![client_fd[c]] = NoConn]
             /\ Bound(m)' = Bound(m) \cup {Bind("ConnectionDestructor", c)}
             /\ \A k \in Loops :
                  /\ NotBegun(k)' \subseteq NotBegun(k) \cup {Bind("ConnectionDestructor", c)}
                  /\ Bind("HandleCloseInLoop", c) \notin NotBegun(k)'
    BY <2>1, <2>2, <2>3, <2>4, DestructorQueued
  <2>5. CASE /\ connectionsMap' = connectionsMap /\ Bound(m)' = Bound(m)
             /\ \A k \in Loops : NotBegun(k)' \subseteq NotBegun(k)
    <3>1. \A d \in Conns : Mapped(d)' <=> Mapped(d)  BY <2>1, <2>5 DEF Mapped
    <3>. QED  BY <2>1, <2>2, <2>3, <2>5, <3>1 DEF QueueInv, Inv, LifeInv
  <2>. QED  BY <2>3, <2>4, <2>5
<1>. QED  BY <1>1, <1>2, OtherQueues, OtherQueueInv

-----------------------------------------------------------------------------
(* Who holds a connection.                                                 *)

LEMMA MappedHeld ==
  ASSUME Inv, NEW c \in Conns, Constructed(c), Mapped(c)
  PROVE  Held(c)
BY ConstructedHasLoop DEF Held, Mapped

(* A connection is held as long as anything of the program can reach it.   *)
LEMMA ReachableHeld ==
  ASSUME Inv, NEW c \in Conns, Constructed(c)
  PROVE  /\ state[c] # "Disconected" => Held(c)
         /\ ~Deregistered(c) => Held(c)
         /\ \A l \in Loops : handling[l] = c => Held(c)
<1> USE DEF Inv, LifeInv
<1>1. \A l \in Loops : handling[l] = c => Held(c)  BY DEF Held
<1>2. CASE state[c] = "uninitialized"
  BY <1>1, <1>2, ServerAssumption DEF StateInv
<1>3. CASE Mapped(c)  BY <1>1, <1>3, MappedHeld
<1>4. CASE state[c] = "Disconected" /\ ~Mapped(c)
  <2>1. ASSUME Bind("ConnectionDestructor", c) \in NotBegun(event_loop[c])  PROVE Held(c)
    <3>1. PICK m \in Loops : m = event_loop[c]  BY ConstructedHasLoop
    <3>2. Bind("ConnectionDestructor", c) \in Bound(m)
      BY <2>1, <3>1, NotBegunBound
    <3>3. Bind("ConnectionDestructor", c).conn = c  BY DEF Bind
    <3>. QED  BY <3>2, <3>3 DEF Held
  <2>2. Deregistered(c) \/ Bind("ConnectionDestructor", c) \in NotBegun(event_loop[c])
    BY <1>4 DEF StateInv
  <2>. QED  BY <1>1, <1>4, <2>1, <2>2
<1>5. state[c] = "Connected" => Mapped(c)  BY DEF StateInv
<1>. QED  BY <1>2, <1>3, <1>4, <1>5 DEF TypeOK

LEMMA InvNoDangling == Inv => NoDanglingChannel
<1> SUFFICES ASSUME Inv, NEW l \in Loops, NEW c \in ready[l] \ {Acceptor}  PROVE Held(c)
  BY DEF NoDanglingChannel
<1>1. c \in Conns  BY DEF Inv, TypeOK
<1>2. ~Deregistered(c)  BY DEF Deregistered
<1>3. Constructed(c)  BY <1>1, <1>2 DEF Inv, LifeInv, StateInv
<1>. QED  BY <1>1, <1>2, <1>3, ReachableHeld

(* A connection that was let go is never held again.                       *)
LEMMA HeldShrinks ==
  ASSUME Inv, [ServerStep]_serverVars, NEW c \in Conns, Constructed(c), Held(c)'
  PROVE  Held(c)
<1> USE DEF Inv
<1>1. ASSUME NEW fd \in Fds, connectionsMap'[fd] = c  PROVE Held(c)
  <2>1. CASE Accept  BY <1>1, <2>1 DEF Accept, Held
  <2>2. CASE Establish
    <3>1. PICK d \in Conns :
            /\ d = handling[main_reactor] /\ client_fd[d] \in Fds
            /\ connectionsMap' = [connectionsMap EXCEPT ![client_fd[d]] = d]
      BY <2>2, EstablishedIsNew
    <3>2. connectionsMap[fd] = c \/ handling[main_reactor] = c
      BY <1>1, <3>1 DEF TypeOK
    <3>. QED  BY <3>2, ServerAssumption DEF Held
  <2>3. CASE \E l \in Loops : ReadCallback(l) \/ WriteCallback(l) \/ RunFunc(l)
    <3>1. PICK d \in Conns :
            \/ connectionsMap' = connectionsMap
            \/ connectionsMap' = [connectionsMap EXCEPT ![client_fd[d]] = NoConn]
      BY <2>3, CallbackCases, RunFuncCases
    <3>2. connectionsMap[fd] = c
      BY <1>1, <3>1, ServerAssumption DEF TypeOK
    <3>. QED  BY <3>2 DEF Held
  <2>4. CASE UNCHANGED <<state, connectionsMap, client_fd, event_loop>>
    BY <1>1, <2>4 DEF Held
  <2>. QED  BY <2>1, <2>2, <2>3, <2>4, WhoChangesState
<1>2. ASSUME NEW l \in Loops, handling'[l] = c  PROVE Held(c)
  <2>1. CASE handling[l] = c  BY <2>1 DEF Held
  <2>2. CASE handling[l] # c
    <3>1. CASE Accept
      <4>1. PICK d \in Conns : d = Head(backlog) /\ ~Constructed(d)
        BY <3>1, AcceptedIsNew
      <4>. QED  BY <1>2, <2>2, <3>1, <4>1, ServerAssumption DEF Accept, TypeOK
    <3>2. CASE \E k \in Loops, d \in Conns : HandleEvent(k, d)
      <4>1. c \in ready[l]
        BY <1>2, <2>2, <3>2 DEF HandleEvent, TypeOK
      <4>. QED  BY <4>1, InvNoDangling, ServerAssumption DEF NoDanglingChannel
    <3>3. CASE \E k \in Loops : EndCallback(k)
      BY <1>2, <2>2, <3>3, ServerAssumption DEF EndCallback, TypeOK
    <3>4. CASE handling' = handling  BY <1>2, <2>2, <3>4
    <3>. QED
      BY <3>1, <3>2, <3>3, <3>4
         DEF ServerStep, serverVars, Client, EpollWait, ThreadStep, LoopStep,
             HandleEventIgnored,
             ReadCallback, WriteCallback, RunFunc, EndFunc, MainStep, AcceptFails,
             Establish, EnableRead
  <2>. QED  BY <2>1, <2>2
<1>3. ASSUME NEW k \in Loops, NEW f \in Bound(k)', f.conn = c  PROVE Held(c)
  <2>1. CASE f \in Bound(k)  BY <1>3, <2>1 DEF Held
  <2>2. CASE f \notin Bound(k)
    <3>1. CASE \E l \in Loops : ReadCallback(l) \/ WriteCallback(l)
      <4>1. PICK l \in Loops : ReadCallback(l) \/ WriteCallback(l)  BY <3>1
      <4>2. f.conn = handling[l]
        <5>1. PICK d \in Conns, fn \in {"HandleCloseInLoop", "ConnectionDestructor"} :
                d = handling[l] /\ f = Bind(fn, d)
          BY <4>1, <2>2, CallbackQueues
        <5>. QED  BY <5>1 DEF Bind
      <4>. QED  BY <1>3, <4>2 DEF Held
    <3>2. CASE \E l \in Loops : RunFunc(l)
      <4>1. PICK l \in Loops : RunFunc(l)  BY <3>2
      <4>2. PICK d \in Conns : /\ f = Bind("ConnectionDestructor", d)
                               /\ Head(funcs[l]) = Bind("HandleCloseInLoop", d)
        BY <4>1, <2>2, RunFuncQueues
      <4>3. Head(funcs[l]) \in Bound(l) /\ Head(funcs[l]).conn = c
        BY <1>3, <4>1, <4>2, HeadBound DEF RunFunc, Bind
      <4>. QED  BY <4>3 DEF Held
    <3>. QED  BY <2>2, <3>1, <3>2, OtherQueues
  <2>. QED  BY <2>1, <2>2
<1>. QED  BY <1>1, <1>2, <1>3 DEF Held

LEMMA NextFd == ASSUME Inv, [ServerStep]_serverVars PROVE FdInv'
<1> SUFFICES ASSUME NEW c \in Conns, NEW d \in Conns, Held(c)', Held(d)',
                    client_fd'[c] = client_fd'[d], c # d
             PROVE  FALSE
  BY DEF FdInv
<1>1. CASE Accept
  <2>1. PICK a \in Conns :
          /\ \E fd \in FreeFds : client_fd' = [client_fd EXCEPT ![a] = fd]
          /\ \A e \in Conns \ {a} : /\ client_fd'[e] = client_fd[e]
                                    /\ Constructed(e)' <=> Constructed(e)
    BY <1>1, AcceptedIsNew
  <2>2. \A e \in Conns \ {a} : Held(e)' => Held(e)
    BY <2>1, HeldShrinks DEF Held
  <2>3. client_fd'[a] \in FreeFds  BY <2>1 DEF Inv, TypeOK
  <2>4. ASSUME NEW e \in Conns \ {a}, Held(e)'  PROVE client_fd'[e] # client_fd'[a]
    BY <2>1, <2>2, <2>3, <2>4 DEF FreeFds
  <2>5. CASE c = a \/ d = a  BY <2>4, <2>5
  <2>6. CASE c # a /\ d # a
    BY <2>1, <2>2, <2>6 DEF FdInv, Inv, LifeInv
  <2>. QED  BY <2>5, <2>6
<1>2. CASE client_fd' = client_fd
  <2>1. Constructed(c) /\ Constructed(d)  BY <1>2 DEF Held, Constructed
  <2>2. Held(c) /\ Held(d)  BY <2>1, HeldShrinks
  <2>. QED  BY <1>2, <2>2 DEF FdInv, Inv, LifeInv
<1>. QED  BY <1>1, <1>2, WhoChangesBacklog DEF Client, connVars

-----------------------------------------------------------------------------
(* StateInv.                                                               *)

(* Once constructed, a connection keeps its descriptor and its loop; who   *)
(* is not constructed after a step was not before.                         *)
LEMMA ConstructedStays ==
  ASSUME Inv, [ServerStep]_serverVars, NEW c \in Conns
  PROVE  /\ Constructed(c) => /\ Constructed(c)' /\ client_fd'[c] = client_fd[c]
                              /\ event_loop'[c] = event_loop[c]
         /\ ~Constructed(c) /\ Constructed(c)' => Accept /\ c = Head(backlog)
<1>1. CASE Accept
  <2>1. PICK a \in Conns :
          /\ a = Head(backlog) /\ ~Constructed(a)
          /\ \A d \in Conns \ {a} : /\ client_fd'[d] = client_fd[d]
                                    /\ event_loop'[d] = event_loop[d]
                                    /\ Constructed(d)' <=> Constructed(d)
    BY <1>1, AcceptedIsNew
  <2>. QED  BY <1>1, <2>1
<1>2. CASE UNCHANGED <<client_fd, event_loop>>
  BY <1>2 DEF Constructed
<1>. QED
  BY <1>1, <1>2, WhoChangesState, CallbackCases, RunFuncCases, EstablishedIsNew

(* The state of a connection only goes on.                                 *)
LEMMA StateMoves ==
  ASSUME Inv, [ServerStep]_serverVars, NEW c \in Conns, state'[c] # state[c]
  PROVE  \/ /\ Establish /\ c = handling[main_reactor]
            /\ state[c] = "uninitialized" /\ state'[c] = "Connected"
         \/ /\ \E l \in Loops : (ReadCallback(l) \/ WriteCallback(l)) /\ c = handling[l]
            /\ state[c] = "Connected" /\ state'[c] = "Disconected"
<1>1. CASE Accept  BY <1>1 DEF Accept
<1>2. CASE Establish
  <2>1. PICK d \in Conns :
          /\ d = handling[main_reactor] /\ state[d] = "uninitialized"
          /\ state' = [state EXCEPT ![d] = "Connected"]
    BY <1>2, EstablishedIsNew
  <2>. QED  BY <1>2, <2>1 DEF Inv, TypeOK
<1>3. ASSUME NEW l \in Loops, ReadCallback(l) \/ WriteCallback(l)
      PROVE  /\ c = handling[l] /\ state[c] = "Connected" /\ state'[c] = "Disconected"
  <2>1. PICK d \in Conns :
          /\ d = handling[l]
          /\ \/ state' = state
             \/ state[d] = "Connected" /\ state' = [state EXCEPT ![d] = "Disconected"]
    BY <1>3, CallbackCases
  <2>. QED  BY <2>1 DEF Inv, TypeOK
<1>4. ASSUME NEW l \in Loops, RunFunc(l)  PROVE FALSE
  BY <1>4, RunFuncCases
<1>. QED  BY <1>1, <1>2, <1>3, <1>4, WhoChangesState

(* What is out of epoll stays out, before the connection and after it.     *)
LEMMA DeregisteredStays ==
  ASSUME Inv, [ServerStep]_serverVars, NEW c \in Conns, Deregistered(c),
         ~Constructed(c)' \/ state[c] = "Disconected"
  PROVE  Deregistered(c)'
<1> USE DEF Inv, LifeInv, TypeOK, Deregistered
<1>1. ASSUME NEW d \in Conns, Client(d)  PROVE Deregistered(c)'
  BY <1>1 DEF Client, ClientConnect, ClientSend, ClientClose, readyVars
<1>2. ASSUME NEW l \in Loops, EpollWait(l)  PROVE Deregistered(c)'
  <2>1. PICK channels :
          /\ channels \subseteq Edges(l) \cup {Acceptor}
          /\ ready' = [ready EXCEPT ![l] = channels]
    BY <1>2 DEF EpollWait, Reported, Resets, Acceptable
  <2>2. edges' \subseteq edges /\ interest' = interest
    BY <1>2 DEF EpollWait, Reported, Resets, Acceptable, Edges
  <2>. QED  BY <2>1, <2>2, ServerAssumption DEF Edges
<1>3. ASSUME NEW l \in Loops, LoopStep(l)  PROVE Deregistered(c)'
  BY <1>3 DEF LoopStep, epollVars, readyVars
<1>4. CASE AcceptFails
  BY <1>4 DEF AcceptFails, epollVars
<1>5. CASE Accept
  <2>1. PICK a \in Conns :
          /\ a = Head(backlog) /\ state[a] = "uninitialized" /\ Constructed(a)'
    BY <1>5, AcceptedIsNew
  <2>2. c # a  BY <2>1
  <2>3. UpdateChannel(a, "ET")  BY <1>5, <2>1 DEF Accept
  <2>4. ready' = [ready EXCEPT ![main_reactor] = @ \ {Acceptor}]  BY <1>5 DEF Accept
  <2>. QED  BY <2>2, <2>3, <2>4 DEF UpdateChannel
<1>6. CASE Establish
  BY <1>6 DEF Establish, epollVars, readyVars
<1>7. CASE EnableRead
  <2>1. PICK a \in Conns : a = handling[main_reactor] /\ Establishing(a)
    BY <1>7, ServerAssumption DEF EnableRead, ThreadInv, Steps, Establishing
  <2>2. state[a] = "Connected" /\ Constructed(a)
    BY <1>7, <2>1 DEF EnableRead, EstablishInv, StateInv
  <2>3. UpdateChannel(a, "IN") /\ ready' = ready
    BY <1>7, <2>1 DEF EnableRead, readyVars
  <2>4. c # a
    <3>1. Constructed(a)'  BY <2>2, ConstructedStays
    <3>. QED  BY <2>2, <3>1
  <2>. QED  BY <2>3, <2>4 DEF UpdateChannel
<1>8. ASSUME NEW l \in Loops, NEW d \in Conns,
             HandleEventIgnored(l, d) \/ HandleEvent(l, d)
      PROVE  Deregistered(c)'
  <2>1. ready' = [ready EXCEPT ![l] = @ \ {d}] /\ UNCHANGED <<interest, edges>>
    BY <1>8 DEF HandleEventIgnored, HandleEvent, epollVars
  <2>. QED  BY <2>1
<1>9. ASSUME NEW l \in Loops, ReadCallback(l) \/ WriteCallback(l)
      PROVE  Deregistered(c)'
  <2>1. PICK a \in Conns :
          /\ a = handling[l] /\ Constructed(a)
          /\ UNCHANGED <<ready, interest>>
    BY <1>9, CallbackCases
  <2>2. edges' \subseteq edges \cup {d \in {a} : state[d] = "Connected"}
    BY <1>9, <2>1 DEF ReadCallback, WriteCallback, ReadMessage, ReadTooLong, ReadRest,
                      epollVars
  <2>3. c # a \/ state[a] # "Connected"
    <3>1. Constructed(a)'  BY <2>1, ConstructedStays
    <3>. QED  BY <3>1
  <2>. QED  BY <2>1, <2>2, <2>3
<1>10. ASSUME NEW l \in Loops, EndCallback(l)  PROVE Deregistered(c)'
  BY <1>10 DEF EndCallback, epollVars, readyVars
<1>11. ASSUME NEW l \in Loops, RunFunc(l)  PROVE Deregistered(c)'
  <2>1. PICK d \in Conns :
          /\ ready' = ready
          /\ \/ UNCHANGED <<interest, edges>>
             \/ interest' = [interest EXCEPT ![d] = "none"] /\ edges' = edges \ {d}
    BY <1>11, RunFuncCases
  <2>. QED  BY <2>1
<1>12. ASSUME NEW l \in Loops, EndFunc(l)  PROVE Deregistered(c)'
  BY <1>12 DEF EndFunc, epollVars, readyVars
<1>13. CASE UNCHANGED serverVars
  BY <1>13 DEF serverVars, epollVars, readyVars
<1>. QED
  BY <1>1, <1>2, <1>3, <1>4, <1>5, <1>6, <1>7, <1>8, <1>9, <1>10, <1>11, <1>12,
     <1>13 DEF ServerStep, ThreadStep, MainStep

(* Before its constructor nothing knows a connection.                      *)
LEMMA NextNew ==
  ASSUME Inv, [ServerStep]_serverVars, NEW c \in Conns, ~Constructed(c)'
  PROVE  /\ state'[c] = "uninitialized" /\ Deregistered(c)' /\ c \notin ready_events'
         /\ \A l \in Loops : handling'[l] # c
<1> USE DEF Inv, LifeInv
<1>1. ~Constructed(c)  BY ConstructedStays
<1>2. /\ state[c] = "uninitialized" /\ Deregistered(c) /\ c \notin ready_events
      /\ \A l \in Loops : handling[l] # c
  BY <1>1 DEF StateInv
<1>3. state'[c] = "uninitialized"  BY <1>2, StateMoves, ServerAssumption
<1>4. Deregistered(c)'  BY <1>2, DeregisteredStays
<1>5. c \notin ready_events'
  <2>1. ASSUME NEW l \in Loops, EpollWait(l)  PROVE c \notin ready_events'
    BY <2>1, <1>2 DEF EpollWait, Reported, Edges, Deregistered
  <2>2. CASE ready_events' = ready_events  BY <2>2, <1>2
  <2>. QED
    BY <2>1, <2>2
       DEF ServerStep, serverVars, Client, ThreadStep, LoopStep,
           HandleEventIgnored, HandleEvent,
           ReadCallback, WriteCallback, EndCallback, RunFunc, EndFunc, MainStep,
           AcceptFails, Accept, Establish, EnableRead, readyVars
<1>6. ASSUME NEW l \in Loops, handling'[l] = c  PROVE FALSE
  <2>1. CASE Accept
    <3>1. PICK a \in Conns : a = Head(backlog) /\ Constructed(a)'
      BY <2>1, AcceptedIsNew
    <3>2. handling' = [handling EXCEPT ![main_reactor] = a]
      BY <2>1, <3>1 DEF Accept
    <3>. QED  BY <1>2, <1>6, <3>1, <3>2 DEF TypeOK
  <2>2. CASE \E k \in Loops, d \in Conns : HandleEvent(k, d)
    BY <1>2, <1>6, <2>2 DEF HandleEvent, TypeOK, Deregistered
  <2>3. CASE \E k \in Loops : EndCallback(k)
    BY <1>2, <1>6, <2>3, ServerAssumption DEF EndCallback, TypeOK
  <2>4. CASE handling' = handling  BY <1>2, <1>6, <2>4
  <2>. QED
    BY <2>1, <2>2, <2>3, <2>4
       DEF ServerStep, serverVars, Client, EpollWait, ThreadStep, LoopStep,
           HandleEventIgnored,
           ReadCallback, WriteCallback, RunFunc, EndFunc, MainStep, AcceptFails,
           Establish, EnableRead
<1>. QED  BY <1>3, <1>4, <1>5, <1>6

(* What is held or on its way in each state, after a step.                 *)
LEMMA NextUninitialized ==
  ASSUME Inv, [ServerStep]_serverVars, NEW c \in Conns, Constructed(c)',
         state'[c] = "uninitialized"
  PROVE  handling'[main_reactor] = c /\ step'[main_reactor] = "accepted"
<1> USE ServerAssumption DEF Inv, LifeInv, TypeOK
<1>1. CASE ~Constructed(c)
  <2>1. Accept /\ c = Head(backlog)  BY <1>1, ConstructedStays
  <2>. QED  BY <2>1 DEF Accept
<1>2. CASE Constructed(c)
  <2>1. state[c] = "uninitialized"  BY StateMoves
  <2>2. handling[main_reactor] = c /\ step[main_reactor] = "accepted"
    BY <1>2, <2>1 DEF StateInv
  <2>3. ~Establish
    <3>1. ASSUME Establish  PROVE state'[c] = "Connected"
      BY <3>1, <2>2 DEF Establish
    <3>. QED  BY <3>1
  <2>4. pc[main_reactor] = "HandleEvent"
    BY <2>2 DEF ThreadInv
  <2>5. handling'[main_reactor] = handling[main_reactor]
        /\ step'[main_reactor] = step[main_reactor]
    BY <2>2, <2>3, <2>4
       DEF ServerStep, serverVars, Client, EpollWait, ThreadStep, LoopStep,
           HandleEventIgnored,
           HandleEvent, ReadCallback, WriteCallback, EndCallback, RunFunc, EndFunc,
           FinishFunc, MainStep, AcceptFails, Accept, EnableRead, Quiet, At
  <2>. QED  BY <2>2, <2>5
<1>. QED  BY <1>1, <1>2

LEMMA NextConnected ==
  ASSUME Inv, [ServerStep]_serverVars, NEW c \in Conns, state'[c] = "Connected"
  PROVE  Mapped(c)'
<1> USE DEF Inv, LifeInv, TypeOK
<1>1. CASE Establish
  <2>1. PICK a \in Conns :
          /\ a = handling[main_reactor] /\ client_fd[a] \in Fds
          /\ connectionsMap' = [connectionsMap EXCEPT ![client_fd[a]] = a]
          /\ client_fd' = client_fd
          /\ \A d \in Conns : connectionsMap[client_fd[a]] # d
    BY <1>1, EstablishedIsNew
  <2>2. CASE c = a  BY <2>1, <2>2 DEF Mapped
  <2>3. CASE c # a
    <3>1. state[c] = "Connected"  BY <1>1, <2>1, <2>3, StateMoves
    <3>2. Mapped(c)  BY <3>1 DEF StateInv
    <3>3. Constructed(c)  BY <3>1 DEF StateInv
    <3>4. client_fd[c] \in Fds /\ client_fd[c] # client_fd[a]
      BY <2>1, <3>2, <3>3, ConstructedHasLoop DEF Mapped
    <3>. QED  BY <2>1, <3>2, <3>4 DEF Mapped
  <2>. QED  BY <2>2, <2>3
<1>2. CASE ~Establish
  <2>1. state[c] = "Connected"  BY <1>2, StateMoves
  <2>2. Mapped(c) /\ Constructed(c)  BY <2>1 DEF StateInv
  <2>3. client_fd'[c] = client_fd[c] /\ client_fd[c] \in Fds
    BY <2>2, ConstructedStays, ConstructedHasLoop
  <2>4. CASE connectionsMap' = connectionsMap  BY <2>2, <2>3, <2>4 DEF Mapped
  <2>5. ASSUME NEW d \in Conns, d # c, client_fd[d] \in Fds, Mapped(d), client_fd' = client_fd,
               connectionsMap' = [connectionsMap EXCEPT ![client_fd[d]] = NoConn]
        PROVE  Mapped(c)'
    BY <2>2, <2>3, <2>5, EraseOne
  <2>6. ASSUME NEW l \in Loops, ReadCallback(l) \/ WriteCallback(l)  PROVE Mapped(c)'
    <3>1. PICK d \in Conns :
            /\ client_fd[d] \in Fds /\ client_fd' = client_fd
            /\ \/ connectionsMap' = connectionsMap
               \/ /\ state' = [state EXCEPT ![d] = "Disconected"] /\ Mapped(d)
                  /\ connectionsMap' = [connectionsMap EXCEPT ![client_fd[d]] = NoConn]
      BY <2>6, CallbackCases
    <3>. QED  BY <3>1, <2>4, <2>5
  <2>7. ASSUME NEW l \in Loops, RunFunc(l)  PROVE Mapped(c)'
    <3>1. PICK d \in Conns :
            /\ client_fd[d] \in Fds /\ client_fd' = client_fd /\ state[d] = "Disconected"
            /\ \/ connectionsMap' = connectionsMap
               \/ /\ Mapped(d)
                  /\ connectionsMap' = [connectionsMap EXCEPT ![client_fd[d]] = NoConn]
      BY <2>7, RunFuncCases
    <3>. QED  BY <2>1, <3>1, <2>4, <2>5
  <2>8. Accept => connectionsMap' = connectionsMap  BY DEF Accept
  <2>. QED  BY <1>2, <2>4, <2>6, <2>7, <2>8, WhoChangesState
<1>. QED  BY <1>1, <1>2

(* No function is queued for a connection whose close has not begun.       *)
LEMMA NextUnbound ==
  ASSUME Inv, [ServerStep]_serverVars, NEW l \in Loops, NEW f \in Bound(l)',
         NEW c \in Conns, f.conn = c
  PROVE  state'[c] = "Disconected"
<1>1. CASE f \in Bound(l)
  <2>1. state[c] = "Disconected"  BY <1>1, BoundConstructed
  <2>. QED  BY <2>1, StateMoves
<1>2. ASSUME NEW k \in Loops, ReadCallback(k) \/ WriteCallback(k), f \notin Bound(l)
      PROVE  state'[c] = "Disconected"
  <2>1. PICK d \in Conns, fn \in {"HandleCloseInLoop", "ConnectionDestructor"} :
          f = Bind(fn, d) /\ state' = [state EXCEPT ![d] = "Disconected"]
    BY <1>2, CallbackQueues
  <2>2. d = c  BY <2>1 DEF Bind
  <2>. QED  BY <2>1, <2>2 DEF Inv, TypeOK
<1>3. ASSUME NEW k \in Loops, RunFunc(k), f \notin Bound(l)
      PROVE  state'[c] = "Disconected"
  <2>1. PICK d \in Conns : f = Bind("ConnectionDestructor", d) /\ state[d] = "Disconected"
    BY <1>3, RunFuncQueues
  <2>2. d = c  BY <2>1 DEF Bind
  <2>. QED  BY <2>1, <2>2, StateMoves
<1>. QED  BY <1>1, <1>2, <1>3, OtherQueues

(* The close of a connection is never lost on its way.                     *)
LEMMA NextClosing ==
  ASSUME Inv, [ServerStep]_serverVars, NEW c \in Conns, Constructed(c)',
         state'[c] = "Disconected"
  PROVE  \/ Mapped(c)'
         \/ \E m \in Loops : /\ m = event_loop'[c]
                             /\ Bind("ConnectionDestructor", c) \in NotBegun(m)'
         \/ Deregistered(c)'
<1>1. Constructed(c)
  <2>1. ASSUME Accept, c = Head(backlog)  PROVE FALSE
    BY <2>1, AcceptedIsNew DEF Accept
  <2>. QED  BY <2>1, ConstructedStays
<1>2. /\ client_fd'[c] = client_fd[c] /\ event_loop'[c] = event_loop[c]
      /\ client_fd[c] \in Fds /\ event_loop[c] \in Loops
  BY <1>1, ConstructedStays, ConstructedHasLoop
<1> DEFINE f == Bind("ConnectionDestructor", c)
<1>3. CASE state[c] # "Disconected"
  <2>1. PICK l \in Loops : (ReadCallback(l) \/ WriteCallback(l)) /\ c = handling[l]
    BY <1>3, StateMoves
  <2>2. PICK d \in Conns, m \in Loops, fn \in {"HandleCloseInLoop", "ConnectionDestructor"} :
          /\ d = handling[l] /\ Mapped(d)
          /\ NotBegun(m)' = NotBegun(m) \cup {Bind(fn, d)}
          /\ \/ fn = "ConnectionDestructor" /\ m = event_loop[d]
             \/ fn = "HandleCloseInLoop" /\ connectionsMap' = connectionsMap
    BY <1>3, <2>1, CallbackQueues
  <2>. QED  BY <1>2, <2>1, <2>2 DEF Mapped
<1>4. CASE state[c] = "Disconected" /\ Deregistered(c)
  BY <1>4, DeregisteredStays
<1>5. ASSUME state[c] = "Disconected", NEW l \in Loops, RunFunc(l), ~Deregistered(c)
      PROVE  \/ Mapped(c)'
             \/ \E m \in Loops : m = event_loop'[c] /\ f \in NotBegun(m)'
             \/ Deregistered(c)'
  <2>1. PICK d \in Conns, m \in Loops :
          /\ client_fd[d] \in Fds /\ m = event_loop[d]
          /\ \/ /\ Mapped(d)
                /\ connectionsMap' = [connectionsMap EXCEPT ![client_fd[d]] = NoConn]
                /\ Bind("ConnectionDestructor", d) \in NotBegun(m)'
                /\ \A k \in Loops :
                     NotBegun(k) \subseteq NotBegun(k)' \cup {Bind("HandleCloseInLoop", d)}
             \/ /\ l = m /\ pc[m] = "Calling"
                /\ interest' = [interest EXCEPT ![d] = "none"] /\ edges' = edges \ {d}
                /\ connectionsMap' = connectionsMap
                /\ \A k \in Loops :
                     NotBegun(k) \subseteq NotBegun(k)' \cup {Bind("ConnectionDestructor", d)}
    BY <1>5, RunFuncQueues
  <2>2. UNCHANGED <<client_fd, event_loop, ready>>  BY <1>5, RunFuncCases
  <2>3. CASE d = c
    <3>1. CASE Bind("ConnectionDestructor", d) \in NotBegun(m)'
      BY <2>1, <2>3, <3>1, <1>2
    <3>2. CASE /\ l = m /\ pc[m] = "Calling"
               /\ interest' = [interest EXCEPT ![d] = "none"] /\ edges' = edges \ {d}
      <4>1. \A k \in Loops : c \notin ready[k]
        <5>1. ready[m] = {}  BY <3>2 DEF ThreadInv, Inv, LifeInv
        <5>2. \A k \in Loops : c \in ready[k] => k = m
          BY <2>1, <2>3, ServerAssumption DEF ThreadInv, Inv, LifeInv
        <5>. QED  BY <5>1, <5>2
      <4>. QED  BY <2>2, <2>3, <3>2, <4>1 DEF Deregistered, Inv, TypeOK
    <3>. QED  BY <2>1, <3>1, <3>2
  <2>4. CASE d # c /\ Mapped(c)
    <3>1. CASE connectionsMap' = connectionsMap  BY <2>2, <2>4, <3>1 DEF Mapped
    <3>2. CASE Mapped(d) /\ connectionsMap' = [connectionsMap EXCEPT ![client_fd[d]] = NoConn]
      BY <1>2, <2>1, <2>2, <2>4, <3>2, EraseOne
    <3>. QED  BY <2>1, <3>1, <3>2
  <2>5. CASE d # c /\ ~Mapped(c)
    <3>1. PICK k \in Loops : k = event_loop[c] /\ f \in NotBegun(k)
      BY <1>1, <1>2, <1>5, <2>5 DEF StateInv, Inv, LifeInv
    <3>2. f # Bind("HandleCloseInLoop", d) /\ f # Bind("ConnectionDestructor", d)
      BY <2>5, BindInjective
    <3>. QED  BY <2>1, <2>2, <3>1, <3>2
  <2>. QED  BY <2>3, <2>4, <2>5
<1>6. CASE state[c] = "Disconected" /\ ~Deregistered(c) /\ \A l \in Loops : ~RunFunc(l)
  <2>1. ASSUME NEW k \in Loops, f \in NotBegun(k)  PROVE f \in NotBegun(k)'
    <3>1. CASE \E l \in Loops : ReadCallback(l) \/ WriteCallback(l)
      BY <2>1, <3>1, CallbackQueues
    <3>2. CASE \A l \in Loops : ~ReadCallback(l) /\ ~WriteCallback(l)
      BY <1>6, <2>1, <3>2, OtherQueues
    <3>. QED  BY <3>1, <3>2
  <2>2. ASSUME Mapped(c)  PROVE Mapped(c)'
    <3>1. CASE Establish
      <4>1. PICK a \in Conns :
              /\ client_fd[a] \in Fds /\ client_fd' = client_fd
              /\ connectionsMap' = [connectionsMap EXCEPT ![client_fd[a]] = a]
              /\ \A d \in Conns : connectionsMap[client_fd[a]] # d
        BY <3>1, EstablishedIsNew
      <4>. QED  BY <1>2, <2>2, <4>1 DEF Mapped, Inv, TypeOK
    <3>2. ASSUME NEW l \in Loops, ReadCallback(l) \/ WriteCallback(l)  PROVE Mapped(c)'
      <4>1. PICK d \in Conns :
              /\ client_fd[d] \in Fds /\ client_fd' = client_fd
              /\ \/ connectionsMap' = connectionsMap
                 \/ /\ state[d] = "Connected" /\ Mapped(d)
                    /\ connectionsMap' = [connectionsMap EXCEPT ![client_fd[d]] = NoConn]
        BY <3>2, CallbackCases
      <4>2. CASE connectionsMap' = connectionsMap  BY <1>2, <2>2, <4>2 DEF Mapped
      <4>3. CASE d # c /\ Mapped(d)
                 /\ connectionsMap' = [connectionsMap EXCEPT ![client_fd[d]] = NoConn]
        BY <1>2, <2>2, <4>1, <4>3, EraseOne
      <4>. QED  BY <1>6, <4>1, <4>2, <4>3
    <3>3. CASE connectionsMap' = connectionsMap  BY <1>2, <2>2, <3>3 DEF Mapped
    <3>4. Accept => connectionsMap' = connectionsMap  BY DEF Accept
    <3>. QED  BY <1>6, <3>1, <3>2, <3>3, <3>4, WhoChangesState
  <2>. QED  BY <1>1, <1>2, <1>6, <2>1, <2>2 DEF StateInv, Inv, LifeInv
<1>. QED  BY <1>3, <1>4, <1>5, <1>6

LEMMA NextState == ASSUME Inv, [ServerStep]_serverVars PROVE StateInv'
<1> SUFFICES ASSUME NEW c \in Conns
             PROVE  /\ ~Constructed(c)' => /\ state'[c] = "uninitialized"
                                           /\ Deregistered(c)' /\ c \notin ready_events'
                                           /\ \A l \in Loops : handling'[l] # c
                    /\ Constructed(c)' => event_loop'[c] \in Loops
                    /\ Constructed(c)' /\ state'[c] = "uninitialized"
                         => handling'[main_reactor] = c /\ step'[main_reactor] = "accepted"
                    /\ state'[c] = "Connected" => Mapped(c)'
                    /\ state'[c] # "Disconected"
                         => \A l \in Loops : \A f \in Bound(l)' : f.conn # c
                    /\ Constructed(c)' /\ state'[c] = "Disconected"
                         => \/ Mapped(c)'
                            \/ Bind("ConnectionDestructor", c) \in NotBegun(event_loop[c])'
                            \/ Deregistered(c)'
  BY DEF StateInv
<1>1. Constructed(c)' => event_loop'[c] \in Loops
  <2>1. CASE Accept /\ c = Head(backlog)
    BY <2>1, NextEventLoopTyped DEF Accept, Inv, TypeOK
  <2>2. CASE Constructed(c)
    BY <2>2, ConstructedStays, ConstructedHasLoop
  <2>. QED  BY <2>1, <2>2, ConstructedStays
<1>2. ASSUME Constructed(c)', state'[c] = "Disconected"
      PROVE  \/ Mapped(c)'
             \/ Bind("ConnectionDestructor", c) \in NotBegun(event_loop[c])'
             \/ Deregistered(c)'
  <2>1. ASSUME NEW m \in Loops, m = event_loop'[c],
               Bind("ConnectionDestructor", c) \in NotBegun(m)'
        PROVE  Bind("ConnectionDestructor", c) \in NotBegun(event_loop[c])'
    BY <2>1 DEF NotBegun, Rest
  <2>. QED  BY <1>2, <2>1, NextClosing
<1>. QED
  BY <1>1, <1>2, NextNew, NextUninitialized, NextConnected, NextUnbound

-----------------------------------------------------------------------------
(* The theorems.                                                           *)

LEMMA InitLife == ASSUME StrayTids = {}, Init PROVE Inv
<1> USE ServerAssumption DEF Init, LoopInit
<1>1. \A l \in Loops : /\ pc[l] = "Epoll" /\ step[l] = "idle"
                       /\ handling[l] = NoConn /\ ready[l] = {}
                       /\ to_do_list[l] = <<>> /\ funcs[l] = <<>> /\ spent[l] = {}
  OBVIOUS
<1>2. \A c \in Conns : ~Constructed(c) /\ ~Held(c) /\ ~Establishing(c)
  BY <1>1 DEF Constructed, Held, Establishing
<1>3. \A l \in Loops : Bound(l) = {} /\ NotBegun(l) = {}
  BY <1>1, ElementsEmpty DEF Bound, NotBegun, Rest
<1>4. ThreadInv  BY <1>1 DEF ThreadInv
<1>5. BacklogInv  BY <1>2, ElementsEmpty DEF BacklogInv
<1>6. EstablishInv  BY <1>2 DEF EstablishInv
<1>7. MapInv  BY DEF MapInv
<1>8. StateInv
  <2>1. \A c \in Conns : /\ Deregistered(c) /\ c \notin ready_events
                         /\ state[c] = "uninitialized"
    BY <1>1 DEF Deregistered
  <2>. QED  BY <1>1, <1>2, <1>3, <2>1 DEF StateInv
<1>9. OnceInv  BY <1>1, ElementsEmpty DEF OnceInv
<1>10. QueueInv  BY <1>3 DEF QueueInv
<1>11. FdInv  BY <1>2 DEF FdInv
<1>. QED
  BY <1>4, <1>5, <1>6, <1>7, <1>8, <1>9, <1>10, <1>11, InitTyped DEF Inv, LifeInv

LEMMA Invariance == ASSUME StrayTids = {} PROVE Spec => []Inv
<1>1. Init => Inv  BY InitLife
<1>2. Inv /\ [Next]_vars => Inv'
  BY StepOrKilled, NextTyped, NextThread, NextBacklog, NextEstablish, NextMap,
     NextState, NextQueue,
     NextFd DEF Inv, LifeInv
<1>. QED  BY <1>1, <1>2, PTL DEF Spec

(* No variable of the server ever leaves its type: in particular next is   *)
(* always the position of a loop (eventloopthreadpool.cpp:25-34).          *)
THEOREM ServerTypeCorrect == ASSUME StrayTids = {} PROVE Spec => []TypeOK
<1>1. Inv => TypeOK  BY DEF Inv
<1>. QED  BY <1>1, Invariance, PTL

(***************************************************************************)
(* No pointer epoll handed to a loop (epoller.cpp:38-41) outlives its      *)
(* channel, for any number of loops, connections and descriptors.          *)
(***************************************************************************)
THEOREM NoChannelDangles == ASSUME StrayTids = {} PROVE Spec => []NoDanglingChannel
BY InvNoDangling, Invariance, PTL

(***************************************************************************)
(* The assertion of HandleCloseInLoop (server.cpp:62) holds, and the entry *)
(* it erases is that of the connection it was queued for.                  *)
(***************************************************************************)
THEOREM ClosesFindTheirConnection ==
  ASSUME StrayTids = {} PROVE Spec => []CloseFindsConnection
<1>1. Inv => CloseFindsConnection
  <2> SUFFICES ASSUME Inv, NEW l \in Loops, NEW f \in NotBegun(l),
                      f.fn = "HandleCloseInLoop"
               PROVE  connectionsMap[client_fd[f.conn]] = f.conn
    BY DEF CloseFindsConnection
  <2>1. f \in Bound(l)  BY NotBegunBound DEF Inv
  <2>2. f \in Tasks
    <3>1. \A s \in Seq(Tasks) : Elements(s) \subseteq Tasks  BY DEF Elements
    <3>. QED  BY <2>1, <3>1 DEF Bound, Inv, LoopInv, LoopTypeOK
  <2>3. f.conn \in Conns /\ f = Bind("HandleCloseInLoop", f.conn)
    BY <2>2, BindTyped
  <2>. QED  BY <2>3 DEF Inv, LifeInv, QueueInv, Mapped
<1>. QED  BY <1>1, Invariance, PTL

(* What has been destroyed was closed and taken out of epoll before.       *)
LEMMA InvDestroyed ==
  Inv => \A c \in Conns : Destroyed(c) => state[c] = "Disconected" /\ Deregistered(c)
BY ReachableHeld DEF Destroyed

(***************************************************************************)
(* The descriptor of a connection is never closed while its channel is     *)
(* still registered with epoll (connection.cpp:39-55).                     *)
(***************************************************************************)
THEOREM DeregisteredFirst ==
  ASSUME StrayTids = {} PROVE Spec => []DeregisteredBeforeDestroyed
<1>1. Inv => DeregisteredBeforeDestroyed
  BY InvDestroyed DEF DeregisteredBeforeDestroyed, Deregistered
<1>. QED  BY <1>1, Invariance, PTL

-----------------------------------------------------------------------------
(* The life of connections is that of ConnLifecycle.                       *)

DestroyedWasClosing == \A c \in Conns : Destroyed(c) => state[c] = "Disconected"

(* Accepting opens one connection on a free descriptor.                    *)
LEMMA AcceptOpens ==
  ASSUME Inv, Accept
  PROVE  \E c \in Conns :
           /\ Phase(c) = "new" /\ Phase(c)' = "open" /\ ~Held(c) /\ Held(c)'
           /\ client_fd'[c] \in FreeFds
           /\ \A d \in Conns \ {c} : /\ Phase(d)' = Phase(d)
                                     /\ Held(d)' <=> Held(d)
                                     /\ client_fd'[d] = client_fd[d]
<1>1. PICK c \in Conns :
        /\ c = Head(backlog) /\ ~Constructed(c) /\ state[c] = "uninitialized"
        /\ \E fd \in FreeFds : client_fd' = [client_fd EXCEPT ![c] = fd]
        /\ Constructed(c)' /\ client_fd'[c] \in Fds
        /\ \A d \in Conns \ {c} : /\ client_fd'[d] = client_fd[d]
                                  /\ Constructed(d)' <=> Constructed(d)
  BY AcceptedIsNew
<1>2. client_fd'[c] \in FreeFds  BY <1>1 DEF Inv, TypeOK
<1>3. /\ handling[main_reactor] = NoConn
      /\ handling' = [handling EXCEPT ![main_reactor] = c]
      /\ UNCHANGED <<loopVars, state, connectionsMap>>
  BY <1>1 DEF Accept, Quiet
<1>4. Held(c)' /\ ~Held(c)
  <2>1. handling'[main_reactor] = c
    BY <1>3, ServerAssumption DEF Inv, TypeOK
  <2>. QED  BY <1>1, <2>1, ServerAssumption DEF Held
<1>5. ASSUME NEW d \in Conns \ {c}  PROVE Held(d)' <=> Held(d)
  <2>1. \A l \in Loops : handling'[l] = d <=> handling[l] = d
    BY <1>3, <1>5, ServerAssumption DEF Inv, TypeOK
  <2>2. \A l \in Loops : Bound(l)' = Bound(l)
    BY <1>3 DEF Bound, loopVars
  <2>. QED  BY <1>1, <1>3, <1>5, <2>1, <2>2 DEF Held
<1>6. \A d \in Conns \ {c} : Phase(d)' = Phase(d)
  BY <1>1, <1>3, <1>5 DEF Phase
<1>7. Phase(c) = "new" /\ Phase(c)' = "open"
  BY <1>1, <1>3, <1>4 DEF Phase
<1>. QED  BY <1>1, <1>2, <1>4, <1>5, <1>6, <1>7

(* Closing starts the close of one connection, and lets go of none.        *)
LEMMA CloseCloses ==
  ASSUME Inv, [ServerStep]_serverVars, NEW c \in Conns,
         state[c] # "Disconected", state'[c] = "Disconected"
  PROVE  /\ Phase(c) = "open" /\ Phase(c)' = "closing"
         /\ client_fd' = client_fd
         /\ \A d \in Conns : Held(d)' <=> Held(d)
         /\ \A d \in Conns \ {c} : Phase(d)' = Phase(d)
<1>1. PICK l \in Loops : (ReadCallback(l) \/ WriteCallback(l)) /\ c = handling[l]
  BY StateMoves
<1>2. /\ Constructed(c) /\ client_fd[c] \in Fds /\ Mapped(c)
      /\ UNCHANGED <<client_fd, handling>>
      /\ state' = [state EXCEPT ![c] = "Disconected"]
      /\ \/ connectionsMap' = connectionsMap
         \/ connectionsMap' = [connectionsMap EXCEPT ![client_fd[c]] = NoConn]
  BY <1>1, CallbackCases
<1>3. \A k \in Loops : Bound(k) \subseteq Bound(k)'
  BY <1>1, CallbackQueues
<1>4. ASSUME NEW d \in Conns, Held(d)  PROVE Held(d)'
  <2>1. Constructed(d) /\ Constructed(d)'  BY <1>2, <1>4 DEF Held, Constructed
  <2>2. CASE \E fd \in Fds : connectionsMap[fd] = d
    <3>1. CASE d = c  BY <1>1, <1>2, <2>1, <3>1 DEF Held
    <3>2. CASE d # c
      <4>1. \E fd \in Fds : connectionsMap'[fd] = d
        BY <1>2, <2>2, <3>2 DEF Mapped, Inv, TypeOK
      <4>. QED  BY <2>1, <4>1 DEF Held
    <3>. QED  BY <3>1, <3>2
  <2>3. CASE \E k \in Loops : handling[k] = d
    BY <1>2, <2>1, <2>3 DEF Held
  <2>4. CASE \E k \in Loops : \E f \in Bound(k) : f.conn = d
    BY <1>3, <2>1, <2>4 DEF Held
  <2>. QED  BY <1>4, <2>2, <2>3, <2>4 DEF Held
<1>5. \A d \in Conns : Held(d)' <=> Held(d)
  <2>1. \A d \in Conns : Held(d)' => Constructed(d)
    BY <1>2 DEF Held, Constructed
  <2>. QED  BY <1>4, <2>1, HeldShrinks
<1>6. \A d \in Conns : Constructed(d)' <=> Constructed(d)
  BY <1>2 DEF Constructed
<1>7. \A d \in Conns \ {c} : state'[d] = state[d]
  BY <1>2 DEF Inv, TypeOK
<1>8. Held(c) /\ Held(c)'
  BY <1>1, <1>2, <1>5 DEF Held
<1>. QED  BY <1>2, <1>5, <1>6, <1>7, <1>8 DEF Phase

(* Every other step destroys some of the closed connections, or none.      *)
LEMMA OthersDestroy ==
  ASSUME Inv, [ServerStep]_serverVars, DestroyedWasClosing', ~Accept,
         \A c \in Conns : state'[c] = "Disconected" => state[c] = "Disconected",
         NEW c \in Conns
  PROVE  /\ client_fd'[c] = client_fd[c]
         /\ Held(c)' => Held(c) /\ Phase(c)' = Phase(c)
         /\ ~Held(c)' /\ ~Held(c) => Phase(c)' = Phase(c)
         /\ ~Held(c)' /\ Held(c) => Phase(c) = "closing" /\ Phase(c)' = "gone"
<1>1. /\ Constructed(c)' <=> Constructed(c)
      /\ client_fd'[c] = client_fd[c]
  <2>1. Constructed(c)' <=> Constructed(c)  BY ConstructedStays
  <2>. QED  BY <2>1, ConstructedStays DEF Constructed
<1>2. state[c] = "Disconected" <=> state'[c] = "Disconected"
  BY StateMoves
<1>3. Held(c)' => Held(c) /\ Constructed(c)
  BY <1>1, HeldShrinks DEF Held
<1>4. ~Held(c)' /\ Held(c) => state[c] = "Disconected" /\ Constructed(c)
  BY <1>1, <1>2 DEF DestroyedWasClosing, Destroyed, Held
<1>. QED  BY <1>1, <1>2, <1>3, <1>4 DEF Phase

LEMMA StepLives ==
  ASSUME Inv, DestroyedWasClosing', [ServerStep]_serverVars
  PROVE  [Life!Next]_(Life!vars)
<1> DEFINE phase == [c \in Conns |-> Phase(c)]
           owns == [c \in Conns |-> IF Held(c) THEN client_fd[c] ELSE NoFd]
<1> USE DEF Life!Next, Life!vars
<1>1. CASE Accept
  <2>1. PICK c \in Conns :
          /\ Phase(c) = "new" /\ Phase(c)' = "open" /\ ~Held(c) /\ Held(c)'
          /\ client_fd'[c] \in FreeFds
          /\ \A d \in Conns \ {c} : /\ Phase(d)' = Phase(d)
                                    /\ Held(d)' <=> Held(d)
                                    /\ client_fd'[d] = client_fd[d]
    BY <1>1, AcceptOpens
  <2>2. phase' = [phase EXCEPT ![c] = "open"]  BY <2>1
  <2>3. owns' = [owns EXCEPT ![c] = client_fd'[c]]  BY <2>1
  <2>4. client_fd'[c] \in Fds \ {owns[d] : d \in Conns}
    BY <2>1, ServerAssumption DEF FreeFds
  <2>. QED  BY <2>1, <2>2, <2>3, <2>4 DEF Life!Open
<1>2. ASSUME NEW c \in Conns, state[c] # "Disconected", state'[c] = "Disconected"
      PROVE  Life!Close(c)
  <2>1. /\ Phase(c) = "open" /\ Phase(c)' = "closing"
        /\ client_fd' = client_fd
        /\ \A d \in Conns : Held(d)' <=> Held(d)
        /\ \A d \in Conns \ {c} : Phase(d)' = Phase(d)
    BY <1>2, CloseCloses
  <2>2. phase' = [phase EXCEPT ![c] = "closing"]  BY <2>1
  <2>3. owns' = owns  BY <2>1
  <2>. QED  BY <2>1, <2>2, <2>3 DEF Life!Close
<1>3. ASSUME ~Accept,
             \A c \in Conns : state'[c] = "Disconected" => state[c] = "Disconected"
      PROVE  Life!Destroy
  <2> DEFINE cs == {c \in Conns : Held(c) /\ ~Held(c)'}
  <2>1. \A c \in Conns :
          /\ client_fd'[c] = client_fd[c]
          /\ Held(c)' => Held(c) /\ Phase(c)' = Phase(c)
          /\ ~Held(c)' /\ ~Held(c) => Phase(c)' = Phase(c)
          /\ ~Held(c)' /\ Held(c) => Phase(c) = "closing" /\ Phase(c)' = "gone"
    BY <1>3, OthersDestroy
  <2>2. cs \in SUBSET {c \in Conns : phase[c] = "closing"}  BY <2>1
  <2>3. phase' = [c \in Conns |-> IF c \in cs THEN "gone" ELSE phase[c]]  BY <2>1
  <2>4. owns' = [c \in Conns |-> IF c \in cs THEN NoFd ELSE owns[c]]  BY <2>1
  <2>. QED  BY <2>2, <2>3, <2>4 DEF Life!Destroy
<1>. QED  BY <1>1, <1>2, <1>3

(***************************************************************************)
(* The server implements ConnLifecycle (connection.cpp:39-77,              *)
(* server.cpp:34-67), for any number of loops, connections and descriptors *)
(* and however many events one epoll_wait reports.                         *)
(***************************************************************************)
THEOREM ServerImplementsConnLifecycle ==
  ASSUME StrayTids = {} PROVE Spec => ConnectionsLive
<1>1. Init => Life!Init
  BY DEF Init, Life!Init, Phase, Constructed, Held
<1>2. Inv => DestroyedWasClosing
  BY InvDestroyed DEF DestroyedWasClosing
<1>3. Inv /\ DestroyedWasClosing' /\ [Next]_vars => [Life!Next]_(Life!vars)
  BY StepOrKilled, StepLives DEF Inv
<1>. QED  BY <1>1, <1>2, <1>3, Invariance, PTL DEF Spec, ConnectionsLive, Life!Spec

-----------------------------------------------------------------------------
(***************************************************************************)
(* The loops of the server lose no wake-up (eventloop.cpp:83), and the     *)
(* wake-up channel is never read in vain (eventloop.cpp:110): what         *)
(* LoopTasks shows of arbitrary functions holds of those of this program.  *)
(***************************************************************************)
THEOREM ServerWakeupsKept ==
  ASSUME StrayTids = {} PROVE Spec => [](NoLostWakeup /\ WakeReadSucceeds)
<1>1. Inv => NoLostWakeup /\ WakeReadSucceeds  BY LoopInvImplies DEF Inv
<1>. QED  BY <1>1, Invariance, PTL

-----------------------------------------------------------------------------
(* Nothing is forgotten: RestInv is inductive too.                         *)

(* Who will look at a connection again, and one that keeps its watcher.    *)
Noticed(c) ==
  \/ c \in edges
  \/ c \in ready_events /\ \E l \in Loops : c \in ready[l]
  \/ \E l \in Loops : handling[l] = c /\ step[l] = "read"

LEMMA NoticedStays ==
  ASSUME NEW c \in Conns, Noticed(c),
         c \in edges => c \in edges', c \in ready_events => c \in ready_events',
         \A l \in Loops : c \in ready[l] => c \in ready'[l],
         \A l \in Loops : handling[l] = c /\ step[l] = "read"
                            => handling'[l] = c /\ step'[l] = "read"
  PROVE  Noticed(c)'
BY DEF Noticed

LEMMA EdgeNoticed == EdgeInv <=> \A c \in Conns : Watched(c) /\ Readable(c) => Noticed(c)
BY DEF EdgeInv, Noticed

(* Reading takes one message, or closes: what is left has an edge.         *)
LEMMA ReadNotices ==
  ASSUME Inv, EdgeInv, NEW l \in Loops, ReadCallback(l),
         NEW c \in Conns, Watched(c)', Readable(c)'
  PROVE  Noticed(c)'
<1> USE DEF Inv, TypeOK
<1>1. PICK d \in Conns :
        /\ d = handling[l] /\ UNCHANGED <<handling, ready, ready_events, interest>>
        /\ state' = state \/ state' = [state EXCEPT ![d] = "Disconected"]
  BY CallbackCases
<1>2. /\ ReadMessage(l, d) \/ ReadTooLong(l, d) \/ ReadRest(l, d)
      /\ step[l] = "read" /\ step' = [step EXCEPT ![l] = "write"] /\ client' = client
  BY <1>1 DEF ReadCallback
<1>3. edges \subseteq edges' /\ (c # d => unread'[c] = unread[c])
  BY <1>2 DEF ReadMessage, ReadTooLong, ReadRest
<1>4. Watched(c)  BY <1>1 DEF Watched
<1>5. CASE c = d
  <2>1. CASE ReadMessage(l, d)
    BY <1>2, <1>4, <1>5, <2>1 DEF ReadMessage, Watched, Readable, Noticed
  <2>2. ~HandleClose(l, d)
    <3>1. HandleClose(l, d) => state'[d] = "Disconected"  BY DEF HandleClose
    <3>. QED  BY <1>5, <3>1 DEF Watched
  <2>3. ~ReadTooLong(l, d)  BY <2>2 DEF ReadTooLong
  <2>4. ~ReadRest(l, d)  BY <1>2, <1>5, <2>2 DEF ReadRest, Readable
  <2>. QED  BY <1>2, <2>1, <2>3, <2>4
<1>6. CASE c # d
  <2>1. Readable(c)  BY <1>2, <1>3, <1>6 DEF Readable
  <2>2. Noticed(c)  BY <1>4, <2>1, EdgeNoticed
  <2>. QED  BY <1>1, <1>2, <1>3, <1>6, <2>2, NoticedStays
<1>. QED  BY <1>5, <1>6

(* epoll_wait reports the edge or leaves it in the ready list.             *)
LEMMA EpollNotices ==
  ASSUME Inv, EdgeInv, NEW l \in Loops, EpollWait(l),
         NEW c \in Conns, Watched(c)', Readable(c)'
  PROVE  Noticed(c)'
<1> USE DEF Inv, LifeInv
<1>1. UNCHANGED <<state, interest, unread, client, handling, step>>
  BY DEF EpollWait, peerVars
<1>2. Watched(c) /\ Readable(c) /\ Noticed(c)
  BY <1>1, EdgeNoticed DEF Watched, Readable
<1>3. PICK resets \in SUBSET Resets(l), channels \in SUBSET (Conns \cup {Acceptor}) :
        /\ ready' = [ready EXCEPT ![l] = channels]
        /\ ready_events' = {d \in ready_events : event_loop[d] # l}
                             \cup (Reported(l) \cap channels)
        /\ edges' = (edges \ Edges(l))
                      \cup (((Reported(l) \cup resets \cup Acceptable(l)) \ channels) \ {Acceptor})
  <2>1. Reported(l) \cup Resets(l) \cup Acceptable(l) \subseteq Conns \cup {Acceptor}
    BY DEF Reported, Resets, Acceptable, Edges, TypeOK
  <2>. QED  BY <2>1 DEF EpollWait
<1>4. ready[l] = {} /\ ready \in [Loops -> SUBSET (Conns \cup {Acceptor})] /\ c # Acceptor
  BY ServerAssumption DEF ThreadInv, EpollWait, Epoll, At, TypeOK
<1>5. CASE c \in edges
  <2>1. CASE event_loop[c] = l
    <3>1. c \in Reported(l)
      BY <1>2, <1>5, <2>1 DEF Reported, Edges, Watched
    <3>2. CASE c \in channels
      BY <1>3, <1>4, <3>1, <3>2 DEF Noticed
    <3>3. CASE c \notin channels
      BY <1>3, <1>4, <3>1, <3>3 DEF Noticed
    <3>. QED  BY <3>2, <3>3
  <2>2. CASE event_loop[c] # l
    BY <1>3, <1>5, <2>2 DEF Noticed, Edges
  <2>. QED  BY <2>1, <2>2
<1>6. ASSUME c \in ready_events, NEW k \in Loops, c \in ready[k]  PROVE Noticed(c)'
  <2>1. k # l /\ event_loop[c] = k  BY <1>4, <1>6 DEF ThreadInv
  <2>. QED  BY <1>3, <1>4, <1>6, <2>1 DEF Noticed
<1>7. CASE \E k \in Loops : handling[k] = c /\ step[k] = "read"
  BY <1>1, <1>7 DEF Noticed
<1>. QED  BY <1>2, <1>5, <1>6, <1>7 DEF Noticed

LEMMA NextEdge == ASSUME Inv, EdgeInv, [ServerStep]_serverVars PROVE EdgeInv'
<1> SUFFICES ASSUME NEW c \in Conns, Watched(c)', Readable(c)'
             PROVE  Noticed(c)'
  BY DEF EdgeInv, Noticed
<1> USE ServerAssumption DEF Inv, LifeInv, TypeOK
<1>0. Watched(c) /\ Readable(c) => Noticed(c)  BY EdgeNoticed
<1>1. ASSUME NEW d \in Conns, Client(d)  PROVE Noticed(c)'
  <2>1. /\ UNCHANGED <<state, interest, ready, ready_events, handling, step>>
        /\ edges \subseteq edges'
    BY <1>1 DEF Client, readyVars, ClientConnect, ClientSend, ClientClose
  <2>2. Watched(c)  BY <2>1 DEF Watched
  <2>3. Readable(c) \/ c \in edges'
    BY <1>1, <2>2
       DEF Client, ClientConnect, ClientSend, ClientClose, Readable, Watched
  <2>. QED  BY <1>0, <2>1, <2>2, <2>3, NoticedStays DEF Noticed
<1>2. ASSUME NEW l \in Loops, EpollWait(l)  PROVE Noticed(c)'
  BY <1>2, EpollNotices
<1>3. ASSUME NEW l \in Loops, LoopStep(l)  PROVE Noticed(c)'
  BY <1>0, <1>3 DEF LoopStep, peerVars, epollVars, readyVars, Watched, Readable, Noticed
<1>4. CASE AcceptFails
  <2>1. /\ Watched(c) /\ Readable(c)
        /\ UNCHANGED <<edges, ready_events, handling, step>>
        /\ \A l \in Loops : c \in ready[l] => c \in ready'[l]
    BY <1>4 DEF AcceptFails, peerVars, epollVars, Watched, Readable
  <2>. QED  BY <1>0, <2>1, NoticedStays
<1>5. CASE Accept
  <2>1. PICK d \in Conns : d = Head(backlog) /\ state[d] = "uninitialized"
    BY <1>5, AcceptedIsNew
  <2>2. UNCHANGED <<state, unread, client, ready_events>>  BY <1>5 DEF Accept
  <2>3. c # d /\ state[c] = "Connected"  BY <2>1, <2>2 DEF Watched
  <2>4. interest'[c] = interest[c] /\ edges \subseteq edges'
    BY <1>5, <2>1, <2>3 DEF Accept, UpdateChannel
  <2>5. \A l \in Loops : /\ c \in ready[l] => c \in ready'[l]
                         /\ handling[l] = c => handling'[l] = c /\ step'[l] = step[l]
    BY <1>5, <2>1 DEF Accept, Quiet
  <2>6. Watched(c) /\ Readable(c)  BY <2>2, <2>3, <2>4 DEF Watched, Readable
  <2>. QED  BY <1>0, <2>2, <2>4, <2>5, <2>6, NoticedStays
<1>6. CASE Establish
  <2>1. PICK d \in Conns :
          /\ d = handling[main_reactor] /\ Establishing(d)
          /\ state' = [state EXCEPT ![d] = "Connected"] /\ handling' = handling
    BY <1>6, EstablishedIsNew
  <2>2. /\ UNCHANGED <<interest, edges, unread, client, ready, ready_events>>
        /\ step[main_reactor] = "accepted"
        /\ step' = [step EXCEPT ![main_reactor] = "established"]
    BY <1>6 DEF Establish, peerVars, epollVars, readyVars
  <2>3. interest[d] # "IN"  BY <2>1 DEF EstablishInv
  <2>4. Watched(c) /\ Readable(c)  BY <2>1, <2>2, <2>3 DEF Watched, Readable
  <2>. QED  BY <1>0, <2>1, <2>2, <2>4, NoticedStays
<1>7. CASE EnableRead
  <2> DEFINE d == handling[main_reactor]
  <2>1. /\ UNCHANGED <<state, unread, client, ready, ready_events, handling>>
        /\ step[main_reactor] = "established"
        /\ step' = [step EXCEPT ![main_reactor] = "done"]
        /\ edges \subseteq edges'
    BY <1>7 DEF EnableRead, UpdateChannel, peerVars, readyVars
  <2>2. Readable(c)  BY <2>1 DEF Readable
  <2>3. Watched(c) \/ c \in edges'
    BY <1>7, <2>1, <2>2 DEF EnableRead, UpdateChannel, Watched
  <2>. QED  BY <1>0, <2>1, <2>2, <2>3, NoticedStays DEF Noticed
<1>8. ASSUME NEW l \in Loops, NEW d \in Conns, HandleEventIgnored(l, d)
      PROVE  Noticed(c)'
  <2>1. /\ Watched(c) /\ Readable(c)
        /\ UNCHANGED <<edges, ready_events, handling, step>> /\ d \notin ready_events
        /\ ready' = [ready EXCEPT ![l] = @ \ {d}]
    BY <1>8 DEF HandleEventIgnored, peerVars, epollVars, Watched, Readable
  <2>. QED  BY <1>0, <2>1 DEF Noticed
<1>9. ASSUME NEW l \in Loops, NEW d \in Conns, HandleEvent(l, d)
      PROVE  Noticed(c)'
  <2>1. /\ Watched(c) /\ Readable(c) /\ UNCHANGED <<edges, ready_events>>
        /\ ready' = [ready EXCEPT ![l] = @ \ {d}]
        /\ handling[l] = NoConn /\ handling' = [handling EXCEPT ![l] = d]
        /\ step' = [step EXCEPT ![l] = "read"]
    BY <1>9 DEF HandleEvent, Quiet, peerVars, epollVars, Watched, Readable
  <2>2. CASE c = d  BY <2>1, <2>2 DEF Noticed
  <2>3. CASE c # d  BY <1>0, <2>1, <2>3, NoticedStays
  <2>. QED  BY <2>2, <2>3
<1>10. ASSUME NEW l \in Loops, ReadCallback(l)  PROVE Noticed(c)'
  BY <1>10, ReadNotices
<1>11. ASSUME NEW l \in Loops, WriteCallback(l)  PROVE Noticed(c)'
  <2>1. PICK d \in Conns :
          /\ UNCHANGED <<handling, ready, ready_events, interest>>
          /\ state' = state \/ state' = [state EXCEPT ![d] = "Disconected"]
    BY <1>11, CallbackCases
  <2>2. /\ step[l] = "write" /\ step' = [step EXCEPT ![l] = "done"]
        /\ UNCHANGED <<unread, client, edges>>
    BY <1>11 DEF WriteCallback, peerVars, epollVars
  <2>3. Watched(c) /\ Readable(c)  BY <2>1, <2>2 DEF Watched, Readable
  <2>. QED  BY <1>0, <2>1, <2>2, <2>3, NoticedStays
<1>12. ASSUME NEW l \in Loops, EndCallback(l)  PROVE Noticed(c)'
  <2>1. /\ Watched(c) /\ Readable(c) /\ UNCHANGED <<edges, ready_events, ready>>
        /\ step[l] = "done" /\ step' = [step EXCEPT ![l] = "idle"]
        /\ \A k \in Loops \ {l} : handling'[k] = handling[k]
    BY <1>12 DEF EndCallback, peerVars, epollVars, readyVars, Watched, Readable
  <2>. QED  BY <1>0, <2>1, NoticedStays
<1>13. ASSUME NEW l \in Loops, RunFunc(l)  PROVE Noticed(c)'
  <2>1. PICK d \in Conns :
          /\ state[d] = "Disconected" /\ step[l] = "idle"
          /\ step' = [step EXCEPT ![l] = "done"]
          /\ UNCHANGED <<state, handling, ready, ready_events>>
          /\ \/ UNCHANGED <<interest, edges>>
             \/ interest' = [interest EXCEPT ![d] = "none"] /\ edges' = edges \ {d}
    BY <1>13, RunFuncCases
  <2>2. UNCHANGED <<unread, client>>  BY <1>13 DEF RunFunc, peerVars
  <2>3. c # d  BY <2>1 DEF Watched
  <2>4. Watched(c) /\ Readable(c)  BY <2>1, <2>2, <2>3 DEF Watched, Readable
  <2>. QED  BY <1>0, <2>1, <2>3, <2>4, NoticedStays
<1>14. ASSUME NEW l \in Loops, EndFunc(l)  PROVE Noticed(c)'
  <2>1. /\ Watched(c) /\ Readable(c) /\ UNCHANGED <<edges, ready_events, ready, handling>>
        /\ step[l] = "done" /\ step' = [step EXCEPT ![l] = "idle"]
    BY <1>14 DEF EndFunc, peerVars, epollVars, readyVars, Watched, Readable
  <2>. QED  BY <1>0, <2>1, NoticedStays
<1>15. CASE UNCHANGED serverVars
  BY <1>0, <1>15 DEF serverVars, peerVars, epollVars, readyVars, Watched,
     Readable, Noticed
<1>. QED
  BY <1>1, <1>2, <1>3, <1>4, <1>5, <1>6, <1>7, <1>8, <1>9, <1>10, <1>11, <1>12,
     <1>13, <1>14, <1>15 DEF ServerStep, ThreadStep, MainStep

(* InterestInv, HandlerInv and SpentInv.                                   *)

LEMMA FailuresGrow ==
  ASSUME TypeOK, [ServerStep]_serverVars, failures > 0
  PROVE  failures' > 0
<1>1. \/ UNCHANGED failures
      \/ failures' = failures + 1
  BY DEF ServerStep, serverVars, peerVars, epollVars, connVars, Client,
         EpollWait, ThreadStep,
         LoopStep, HandleEventIgnored, HandleEvent, ReadCallback, WriteCallback,
         EndCallback, RunFunc, EndFunc, MainStep, AcceptFails, Accept, Establish,
         EnableRead, UpdateChannel
<1>. QED  BY <1>1, ServerAssumption DEF TypeOK

(* Only these steps change what epoll watches or who is established.       *)
LEMMA WhoWatches ==
  ASSUME Inv, [ServerStep]_serverVars
  PROVE  \/ Accept \/ Establish \/ EnableRead
         \/ \E l \in Loops : ReadCallback(l) \/ WriteCallback(l) \/ RunFunc(l)
         \/ /\ UNCHANGED <<state, interest>>
            /\ \A c \in Conns : Establishing(c) => Establishing(c)'
<1> USE ServerAssumption DEF Inv, TypeOK, Establishing
<1>1. ASSUME NEW c \in Conns, Client(c)
      PROVE  UNCHANGED <<state, interest, handling, step>>
  BY <1>1 DEF Client
<1>2. ASSUME NEW l \in Loops, EpollWait(l) \/ LoopStep(l)
      PROVE  UNCHANGED <<state, interest, handling, step>>
  BY <1>2 DEF EpollWait, LoopStep, epollVars
<1>3. ASSUME NEW l \in Loops, NEW c \in Conns, HandleEventIgnored(l, c)
      PROVE  UNCHANGED <<state, interest, handling, step>>
  BY <1>3 DEF HandleEventIgnored, epollVars
<1>4. ASSUME NEW l \in Loops, NEW d \in Conns, HandleEvent(l, d)
      PROVE  /\ UNCHANGED <<state, interest>>
             /\ \A c \in Conns : Establishing(c) => Establishing(c)'
  BY <1>4 DEF HandleEvent, Quiet, epollVars
<1>5. ASSUME NEW l \in Loops, EndCallback(l)
      PROVE  /\ UNCHANGED <<state, interest>>
             /\ \A c \in Conns : Establishing(c) => Establishing(c)'
  BY <1>5 DEF EndCallback, epollVars
<1>6. ASSUME NEW l \in Loops, EndFunc(l)
      PROVE  /\ UNCHANGED <<state, interest>>
             /\ \A c \in Conns : Establishing(c) => Establishing(c)'
  BY <1>6 DEF EndFunc, epollVars
<1>7. CASE AcceptFails
  BY <1>7 DEF AcceptFails, epollVars
<1>8. CASE UNCHANGED serverVars
  BY <1>8 DEF serverVars, epollVars
<1>. QED
  BY <1>1, <1>2, <1>3, <1>4, <1>5, <1>6, <1>7, <1>8 DEF ServerStep, ThreadStep,
     MainStep

(* A function of the batch leaves the state alone and only deregisters.    *)
LEMMA RunFuncInterest ==
  ASSUME Inv, NEW l \in Loops, RunFunc(l)
  PROVE  \E d \in Conns :
         /\ state[d] = "Disconected" /\ step[l] = "idle"
         /\ step' = [step EXCEPT ![l] = "done"] /\ UNCHANGED <<state, handling>>
         /\ interest' = interest \/ interest' = [interest EXCEPT ![d] = "none"]
BY RunFuncCases

LEMMA NextInterest ==
  ASSUME Inv, InterestInv, [ServerStep]_serverVars
  PROVE  InterestInv'
<1> SUFFICES ASSUME NEW c \in Conns, state'[c] = "Connected", interest'[c] # "IN",
                    ~Establishing(c)'
             PROVE  failures' > 0
  BY DEF InterestInv
<1> USE ServerAssumption DEF Inv, LifeInv, TypeOK
<1>1. SUFFICES (state[c] = "Connected" /\ interest[c] # "IN" /\ ~Establishing(c)) \/ failures' > 0
  BY FailuresGrow DEF InterestInv
<1>2. CASE Accept
  <2>1. PICK d \in Conns : d = Head(backlog) /\ state[d] = "uninitialized"
    BY <1>2, AcceptedIsNew
  <2>2. state' = state  BY <1>2 DEF Accept
  <2>3. c # d /\ state[c] = "Connected"  BY <2>1, <2>2
  <2>4. interest'[c] = interest[c]
    BY <1>2, <2>1, <2>3 DEF Accept, UpdateChannel
  <2>5. ~Establishing(c)
    BY <1>2 DEF Accept, Quiet, Establishing
  <2>. QED  BY <2>3, <2>4, <2>5
<1>3. CASE Establish
  <2>1. PICK d \in Conns :
          /\ d = handling[main_reactor] /\ Establishing(d)
          /\ state' = [state EXCEPT ![d] = "Connected"] /\ handling' = handling
    BY <1>3, EstablishedIsNew
  <2>2. interest' = interest /\ step'[main_reactor] = "established"
    BY <1>3 DEF Establish, epollVars
  <2>3. c # d  BY <2>1, <2>2 DEF Establishing
  <2>. QED  BY <2>1, <2>2, <2>3 DEF Establishing
<1>4. CASE EnableRead
  <2> DEFINE d == handling[main_reactor]
  <2>1. state' = state /\ (interest' = interest \/ interest' = [interest EXCEPT ![d] = "IN"])
    BY <1>4 DEF EnableRead, UpdateChannel
  <2>2. CASE c = d
    <3>1. interest'[c] # "IN"  OBVIOUS
    <3>2. interest' # [interest EXCEPT ![d] = "IN"]  BY <2>2, <3>1
    <3>3. failures' = failures + 1
      BY <1>4, <3>2 DEF EnableRead, UpdateChannel
    <3>. QED  BY <3>3
  <2>3. CASE c # d
    BY <2>1, <2>3 DEF Establishing
  <2>. QED  BY <2>2, <2>3
<1>5. ASSUME NEW l \in Loops, ReadCallback(l) \/ WriteCallback(l)
      PROVE  state[c] = "Connected" /\ interest[c] # "IN" /\ ~Establishing(c)
  <2>1. PICK d \in Conns :
          /\ d = handling[l] /\ ~Establishing(d) /\ UNCHANGED <<handling, interest>>
          /\ state' = state \/ state' = [state EXCEPT ![d] = "Disconected"]
    BY <1>5, CallbackCases
  <2>2. /\ step[l] \in {"read", "write"}
        /\ step' = [step EXCEPT ![l] = "write"] \/ step' = [step EXCEPT ![l] = "done"]
    BY <1>5 DEF ReadCallback, WriteCallback
  <2>. QED  BY <2>1, <2>2 DEF Establishing
<1>6. ASSUME NEW l \in Loops, RunFunc(l)
      PROVE  state[c] = "Connected" /\ interest[c] # "IN" /\ ~Establishing(c)
  <2>1. PICK d \in Conns :
          /\ state[d] = "Disconected" /\ step[l] = "idle"
          /\ step' = [step EXCEPT ![l] = "done"] /\ UNCHANGED <<state, handling>>
          /\ interest' = interest \/ interest' = [interest EXCEPT ![d] = "none"]
    BY <1>6, RunFuncInterest
  <2>. QED  BY <2>1 DEF Establishing
<1>7. CASE /\ UNCHANGED <<state, interest>>
           /\ \A d \in Conns : Establishing(d) => Establishing(d)'
  BY <1>7
<1>. QED  BY <1>2, <1>3, <1>4, <1>5, <1>6, <1>7, WhoWatches

LEMMA NextHandler ==
  ASSUME Inv, HandlerInv, [ServerStep]_serverVars
  PROVE  HandlerInv'
<1> USE ServerAssumption DEF Inv, LifeInv, HandlerInv, TypeOK
<1>1. CASE Accept
  <2>1. PICK d \in Conns :
          /\ d = Head(backlog) /\ \A l \in Loops : handling[l] # d
          /\ \A e \in Conns \ {d} : event_loop'[e] = event_loop[e]
    BY <1>1, AcceptedIsNew
  <2>2. handling' = [handling EXCEPT ![main_reactor] = d]
    BY <1>1, <2>1 DEF Accept
  <2>. QED  BY <2>1, <2>2
<1>2. ASSUME NEW l \in Loops, NEW d \in Conns, HandleEvent(l, d)
      PROVE  HandlerInv'
  <2>1. event_loop[d] = l /\ UNCHANGED event_loop
    BY <1>2 DEF HandleEvent, ThreadInv, connVars
  <2>2. handling' = [handling EXCEPT ![l] = d]
    BY <1>2 DEF HandleEvent
  <2>. QED  BY <2>1, <2>2
<1>3. ASSUME NEW l \in Loops, EndCallback(l)
      PROVE  HandlerInv'
  BY <1>3 DEF EndCallback, connVars
<1>4. CASE UNCHANGED <<handling, event_loop>>
  BY <1>4
<1>. QED
  BY <1>1, <1>2, <1>3, <1>4
     DEF ServerStep, serverVars, connVars, Client, EpollWait, ThreadStep,
         LoopStep,
         HandleEventIgnored, ReadCallback, WriteCallback, RunFunc, EndFunc, MainStep,
         AcceptFails, Establish, EnableRead

LEMMA NextSpent == ASSUME Inv, SpentInv, [ServerStep]_serverVars PROVE SpentInv'
<1> USE DEF Inv, LoopInv, LoopTypeOK, SpentInv
<1>1. ASSUME NEW l \in Loops, EpollWait(l)  PROVE SpentInv'
  BY <1>1 DEF EpollWait, Epoll, At
<1>2. ASSUME NEW l \in Loops, LoopStep(l)  PROVE SpentInv'
  <2>1. CASE HandleRead(l) \/ Notify(l)  BY <2>1 DEF HandleRead, Notify
  <2>2. CASE EnterToDoList(l)  BY <2>2 DEF EnterToDoList, At
  <2>3. CASE SwapToDoList(l)  BY <2>3 DEF SwapToDoList, At
  <2>4. CASE LeaveToDoList(l)  BY <2>4 DEF LeaveToDoList, At
  <2>. QED  BY <1>2, <2>1, <2>2, <2>3, <2>4 DEF LoopStep
<1>3. ASSUME NEW l \in Loops, ReadCallback(l) \/ WriteCallback(l)  PROVE SpentInv'
  <2>1. UNCHANGED <<pc, spent>>
    BY <1>3, CallbackCases DEF loopVars, QueueOneFunc
  <2>. QED  BY <2>1
<1>4. ASSUME NEW l \in Loops, RunFunc(l)  PROVE SpentInv'
  <2>1. UNCHANGED <<pc, spent>>  BY <1>4, RunFuncCases
  <2>. QED  BY <2>1
<1>5. ASSUME NEW l \in Loops, EndFunc(l)  PROVE SpentInv'
  BY <1>5 DEF EndFunc, FinishFunc, At
<1>6. CASE UNCHANGED loopVars
  BY <1>6 DEF loopVars
<1>. QED
  BY <1>1, <1>2, <1>3, <1>4, <1>5, <1>6
     DEF ServerStep, serverVars, Client, ThreadStep, HandleEventIgnored,
         HandleEvent, EndCallback,
         MainStep, AcceptFails, Accept, Establish, EnableRead

(* ClosingInv.                                                             *)

LEMMA NextErase ==
  ASSUME Inv, ClosingInv, [ServerStep]_serverVars
  PROVE  ClosingInv'
<1> SUFFICES ASSUME NEW c \in Conns, state'[c] = "Disconected", Mapped(c)'
             PROVE  Bind("HandleCloseInLoop", c) \in NotBegun(main_reactor)'
  BY DEF ClosingInv
<1> DEFINE g == Bind("HandleCloseInLoop", c)
<1> USE ServerAssumption
<1>0. state[c] = "Disconected" => client_fd[c] \in Fds
  BY ConstructedHasLoop DEF Inv, LifeInv, StateInv
<1>1. state[c] = "Disconected" /\ Mapped(c) => g \in NotBegun(main_reactor)
  BY DEF ClosingInv
<1>2. ASSUME NEW l \in Loops, ReadCallback(l) \/ WriteCallback(l)
      PROVE  g \in NotBegun(main_reactor)'
  <2>1. client_fd' = client_fd  BY <1>2, CallbackCases
  <2>2. PICK d \in Conns :
          \/ /\ UNCHANGED <<state, connectionsMap>>
             /\ \A k \in Loops : Bound(k)' = Bound(k) /\ NotBegun(k)' = NotBegun(k)
          \/ \E m \in Loops, fn \in {"HandleCloseInLoop", "ConnectionDestructor"} :
               /\ d = handling[l] /\ client_fd[d] \in Fds
               /\ state[d] = "Connected" /\ Mapped(d)
               /\ state' = [state EXCEPT ![d] = "Disconected"]
               /\ \A k \in Loops \ {m} : Bound(k)' = Bound(k) /\ NotBegun(k)' = NotBegun(k)
               /\ Bound(m)' = Bound(m) \cup {Bind(fn, d)}
               /\ NotBegun(m)' = NotBegun(m) \cup {Bind(fn, d)}
               /\ \/ /\ fn = "ConnectionDestructor" /\ m = event_loop[d]
                     /\ connectionsMap' = [connectionsMap EXCEPT ![client_fd[d]] = NoConn]
                  \/ /\ fn = "HandleCloseInLoop" /\ m = main_reactor
                     /\ connectionsMap' = connectionsMap
    BY <1>2, CallbackQueues
  <2>3. CASE UNCHANGED <<state, connectionsMap>>
             /\ \A k \in Loops : NotBegun(k)' = NotBegun(k)
    BY <1>1, <2>1, <2>3 DEF Mapped
  <2>4. ASSUME NEW m \in Loops, NEW fn \in {"HandleCloseInLoop", "ConnectionDestructor"},
               client_fd[d] \in Fds, Mapped(d),
               state' = [state EXCEPT ![d] = "Disconected"],
               \A k \in Loops : NotBegun(k) \subseteq NotBegun(k)',
               NotBegun(m)' = NotBegun(m) \cup {Bind(fn, d)},
               \/ /\ fn = "ConnectionDestructor"
                  /\ connectionsMap' = [connectionsMap EXCEPT ![client_fd[d]] = NoConn]
               \/ /\ fn = "HandleCloseInLoop" /\ m = main_reactor
                  /\ connectionsMap' = connectionsMap
        PROVE  g \in NotBegun(main_reactor)'
    <3>1. CASE c = d
      <4>1. fn # "ConnectionDestructor"
        BY <2>1, <2>4, <3>1, EraseOne
      <4>. QED  BY <2>4, <3>1, <4>1
    <3>2. CASE c # d
      <4>1. state[c] = "Disconected"  BY <2>4, <3>2 DEF Inv, TypeOK
      <4>2. Mapped(c)
        <5>1. CASE connectionsMap' = [connectionsMap EXCEPT ![client_fd[d]] = NoConn]
          BY <1>0, <2>1, <2>4, <4>1, <5>1, EraseOne
        <5>2. CASE connectionsMap' = connectionsMap  BY <2>1, <5>2 DEF Mapped
        <5>. QED  BY <2>4, <5>1, <5>2
      <4>. QED  BY <1>1, <2>4, <4>1, <4>2
    <3>. QED  BY <3>1, <3>2
  <2>. QED  BY <2>2, <2>3, <2>4
<1>3. ASSUME NEW l \in Loops, RunFunc(l)
      PROVE  g \in NotBegun(main_reactor)'
  <2>1. UNCHANGED <<client_fd, state>>  BY <1>3, RunFuncCases
  <2>2. PICK d \in Conns :
          /\ client_fd[d] \in Fds
          /\ \/ /\ Mapped(d)
                /\ connectionsMap' = [connectionsMap EXCEPT ![client_fd[d]] = NoConn]
                /\ \A k \in Loops :
                     NotBegun(k) \subseteq NotBegun(k)' \cup {Bind("HandleCloseInLoop", d)}
             \/ /\ connectionsMap' = connectionsMap
                /\ \A k \in Loops :
                     NotBegun(k) \subseteq NotBegun(k)' \cup {Bind("ConnectionDestructor", d)}
    BY <1>3, RunFuncQueues
  <2>3. CASE /\ Mapped(d)
             /\ connectionsMap' = [connectionsMap EXCEPT ![client_fd[d]] = NoConn]
             /\ \A k \in Loops :
                  NotBegun(k) \subseteq NotBegun(k)' \cup {Bind("HandleCloseInLoop", d)}
    <3>1. Mapped(c) /\ c # d  BY <1>0, <2>1, <2>2, <2>3, EraseOne
    <3>2. g # Bind("HandleCloseInLoop", d)  BY <3>1, BindInjective
    <3>. QED  BY <1>1, <2>1, <2>3, <3>1, <3>2
  <2>4. CASE /\ connectionsMap' = connectionsMap
             /\ \A k \in Loops :
                  NotBegun(k) \subseteq NotBegun(k)' \cup {Bind("ConnectionDestructor", d)}
    <3>1. Mapped(c)  BY <2>1, <2>4 DEF Mapped
    <3>2. g # Bind("ConnectionDestructor", d)  BY BindInjective
    <3>. QED  BY <1>1, <2>1, <2>4, <3>1, <3>2
  <2>. QED  BY <2>2, <2>3, <2>4
<1>4. ASSUME \A l \in Loops : ~ReadCallback(l) /\ ~WriteCallback(l) /\ ~RunFunc(l)
      PROVE  g \in NotBegun(main_reactor)'
  <2>1. \A k \in Loops : NotBegun(k)' = NotBegun(k)  BY <1>4, OtherQueues
  <2>2. state[c] = "Disconected" /\ Mapped(c)
    <3>1. CASE Accept
      <4>1. PICK d \in Conns :
              /\ state[d] = "uninitialized"
              /\ \A e \in Conns \ {d} : client_fd'[e] = client_fd[e]
        BY <3>1, AcceptedIsNew
      <4>2. UNCHANGED <<state, connectionsMap>>  BY <3>1 DEF Accept
      <4>. QED  BY <4>1, <4>2 DEF Mapped
    <3>2. CASE Establish
      <4>1. PICK d \in Conns :
              /\ client_fd[d] \in Fds /\ client_fd' = client_fd
              /\ connectionsMap' = [connectionsMap EXCEPT ![client_fd[d]] = d]
              /\ state' = [state EXCEPT ![d] = "Connected"]
        BY <3>2, EstablishedIsNew
      <4>2. c # d /\ state[c] = "Disconected"  BY <4>1 DEF Inv, TypeOK
      <4>. QED  BY <1>0, <4>1, <4>2 DEF Mapped, Inv, TypeOK
    <3>3. CASE UNCHANGED <<state, connectionsMap, client_fd, event_loop>>
      BY <3>3 DEF Mapped
    <3>. QED  BY <1>4, <3>1, <3>2, <3>3, WhoChangesState
  <2>. QED  BY <1>1, <2>1, <2>2
<1>. QED  BY <1>2, <1>3, <1>4

-----------------------------------------------------------------------------
LEMMA RestInvariance == ASSUME StrayTids = {} PROVE Spec => []RestInv
<1>1. ASSUME Init  PROVE RestInv
  <2>1. /\ \A c \in Conns : state[c] = "uninitialized"
        /\ \A l \in Loops : handling[l] = NoConn /\ spent[l] = {}
    BY <1>1 DEF Init, LoopInit
  <2>2. EdgeInv /\ InterestInv /\ ClosingInv
    BY <2>1 DEF EdgeInv, InterestInv, ClosingInv, Watched
  <2>3. HandlerInv /\ SpentInv
    BY <2>1, ServerAssumption DEF HandlerInv, SpentInv
  <2>. QED  BY <2>2, <2>3 DEF RestInv
<1>2. Inv /\ RestInv /\ [Next]_vars => RestInv'
  BY StepOrKilled, NextEdge, NextInterest, NextErase, NextHandler,
     NextSpent DEF Inv, RestInv
<1>. QED  BY <1>1, <1>2, Invariance, PTL DEF Spec

(* A loop that sleeps with no wake-up on its way has nothing left to run.  *)
LEMMA AsleepEmpty ==
  ASSUME Inv, SpentInv, NEW l \in Loops, Asleep(l)
  PROVE  Bound(l) = {} /\ NotBegun(l) = {} /\ handling[l] = NoConn /\ ready[l] = {}
<1>1. to_do_list[l] = <<>> /\ funcs[l] = <<>>
  BY DEF Inv, LoopInv, AnnouncedInv, Announced, ControlInv, Asleep
<1>2. spent[l] = {}  BY DEF SpentInv, Asleep
<1>3. handling[l] = NoConn /\ ready[l] = {}
  BY DEF Inv, LifeInv, ThreadInv, Asleep
<1>4. Rest(l) = <<>>  BY <1>1 DEF Rest, Asleep
<1>. QED  BY <1>1, <1>2, <1>3, <1>4, ElementsEmpty DEF Bound, NotBegun

(* And a closed connection that nobody carries on is destroyed.            *)
LEMMA ClosedIsDestroyed ==
  ASSUME Inv, RestInv, NEW c \in Conns, Constructed(c), state[c] = "Disconected",
         Asleep(event_loop[c]), Asleep(main_reactor)
  PROVE  Destroyed(c)
<1> USE ServerAssumption DEF Inv, LifeInv, RestInv
<1>1. PICK m \in Loops : m = event_loop[c]  BY ConstructedHasLoop
<1>2. /\ Bound(m) = {} /\ handling[m] = NoConn
      /\ Bound(main_reactor) = {} /\ NotBegun(main_reactor) = {}
      /\ handling[main_reactor] = NoConn
  BY <1>1, AsleepEmpty
<1>3. ~Mapped(c)  BY <1>2 DEF ClosingInv
<1>4. \A fd \in Fds : connectionsMap[fd] # c  BY <1>3 DEF MapInv, Mapped
<1>5. \A l \in Loops : handling[l] # c  BY <1>1, <1>2 DEF HandlerInv
<1>6. ASSUME NEW l \in Loops, NEW f \in Bound(l), f.conn = c  PROVE FALSE
  <2>1. f \in Tasks
    <3>1. to_do_list[l] \in Seq(Tasks) /\ funcs[l] \in Seq(Tasks)  BY QueueTypes
    <3>2. Elements(to_do_list[l]) \subseteq Tasks /\ Elements(funcs[l]) \subseteq Tasks
      BY <3>1, LenProperties, ElementOfSeq DEF Elements
    <3>3. spent[l] \subseteq Tasks  BY DEF LoopInv, LoopTypeOK
    <3>. QED  BY <3>2, <3>3, <1>6 DEF Bound
  <2>2. f = Bind("HandleCloseInLoop", c) \/ f = Bind("ConnectionDestructor", c)
    BY <1>6, <2>1, BindTyped
  <2>3. l = main_reactor \/ l = m  BY <1>1, <2>2 DEF QueueInv
  <2>. QED  BY <1>2, <2>3
<1>. QED  BY <1>4, <1>5, <1>6 DEF Destroyed, Held

(***************************************************************************)
(* Nothing is forgotten (server.cpp:54-67, connection.cpp:275,             *)
(* epoller.cpp:55): with its loop and the main reactor asleep, a           *)
(* connection is destroyed, or open and watched with nothing to read that  *)
(* epoll will not report; for any number of loops, connections and         *)
(* descriptors, and however many events one epoll_wait reports.            *)
(***************************************************************************)
THEOREM ServerForgetsNothing ==
  ASSUME StrayTids = {} PROVE Spec => []NothingForgotten
<1>1. Inv /\ RestInv => NothingForgotten
  <2> SUFFICES ASSUME Inv, RestInv, NEW c \in Conns, Constructed(c),
                      Asleep(event_loop[c]), Asleep(main_reactor)
               PROVE  \/ Destroyed(c)
                      \/ /\ state[c] = "Connected"
                         /\ IF interest[c] = "IN"
                              THEN Readable(c) => c \in Reported(event_loop[c])
                              ELSE failures > 0
    BY DEF NothingForgotten
  <2> USE ServerAssumption DEF Inv, LifeInv, RestInv
  <2>1. PICK m \in Loops : m = event_loop[c]  BY ConstructedHasLoop
  <2>2. /\ handling[m] = NoConn /\ ready[m] = {}
        /\ handling[main_reactor] = NoConn
    BY <2>1, AsleepEmpty
  <2>3. \A l \in Loops : handling[l] # c  BY <2>1, <2>2 DEF HandlerInv
  <2>4. CASE state[c] = "uninitialized"  BY <2>3, <2>4 DEF StateInv
  <2>5. CASE state[c] = "Connected" /\ interest[c] = "IN"
    <3>1. ASSUME Readable(c)  PROVE c \in Reported(event_loop[c])
      <4>1. c \in edges
        <5>1. \A l \in Loops : c \in ready[l] => l = m
          BY <2>1 DEF ThreadInv
        <5>. QED  BY <2>2, <2>3, <2>5, <3>1, <5>1 DEF EdgeInv, Watched
      <4>. QED  BY <2>5, <3>1, <4>1 DEF Reported, Edges
    <3>. QED  BY <2>5, <3>1
  <2>6. CASE state[c] = "Connected" /\ interest[c] # "IN"
    BY <2>3, <2>6 DEF InterestInv, Establishing
  <2>7. CASE state[c] = "Disconected"  BY <2>7, ClosedIsDestroyed
  <2>. QED  BY <2>4, <2>5, <2>6, <2>7 DEF TypeOK
<1>. QED  BY <1>1, Invariance, RestInvariance, PTL
-----------------------------------------------------------------------------
(***************************************************************************)
(* The composition of the server from its loops: however its threads       *)
(* interleave, a function is handed to a loop only by a thread inside a    *)
(* callback or another function, and only while no loop has it in a queue  *)
(* or a batch; all else that happens to a loop are its own steps.  So what *)
(* is shown of LoopTasks, in which any such call may be made, is true of   *)
(* the loops of the server (server.cpp:54-67, eventloop.cpp:48-87).        *)
(***************************************************************************)
THEOREM ServerUsesEventLoop == ASSUME StrayTids = {} PROVE Spec => UsesEventLoop
<1> DEFINE Own == \E l \in Loops : LoopSteps(l)
         Calls == \E t, l \in Loops, f \in Functions : HandsOver(t, l, f)
<1>1. ASSUME Inv, NEW l \in Loops, ReadCallback(l) \/ WriteCallback(l)
      PROVE  Calls \/ UNCHANGED loopVars
  <2>1. PICK c \in Conns :
          /\ event_loop[c] \in Loops /\ pc[l] = "HandleEvent" /\ queueing[l] = NoLoop
          /\ \/ UNCHANGED loopVars
             \/ /\ state[c] = "Connected"
                /\ \/ QueueOneFunc(l, event_loop[c], Bind("ConnectionDestructor", c))
                   \/ QueueOneFunc(l, main_reactor, Bind("HandleCloseInLoop", c))
    BY <1>1, CallbackCases
  <2>2. InUserCode(l)  BY <2>1 DEF InUserCode, At
  <2>3. /\ Bind("ConnectionDestructor", c) \in Functions
        /\ Bind("HandleCloseInLoop", c) \in Functions
    BY BindTyped, ServerAssumption
  <2>4. state[c] = "Connected" =>
          \A k \in Loops : /\ Bind("ConnectionDestructor", c) \notin Bound(k)
                           /\ Bind("HandleCloseInLoop", c) \notin Bound(k)
    BY <1>1, CloseIsNew
  <2>. QED  BY <2>1, <2>2, <2>3, <2>4, ServerAssumption DEF HandsOver
<1>2. ASSUME Inv, NEW l \in Loops, RunFunc(l)
      PROVE  Calls \/ UNCHANGED loopVars
  <2>1. PICK c \in Conns :
          /\ event_loop[c] \in Loops /\ pc[l] = "Calling" /\ queueing[l] = NoLoop
          /\ funcs[l] # <<>>
          /\ \/ UNCHANGED loopVars
             \/ Mapped(c) /\ QueueOneFunc(l, event_loop[c], Bind("ConnectionDestructor", c))
    BY <1>2, RunFuncCases
  <2>2. InUserCode(l)  BY <2>1 DEF InUserCode, At
  <2>3. Bind("ConnectionDestructor", c) \in Functions
    BY BindTyped, ServerAssumption
  <2>4. Mapped(c) => \A k \in Loops : Bind("ConnectionDestructor", c) \notin Bound(k)
    BY <1>2, CloseIsNew
  <2>. QED  BY <2>1, <2>2, <2>3, <2>4 DEF HandsOver
<1>3. ASSUME NEW l \in Loops, EpollWait(l) \/ LoopStep(l) \/ EndFunc(l)
      PROVE  Own
  BY <1>3 DEF EpollWait, LoopStep, EndFunc, LoopSteps
<1>4. ASSUME NEW l \in Loops,
             EndCallback(l) \/ \E c \in Conns : HandleEventIgnored(l, c) \/ HandleEvent(l, c)
      PROVE  UNCHANGED loopVars
  BY <1>4 DEF EndCallback, HandleEventIgnored, HandleEvent
<1>5. ASSUME MainStep  PROVE UNCHANGED loopVars
  BY <1>5 DEF MainStep, AcceptFails, Accept, Establish, EnableRead
<1>6. ASSUME NEW c \in Conns, Client(c)  PROVE UNCHANGED loopVars
  BY <1>6 DEF Client
<1>7. ASSUME UNCHANGED serverVars  PROVE UNCHANGED loopVars
  BY <1>7 DEF serverVars
<1> HIDE DEF Own, Calls
<1>8. ASSUME Inv, [ServerStep]_serverVars
      PROVE Own \/ Calls \/ UNCHANGED loopVars
  BY <1>8, <1>1, <1>2, <1>3, <1>4, <1>5, <1>6, <1>7 DEF ServerStep, ThreadStep
<1>9. Inv /\ [Next]_vars =>
        [\/ \E l \in Loops : LoopSteps(l)
         \/ \E t, l \in Loops, f \in Functions : HandsOver(t, l, f)]_loopVars
  BY <1>8, StepOrKilled DEF Inv, Own, Calls
<1>. QED  BY <1>9, Invariance, PTL DEF Spec, UsesEventLoop

=============================================================================
