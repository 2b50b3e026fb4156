------------------------- MODULE EventLoopThreadPool -------------------------
(***************************************************************************)
(* The start of the sub reactors and the choice among them:                *)
(* eventloopthread.cpp and eventloopthreadpool.cpp.  The main thread       *)
(* starts one thread after the other and waits, on a condition variable,   *)
(* for the loop that each constructs; then it runs its own loop and gives  *)
(* every new connection to the next sub reactor.                           *)
(*                                                                         *)
(* The i-th EventLoopThread, its thread and its loop are all called i; 0   *)
(* is the null pointer in event_loop, and the main reactor in handed.      *)
(***************************************************************************)
EXTENDS Sequences, Integers

CONSTANTS
  thread_nums,   \* from the command line: any int, none below 1 starts a thread
  MaxConns       \* bound of the model: connections accepted

ASSUME PoolAssumption == thread_nums \in Int /\ MaxConns \in Nat

Subs == 1 .. thread_nums

VARIABLES
  main,          \* where the main thread is in EventLoopThreadPool::Start
  sub_reactors,  \* how many EventLoopThreads there are
  thread,        \* [Subs -> ...]: where the thread is in ThreadRunFunc
  event_loop,    \* [Subs -> Subs \cup {0}]: the member of EventLoopThread
  event_loops,   \* the member of the pool
  next,          \* the member of the pool, counting from 0
  handed         \* [Subs \cup {0} -> Nat]: connections given to each loop

startVars == <<main, sub_reactors, thread, event_loop, event_loops>>
vars == <<startVars, next, handed>>

TypeOK ==
  /\ main \in {"create", "check", "wait", "running"}
  /\ sub_reactors \in {0} \cup Subs
  /\ thread \in [Subs -> {"none", "spawned", "constructed", "published", "looping"}]
  /\ event_loop \in [Subs -> {0} \cup Subs]
  /\ event_loops \in Seq({0} \cup Subs)
  /\ next \in Nat
  /\ next > 0 => next < sub_reactors
  /\ handed \in [{0} \cup Subs -> Nat]

Init ==
  /\ main = "create" /\ sub_reactors = 0
  /\ thread = [i \in Subs |-> "none"]
  /\ event_loop = [i \in Subs |-> 0]
  /\ event_loops = <<>>
  /\ next = 0
  /\ handed = [i \in {0} \cup Subs |-> 0]

-----------------------------------------------------------------------------
(* The main thread.                                                        *)

CreateThread ==
  /\ main = "create" /\ sub_reactors < thread_nums
  /\ sub_reactors' = sub_reactors + 1
  /\ thread' = [thread EXCEPT ![sub_reactors + 1] = "spawned"]
  /\ main' = "check"
  /\ UNCHANGED <<event_loop, event_loops, next, handed>>

PushLoop ==
  /\ event_loops' = Append(event_loops, event_loop[sub_reactors])
  /\ main' = "create"

(* The condition of the while, under the mutex; wait gives the mutex up    *)
(* and sleeps in one step.                                                 *)
CheckLoop ==
  /\ main = "check"
  /\ \/ event_loop[sub_reactors] # 0 /\ PushLoop
     \/ event_loop[sub_reactors] = 0 /\ main' = "wait" /\ UNCHANGED event_loops
  /\ UNCHANGED <<sub_reactors, thread, event_loop, next, handed>>

(* Mutant: an if in place of the while.                                    *)
WakeUnchecked ==
  /\ main = "wait"
  /\ PushLoop
  /\ UNCHANGED <<sub_reactors, thread, event_loop, next, handed>>

(* A condition variable may wake its waiter for no reason.                 *)
Wake ==
  /\ main = "wait"
  /\ main' = "check"
  /\ UNCHANGED <<sub_reactors, thread, event_loop, event_loops, next, handed>>

(* All threads are started: Server::Start runs the main reactor.           *)
FinishStart ==
  /\ main = "create" /\ sub_reactors >= thread_nums
  /\ main' = "running"
  /\ UNCHANGED <<sub_reactors, thread, event_loop, event_loops, next, handed>>

(* Mutants: the index wraps too late, or too early.                        *)
NextPositionLate == IF next = sub_reactors THEN 0 ELSE next + 1
NextPositionEarly == IF next + 2 >= sub_reactors THEN 0 ELSE next + 1

NextPosition == IF next + 1 = sub_reactors THEN 0 ELSE next + 1

NextLoop == IF sub_reactors = 0 THEN 0 ELSE event_loops[next + 1]

(* A connection is accepted by the main reactor.                           *)
NextEventLoop ==
  /\ main = "running"
  /\ handed[NextLoop] < MaxConns
  /\ handed' = [handed EXCEPT ![NextLoop] = @ + 1]
  /\ next' = IF sub_reactors = 0 THEN next ELSE NextPosition
  /\ UNCHANGED startVars

-----------------------------------------------------------------------------
(* The thread of a sub reactor: ThreadRunFunc.                             *)

Construct(i) ==
  /\ thread[i] = "spawned"
  /\ thread' = [thread EXCEPT ![i] = "constructed"]
  /\ UNCHANGED <<main, sub_reactors, event_loop, event_loops, next, handed>>

(* Mutant: nobody is notified.                                             *)
PublishSilent(i) ==
  /\ thread[i] = "constructed"
  /\ event_loop' = [event_loop EXCEPT ![i] = i]
  /\ thread' = [thread EXCEPT ![i] = "published"]
  /\ UNCHANGED <<main, sub_reactors, event_loops, next, handed>>

(* event_loop is set and the waiter notified under the mutex.              *)
Publish(i) ==
  /\ thread[i] = "constructed"
  /\ event_loop' = [event_loop EXCEPT ![i] = i]
  /\ main' = IF main = "wait" /\ sub_reactors = i THEN "check" ELSE main
  /\ thread' = [thread EXCEPT ![i] = "published"]
  /\ UNCHANGED <<sub_reactors, event_loops, next, handed>>

(* event_loop->Start(), which does not return.                             *)
RunLoop(i) ==
  /\ thread[i] = "published"
  /\ thread' = [thread EXCEPT ![i] = "looping"]
  /\ UNCHANGED <<main, sub_reactors, event_loop, event_loops, next, handed>>

MainStep == CreateThread \/ CheckLoop \/ FinishStart
ThreadRunFunc(i) == Construct(i) \/ Publish(i) \/ RunLoop(i)

Next == MainStep \/ Wake \/ NextEventLoop \/ \E i \in Subs : ThreadRunFunc(i)

(* Every thread runs; nothing wakes a waiter but the notification.         *)
Fairness == WF_vars(MainStep) /\ \A i \in Subs : WF_vars(ThreadRunFunc(i))

Spec == Init /\ [][Next]_vars
FairSpec == Spec /\ Fairness

-----------------------------------------------------------------------------
(***************************************************************************)
(* Only live loops are handed out: what the pool keeps are the loops of    *)
(* its threads, in order, each constructed before it was published and     *)
(* none null, whatever wakes the main thread (eventloopthread.cpp:27-34,   *)
(* 43-53; eventloopthreadpool.cpp:13-17).                                  *)
(***************************************************************************)
LoopsLive ==
  /\ \A i \in DOMAIN event_loops :
       event_loops[i] = i /\ thread[i] \in {"published", "looping"}
  /\ main = "running" => Len(event_loops) = sub_reactors

(***************************************************************************)
(* Connections are spread evenly: the numbers given to two sub reactors    *)
(* differ by one at most, and the main reactor keeps none if there is a    *)
(* sub reactor (eventloopthreadpool.cpp:22-32).                            *)
(***************************************************************************)
Balanced ==
  /\ \A i, j \in Subs : handed[i] <= handed[j] + 1
  /\ Subs # {} => handed[0] = 0

(***************************************************************************)
(* The pool starts: the main thread does not sleep through the             *)
(* notification of a thread that was faster (eventloopthread.cpp:27-31,    *)
(* 47-53), and comes to run its own loop.                                  *)
(***************************************************************************)
PoolStarts == <>(main = "running" /\ \A i \in Subs : thread[i] = "looping")

(***************************************************************************)
(* The safety core of PoolStarts: the main thread sleeps only while the    *)
(* notification that wakes it is still to come (eventloopthread.cpp:27-31, *)
(* 47-53).                                                                 *)
(***************************************************************************)
NotificationAhead == main = "wait" => thread[sub_reactors] \in {"spawned", "constructed"}

-----------------------------------------------------------------------------
(***************************************************************************)
(* The inductive invariant behind the safety properties: how far the start *)
(* is, and that the first next sub reactors are one connection ahead.      *)
(***************************************************************************)
StartInv ==
  /\ main \in {"create", "running"} => Len(event_loops) = sub_reactors
  /\ main \in {"check", "wait"} => Len(event_loops) + 1 = sub_reactors
  /\ main = "running" => sub_reactors >= thread_nums
  /\ \A i \in DOMAIN event_loops : event_loops[i] = i
  /\ \A i \in Subs :
       /\ thread[i] = "none" <=> i > sub_reactors
       /\ event_loop[i] \in {0, i}
       /\ event_loop[i] # 0 <=> thread[i] \in {"published", "looping"}
       /\ i <= Len(event_loops) => event_loop[i] # 0

TurnInv ==
  /\ main # "running" => next = 0
  /\ \A i, j \in Subs :
       /\ (i <= next <=> j <= next) => handed[i] = handed[j]
       /\ i <= next /\ j > next => handed[i] = handed[j] + 1
  /\ Subs # {} => handed[0] = 0

PoolInv == TypeOK /\ StartInv /\ TurnInv
=============================================================================
