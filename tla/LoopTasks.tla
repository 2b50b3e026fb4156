------------------------------ MODULE LoopTasks ------------------------------
(***************************************************************************)
(* EventLoops whose handlers and functions hand one another arbitrary      *)
(* functions: the most general use of the task queue.  A thread calls      *)
(* RunOneFunc or QueueOneFunc of any loop while it runs the callback of a  *)
(* channel or a function of its batch.                                     *)
(***************************************************************************)
EXTENDS EventLoop

VARIABLES
  posted,   \* the functions handed over so far: bounds the model, each at most once
  done      \* [Loops -> Seq(Tasks \X Loops)]: functions run for a loop, and by whom

vars == <<loopVars, posted, done>>

TypeOK ==
  /\ LoopTypeOK
  /\ posted \subseteq Tasks
  /\ done \in [Loops -> Seq(Tasks \X Loops)]

Init ==
  /\ LoopInit
  /\ posted = {}
  /\ done = [l \in Loops |-> <<>>]

Ran(t, l, task) == done' = [done EXCEPT ![l] = Append(@, <<task, t>>)]

CallQueueOneFunc(t, l, task) ==
  /\ InUserCode(t)
  /\ QueueOneFunc(t, l, task)
  /\ posted' = posted \cup {task}
  /\ UNCHANGED done

(* RunOneFunc: run in place on the loop's own thread, queue otherwise.     *)
CallRunOneFunc(t, l, task) ==
  /\ InUserCode(t)
  /\ posted' = posted \cup {task}
  /\ \/ IsInLoopThread(t, l) /\ Ran(t, l, task) /\ UNCHANGED loopVars
     \/ ~IsInLoopThread(t, l) /\ QueueOneFunc(t, l, task) /\ UNCHANGED done

RunFunc(l) == FinishFunc(l) /\ Ran(l, l, Head(funcs[l])) /\ UNCHANGED posted

LoopStep(l) ==
  /\ \/ \E reported \in BOOLEAN : Epoll(l, reported)
     \/ HandleRead(l) \/ EnterToDoList(l) \/ SwapToDoList(l) \/ LeaveToDoList(l)
     \/ Notify(l)
  /\ UNCHANGED <<posted, done>>

Next ==
  \/ \E l \in Loops : LoopStep(l) \/ RunFunc(l)
  \/ \E t, l \in Loops, task \in Tasks \ posted :
       CallQueueOneFunc(t, l, task) \/ CallRunOneFunc(t, l, task)

(***************************************************************************)
(* A thread that can take a step takes it.  epoll_wait must return only    *)
(* when the wake-up channel is ready: nothing says other events occur.     *)
(* The kernel serves its ready list in turn, so that a channel which stays *)
(* ready is not left out for ever.                                         *)
(***************************************************************************)
Fairness ==
  \A l \in Loops :
    /\ SF_vars(Epoll(l, TRUE) /\ UNCHANGED <<posted, done>>)
    /\ WF_vars(pc[l] # "Epoll" /\ LoopStep(l))
    /\ WF_vars(RunFunc(l))

Spec == Init /\ [][Next]_vars
FairSpec == Spec /\ Fairness

-----------------------------------------------------------------------------
(***************************************************************************)
(* The loops implement TaskQueue: the queue seen from outside is the rest  *)
(* of the batch followed by to_do_list.  So every function is run exactly  *)
(* once, in the order handed over, on the thread of its loop               *)
(* (eventloop.h:28-33).                                                    *)
(***************************************************************************)
Queue == INSTANCE TaskQueue
           WITH pending <- [l \in Loops |-> funcs[l] \o to_do_list[l]]

QueueSafety == Queue!Safety

(***************************************************************************)
(* Every function handed to a loop is run eventually, though the loop may  *)
(* be about to sleep when it is handed over (eventloop.cpp:75-87).         *)
(***************************************************************************)
EveryFuncRuns == Queue!Spec

(***************************************************************************)
(* eventloop.h:31: a function given to RunOneFunc by the thread that       *)
(* created the loop is run at once.                                        *)
(***************************************************************************)
RunsAtOnceOnOwnThread ==
  [][\A l \in Loops, task \in Tasks :
       CallRunOneFunc(l, l, task) => done'[l] # done[l]]_vars

=============================================================================
