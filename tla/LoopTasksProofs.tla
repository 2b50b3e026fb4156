--------------------------- MODULE LoopTasksProofs ---------------------------
(***************************************************************************)
(* Loops with any functions, any number of loops: the wake-up protocol     *)
(* loses nothing, and the loops implement TaskQueue.                       *)
(***************************************************************************)
EXTENDS LoopTasks, EventLoopProofs

Inv == LoopInv /\ TypeOK

LEMMA InitInv == ASSUME StrayTids = {}, Init PROVE Inv
<1>1. LoopInv  BY LoopInitInv DEF Init
<1>. QED  BY <1>1 DEF Init, Inv, TypeOK, LoopInv

(* What has run stays well typed when one more function has run.           *)
LEMMA RanTyped ==
  ASSUME TypeOK, NEW t \in Loops, NEW l \in Loops, NEW task \in Tasks,
         Ran(t, l, task)
  PROVE  done' \in [Loops -> Seq(Tasks \X Loops)]
<1>1. Append(done[l], <<task, t>>) \in Seq(Tasks \X Loops)  BY DEF TypeOK
<1>. QED  BY <1>1 DEF Ran, TypeOK

LEMMA NextInv == Inv /\ [Next]_vars => Inv'
<1> SUFFICES ASSUME Inv, [Next]_vars  PROVE Inv'
  OBVIOUS
<1>0. LoopInv /\ TypeOK  BY DEF Inv
<1> USE <1>0
<1> SUFFICES LoopInv' /\ posted' \subseteq Tasks
             /\ done' \in [Loops -> Seq(Tasks \X Loops)]
  BY DEF Inv, TypeOK, LoopInv
<1>1. ASSUME NEW l \in Loops, LoopStep(l)
      PROVE  LoopInv' /\ UNCHANGED <<posted, done>>
  BY <1>1, EpollInv, HandleReadInv, EnterToDoListInv, SwapToDoListInv,
     LeaveToDoListInv, NotifyInv DEF LoopStep
<1>2. ASSUME NEW l \in Loops, RunFunc(l)
      PROVE  LoopInv' /\ posted' = posted
             /\ done' \in [Loops -> Seq(Tasks \X Loops)]
  <2>1. FinishFunc(l) /\ Ran(l, l, Head(funcs[l])) /\ posted' = posted
    BY <1>2 DEF RunFunc
  <2>2. Head(funcs[l]) \in Tasks
    BY <2>1, HeadTailProperties DEF FinishFunc, TypeOK, LoopTypeOK
  <2>. QED  BY <2>1, <2>2, FinishFuncInv, RanTyped
<1>3. ASSUME NEW t \in Loops, NEW l \in Loops, NEW task \in Tasks,
             CallQueueOneFunc(t, l, task)
      PROVE  LoopInv' /\ posted' \subseteq Tasks /\ done' = done
  BY <1>3, QueueOneFuncInv DEF CallQueueOneFunc, TypeOK
<1>4. ASSUME NEW t \in Loops, NEW l \in Loops, NEW task \in Tasks,
             CallRunOneFunc(t, l, task)
      PROVE  LoopInv' /\ posted' \subseteq Tasks
             /\ done' \in [Loops -> Seq(Tasks \X Loops)]
  <2>1. posted' \subseteq Tasks  BY <1>4 DEF CallRunOneFunc, TypeOK
  <2>2. CASE Ran(t, l, task) /\ UNCHANGED loopVars
    BY <2>1, <2>2, RanTyped, LoopStutterInv
  <2>3. CASE QueueOneFunc(t, l, task) /\ UNCHANGED done
    BY <2>1, <2>3, <1>4, QueueOneFuncInv DEF CallRunOneFunc, TypeOK
  <2>. QED  BY <1>4, <2>2, <2>3 DEF CallRunOneFunc
<1>5. CASE UNCHANGED vars
  BY <1>5, LoopStutterInv DEF vars, TypeOK
<1>. QED
  BY <1>1, <1>2, <1>3, <1>4, <1>5 DEF Next, TypeOK

LEMMA Invariance == ASSUME StrayTids = {} PROVE Spec => []Inv
<1>1. Init => Inv  BY InitInv
<1>. QED  BY <1>1, NextInv, PTL DEF Spec

-----------------------------------------------------------------------------
(***************************************************************************)
(* The members of the loops keep their types (eventloop.h:38-47), for any  *)
(* number of loops and functions.                                          *)
(***************************************************************************)
THEOREM TypeCorrect == ASSUME StrayTids = {} PROVE Spec => []TypeOK
<1>1. Inv => TypeOK  BY DEF Inv
<1>. QED  BY <1>1, Invariance, PTL

(***************************************************************************)
(* No wake-up is lost (eventloop.cpp:75-104): no thread sleeps on a        *)
(* non-empty queue unless the write that wakes it is done or on its way.   *)
(***************************************************************************)
THEOREM WakeupsKept == ASSUME StrayTids = {} PROVE Spec => []NoLostWakeup
<1>1. Inv => NoLostWakeup  BY LoopInvImplies DEF Inv
<1>. QED  BY <1>1, Invariance, PTL

(* The assertion of eventloop.cpp:110 never fails.                         *)
THEOREM WakeReads == ASSUME StrayTids = {} PROVE Spec => []WakeReadSucceeds
<1>1. Inv => WakeReadSucceeds  BY LoopInvImplies DEF Inv
<1>. QED  BY <1>1, Invariance, PTL

-----------------------------------------------------------------------------
(* The queue seen from outside, and how the two halves of it join.         *)
Pending == [l \in Loops |-> funcs[l] \o to_do_list[l]]

LEMMA AppendBehind ==
  ASSUME NEW s \in Seq(Tasks), NEW u \in Seq(Tasks), NEW e \in Tasks
  PROVE  s \o Append(u, e) = Append(s \o u, e)
OBVIOUS

LEMMA TakeFront ==
  ASSUME NEW s \in Seq(Tasks), NEW u \in Seq(Tasks), s # <<>>
  PROVE  /\ s \o u # <<>>
         /\ Head(s \o u) = Head(s)
         /\ Tail(s \o u) = Tail(s) \o u
OBVIOUS

LEMMA NothingInFront ==
  ASSUME NEW u \in Seq(Tasks) PROVE <<>> \o u = u /\ u \o <<>> = u
OBVIOUS

(* Every step of the loops is a step of TaskQueue, or leaves it alone.     *)
LEMMA StepRefines == Inv /\ [Next]_vars => [Queue!Next]_(Queue!vars)
<1> SUFFICES ASSUME Inv, [Next]_vars
             PROVE  Queue!Next \/ (Pending' = Pending /\ done' = done)
  BY DEF Queue!vars, Pending
<1> USE DEF Inv, TypeOK, LoopTypeOK
<1>1. ASSUME NEW l \in Loops, LoopStep(l)
      PROVE  Pending' = Pending /\ done' = done
  <2>1. CASE SwapToDoList(l)
    <3>1. funcs[l] = <<>>
      BY <2>1 DEF SwapToDoList, At, LoopInv, ControlInv
    <3>2. Pending'[l] = Pending[l]
      BY <2>1, <3>1, NothingInFront DEF SwapToDoList, Pending
    <3>3. \A k \in Loops \ {l} : Pending'[k] = Pending[k]
      BY <2>1 DEF SwapToDoList, Pending
    <3>. QED  BY <1>1, <3>2, <3>3 DEF LoopStep, Pending
  <2>2. CASE ~SwapToDoList(l)
    BY <1>1, <2>2 DEF LoopStep, Epoll, HandleRead, EnterToDoList,
                      LeaveToDoList, Notify, Pending
  <2>. QED  BY <2>1, <2>2
<1>2. ASSUME NEW l \in Loops, RunFunc(l)
      PROVE  Queue!RunHead(l)
  <2>1. FinishFunc(l) /\ Ran(l, l, Head(funcs[l])) /\ funcs[l] # <<>>
    BY <1>2 DEF RunFunc, FinishFunc
  <2>2. /\ Pending[l] # <<>>
        /\ Head(Pending[l]) = Head(funcs[l])
        /\ Tail(Pending[l]) = Tail(funcs[l]) \o to_do_list[l]
    BY <2>1, TakeFront DEF Pending
  <2>3. Pending' = [Pending EXCEPT ![l] = Tail(@)]
    BY <2>1, <2>2 DEF FinishFunc, Pending
  <2>. QED  BY <2>1, <2>2, <2>3 DEF Queue!RunHead, Ran, Pending
<1>3. ASSUME NEW t \in Loops, NEW l \in Loops, NEW task \in Tasks,
             QueueOneFunc(t, l, task), UNCHANGED done
      PROVE  Queue!Post(l, task)
  <2>1. funcs[l] \in Seq(Tasks) /\ to_do_list[l] \in Seq(Tasks)
    OBVIOUS
  <2>2. funcs[l] \o Append(to_do_list[l], task) = Append(Pending[l], task)
    BY <2>1, AppendBehind DEF Pending
  <2>3. to_do_list' = [to_do_list EXCEPT ![l] = Append(@, task)] /\ funcs' = funcs
    BY <1>3 DEF QueueOneFunc
  <2>4. to_do_list'[l] = Append(to_do_list[l], task)
    BY <2>3
  <2>5. Pending' = [Pending EXCEPT ![l] = Append(@, task)]
    BY <2>2, <2>3, <2>4 DEF Pending
  <2>. QED  BY <2>5, <1>3 DEF Queue!Post, Pending
<1>4. ASSUME NEW t \in Loops, NEW l \in Loops, NEW task \in Tasks,
             CallRunOneFunc(t, l, task)
      PROVE  Queue!Post(l, task) \/ Queue!RunAtOnce(l, task)
  <2>1. CASE IsInLoopThread(t, l) /\ Ran(t, l, task) /\ UNCHANGED loopVars
    <3>1. t = l
      BY <2>1, LoopsAssumption DEF IsInLoopThread, LoopInv, NoForeignTid
    <3>. QED
      BY <2>1, <3>1 DEF loopVars, Ran, Queue!RunAtOnce
  <2>2. CASE QueueOneFunc(t, l, task) /\ UNCHANGED done
    BY <2>2, <1>3
  <2>. QED  BY <1>4, <2>1, <2>2 DEF CallRunOneFunc
<1>5. CASE UNCHANGED vars
  BY <1>5 DEF vars, loopVars, Pending
<1>6. CASE \E l \in Loops : LoopStep(l) \/ RunFunc(l)
  BY <1>6, <1>1, <1>2 DEF Queue!Next
<1>7. CASE \E t, l \in Loops, task \in Tasks \ posted :
             CallQueueOneFunc(t, l, task) \/ CallRunOneFunc(t, l, task)
  BY <1>7, <1>3, <1>4 DEF Queue!Next, CallQueueOneFunc
<1>. QED  BY <1>5, <1>6, <1>7 DEF Next

(***************************************************************************)
(* The loops implement the safety part of TaskQueue (eventloop.h:28-33):   *)
(* functions run exactly once, in the order handed over, on the thread of  *)
(* their loop, for any number of loops and functions.                      *)
(***************************************************************************)
THEOREM LoopsImplementTaskQueue == ASSUME StrayTids = {} PROVE Spec => QueueSafety
<1>1. Init => Queue!Init
  BY NothingInFront DEF Init, LoopInit, Queue!Init
<1>2. Spec => [][Queue!Next]_(Queue!vars)
  BY Invariance, StepRefines, PTL DEF Spec
<1>. QED  BY <1>1, <1>2, PTL DEF Spec, QueueSafety, Queue!Safety
=============================================================================
