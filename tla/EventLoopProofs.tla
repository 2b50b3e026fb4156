--------------------------- MODULE EventLoopProofs ---------------------------
(***************************************************************************)
(* Every step of a loop preserves LoopInv, and LoopInv implies the two     *)
(* properties of the wake-up protocol.  The lemmas are about the actions   *)
(* of EventLoop alone, so that any module that composes those actions can  *)
(* cite them.                                                              *)
(***************************************************************************)
EXTENDS EventLoop, SequenceTheorems, TLAPS

(* The loops start in LoopInv when no foreign id can be found in tid_.     *)
LEMMA LoopInitInv == ASSUME StrayTids = {}, LoopInit PROVE LoopInv
<1> USE LoopsAssumption DEF LoopInit
<1>1. LoopTypeOK  BY DEF LoopTypeOK, PcValues
<1>2. NoForeignTid  BY DEF NoForeignTid
<1>3. ControlInv  BY DEF ControlInv
<1>4. AnnouncedInv  BY DEF AnnouncedInv
<1>. QED  BY <1>1, <1>2, <1>3, <1>4 DEF LoopInv

(* Appending to the list of one loop, in the list of every loop.           *)
LEMMA AppendTyped ==
  ASSUME NEW q \in [Loops -> Seq(Tasks)], NEW l \in Loops, NEW task \in Tasks
  PROVE  [q EXCEPT ![l] = Append(@, task)] \in [Loops -> Seq(Tasks)]
OBVIOUS

LEMMA QueueOneFuncInv ==
  ASSUME LoopInv, NEW t \in Loops, NEW l \in Loops, NEW task \in Tasks,
         InUserCode(t), QueueOneFunc(t, l, task)
  PROVE  LoopInv'
<1> USE LoopsAssumption DEF LoopInv, LoopTypeOK, QueueOneFunc
<1>1. LoopTypeOK'  BY AppendTyped DEF PcValues
<1>2. NoForeignTid'  BY DEF NoForeignTid
<1>3. ControlInv'  BY DEF ControlInv, InUserCode, At
<1>4. AnnouncedInv'
  <2> SUFFICES ASSUME NEW k \in Loops, to_do_list'[k] # <<>>
               PROVE  Announced(k)'
    BY DEF AnnouncedInv
  <2>1. CASE k = l  BY <2>1 DEF Announced
  <2>2. CASE k # l  BY <2>2 DEF AnnouncedInv, Announced
  <2>. QED  BY <2>1, <2>2
<1>. QED  BY <1>1, <1>2, <1>3, <1>4

(* The write that a call owes is made: Announced survives its end.         *)
LEMMA NotifyInv ==
  ASSUME LoopInv, NEW t \in Loops, Notify(t)
  PROVE  LoopInv'
<1> USE LoopsAssumption DEF LoopInv, LoopTypeOK, Notify
<1> DEFINE l == queueing[t]
<1>0. l \in Loops  OBVIOUS
<1>1. LoopTypeOK'  BY <1>0 DEF MustNotify, IsInLoopThread
<1>2. NoForeignTid'  BY DEF NoForeignTid
<1>3. ControlInv'  BY <1>0 DEF ControlInv
<1>4. AnnouncedInv'
  <2> SUFFICES ASSUME NEW k \in Loops, to_do_list'[k] # <<>>
               PROVE  Announced(k)'
    BY DEF AnnouncedInv
  <2>1. CASE k # l  BY <2>1, <1>0 DEF AnnouncedInv, Announced
  <2>2. CASE k = l /\ MustNotify(t, l)  BY <2>2, <1>0 DEF Announced
  <2>3. CASE k = l /\ ~MustNotify(t, l)
    <3>1. t = l /\ ~calling_funcs[l]
      BY <2>3, <1>0 DEF MustNotify, IsInLoopThread, NoForeignTid
    <3>2. pc[l] = "HandleEvent"
      BY <3>1, <1>0 DEF ControlInv, PcValues
    <3>. QED  BY <3>2, <2>3 DEF Announced
  <2>. QED  BY <2>1, <2>2, <2>3
<1>. QED  BY <1>1, <1>2, <1>3, <1>4

LEMMA EpollInv ==
  ASSUME LoopInv, NEW l \in Loops, NEW reported \in BOOLEAN, Epoll(l, reported)
  PROVE  LoopInv'
<1> USE LoopsAssumption DEF LoopInv, LoopTypeOK, Epoll, At
<1>1. LoopTypeOK'  BY DEF PcValues
<1>2. NoForeignTid'  BY DEF NoForeignTid
<1>3. ControlInv'  BY DEF ControlInv
<1>4. AnnouncedInv'  BY DEF AnnouncedInv, Announced
<1>. QED  BY <1>1, <1>2, <1>3, <1>4

LEMMA HandleReadInv ==
  ASSUME LoopInv, NEW l \in Loops, HandleRead(l)
  PROVE  LoopInv'
<1> USE LoopsAssumption DEF LoopInv, LoopTypeOK, HandleRead, At
<1>1. LoopTypeOK'  OBVIOUS
<1>2. NoForeignTid'  BY DEF NoForeignTid
<1>3. ControlInv'  BY DEF ControlInv
<1>4. AnnouncedInv'  BY DEF AnnouncedInv, Announced
<1>. QED  BY <1>1, <1>2, <1>3, <1>4

LEMMA EnterToDoListInv ==
  ASSUME LoopInv, NEW l \in Loops, EnterToDoList(l)
  PROVE  LoopInv'
<1> USE LoopsAssumption DEF LoopInv, LoopTypeOK, EnterToDoList, At
<1>1. LoopTypeOK'  BY DEF PcValues
<1>2. NoForeignTid'  BY DEF NoForeignTid
<1>3. ControlInv'  BY DEF ControlInv
<1>4. AnnouncedInv'  BY DEF AnnouncedInv, Announced
<1>. QED  BY <1>1, <1>2, <1>3, <1>4

LEMMA SwapToDoListInv ==
  ASSUME LoopInv, NEW l \in Loops, SwapToDoList(l)
  PROVE  LoopInv'
<1> USE LoopsAssumption DEF LoopInv, LoopTypeOK, SwapToDoList, At
<1>1. LoopTypeOK'  BY DEF PcValues
<1>2. NoForeignTid'  BY DEF NoForeignTid
<1>3. ControlInv'  BY DEF ControlInv
<1>4. AnnouncedInv'  BY DEF AnnouncedInv, Announced
<1>. QED  BY <1>1, <1>2, <1>3, <1>4

LEMMA FinishFuncInv ==
  ASSUME LoopInv, NEW l \in Loops, FinishFunc(l)
  PROVE  LoopInv'
<1> USE LoopsAssumption DEF LoopInv, LoopTypeOK, FinishFunc, At
<1>1. LoopTypeOK'
  <2>1. Head(funcs[l]) \in Tasks /\ Tail(funcs[l]) \in Seq(Tasks)
    BY HeadTailProperties
  <2>. QED  BY <2>1 DEF PcValues
<1>2. NoForeignTid'  BY DEF NoForeignTid
<1>3. ControlInv'  BY DEF ControlInv
<1>4. AnnouncedInv'  BY DEF AnnouncedInv, Announced
<1>. QED  BY <1>1, <1>2, <1>3, <1>4

LEMMA LeaveToDoListInv ==
  ASSUME LoopInv, NEW l \in Loops, LeaveToDoList(l)
  PROVE  LoopInv'
<1> USE LoopsAssumption DEF LoopInv, LoopTypeOK, LeaveToDoList, At
<1>1. LoopTypeOK'  BY DEF PcValues
<1>2. NoForeignTid'  BY DEF NoForeignTid
<1>3. ControlInv'  BY DEF ControlInv
<1>4. AnnouncedInv'  BY DEF AnnouncedInv, Announced
<1>. QED  BY <1>1, <1>2, <1>3, <1>4

LEMMA LoopStutterInv == LoopInv /\ UNCHANGED loopVars => LoopInv'
<1> SUFFICES ASSUME LoopInv, UNCHANGED loopVars  PROVE LoopInv'
  OBVIOUS
<1> USE DEF LoopInv, loopVars
<1>1. LoopTypeOK'  BY DEF LoopTypeOK
<1>2. NoForeignTid'  BY DEF NoForeignTid
<1>3. ControlInv'  BY DEF ControlInv
<1>4. AnnouncedInv'  BY DEF AnnouncedInv, Announced
<1>. QED  BY <1>1, <1>2, <1>3, <1>4

-----------------------------------------------------------------------------
(* LoopInv is strong enough: no wake-up is lost, and the read succeeds.    *)
LEMMA LoopInvImplies == LoopInv => NoLostWakeup /\ WakeReadSucceeds
<1> SUFFICES ASSUME LoopInv  PROVE NoLostWakeup /\ WakeReadSucceeds
  OBVIOUS
<1> USE LoopsAssumption DEF LoopInv, LoopTypeOK
<1>1. WakeReadSucceeds  BY DEF WakeReadSucceeds, ControlInv
<1>2. NoLostWakeup
  <2> SUFFICES ASSUME NEW l \in Loops, pc[l] = "Epoll", to_do_list[l] # <<>>,
                      ~wakeup_event_fd[l]
               PROVE  \E t \in Loops : queueing[t] = l /\ MustNotify(t, l)
    BY DEF NoLostWakeup
  <2>1. PICK t \in Loops \ {l} : queueing[t] = l
    BY DEF AnnouncedInv, Announced, ControlInv
  <2>2. MustNotify(t, l)
    BY <2>1 DEF MustNotify, IsInLoopThread, NoForeignTid
  <2>. QED  BY <2>1, <2>2
<1>. QED  BY <1>1, <1>2
=============================================================================
