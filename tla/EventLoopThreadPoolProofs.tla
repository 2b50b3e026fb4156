---------------------- MODULE EventLoopThreadPoolProofs ----------------------
(***************************************************************************)
(* What EventLoopThreadPool guarantees for every number of threads and     *)
(* connections: proofs.                                                    *)
(***************************************************************************)
EXTENDS EventLoopThreadPool, TLAPS

(* The invariant holds before the pool is started.                         *)
LEMMA InitPoolInv == Init => PoolInv
BY PoolAssumption DEF Init, PoolInv, TypeOK, StartInv, TurnInv, Subs

(***************************************************************************)
(* A connection goes to the loop whose turn it is.  With sub reactors      *)
(* there is a loop at that position, it is the one of that number, and     *)
(* every sub reactor has been started.                                     *)
(***************************************************************************)
LEMMA TurnOfNext ==
  ASSUME PoolInv, main = "running"
  PROVE  /\ NextLoop \in {0} \cup Subs
         /\ sub_reactors = 0 => Subs = {} /\ NextLoop = 0
         /\ sub_reactors # 0 => /\ sub_reactors = thread_nums
                                /\ next \in 0 .. sub_reactors - 1
                                /\ NextLoop = next + 1
<1> USE PoolAssumption DEF Subs
<1>1. /\ sub_reactors \in {0} \cup Subs /\ sub_reactors >= thread_nums
      /\ next \in Nat /\ (next > 0 => next < sub_reactors)
      /\ event_loops \in Seq({0} \cup Subs) /\ Len(event_loops) = sub_reactors
      /\ \A i \in DOMAIN event_loops : event_loops[i] = i
  BY DEF PoolInv, TypeOK, StartInv
<1>2. CASE sub_reactors = 0
  BY <1>1, <1>2 DEF NextLoop
<1>3. CASE sub_reactors # 0
  <2>1. sub_reactors = thread_nums /\ next \in 0 .. sub_reactors - 1
    BY <1>1, <1>3
  <2>2. next + 1 \in DOMAIN event_loops
    BY <1>1, <2>1
  <2>3. NextLoop = next + 1
    BY <1>1, <1>3, <2>2 DEF NextLoop
  <2> QED BY <1>3, <2>1, <2>3
<1> QED BY <1>2, <1>3

(* The invariant survives the steps that start the pool.                   *)
LEMMA StartKeepsInv ==
  ASSUME PoolInv, MainStep \/ Wake \/ \E i \in Subs : ThreadRunFunc(i)
  PROVE  PoolInv'
<1> USE PoolAssumption DEF Subs
<1>1. CASE CreateThread
  <2>1. TypeOK' /\ TurnInv'
    BY <1>1 DEF CreateThread, PoolInv, TypeOK, StartInv, TurnInv
  <2>2. StartInv'
    <3>1. /\ sub_reactors \in Nat /\ sub_reactors + 1 \in Subs
          /\ Len(event_loops) = sub_reactors /\ event_loops' = event_loops
          /\ sub_reactors' = sub_reactors + 1 /\ main' = "check"
          /\ event_loop' = event_loop
          /\ thread' = [thread EXCEPT ![sub_reactors + 1] = "spawned"]
      BY <1>1 DEF CreateThread, PoolInv, TypeOK, StartInv
    <3>2. thread[sub_reactors + 1] = "none" /\ event_loop[sub_reactors + 1] = 0
      BY <3>1 DEF PoolInv, TypeOK, StartInv
    <3>3. ASSUME NEW i \in Subs
          PROVE  /\ thread'[i] = "none" <=> i > sub_reactors'
                 /\ event_loop'[i] \in {0, i}
                 /\ event_loop'[i] # 0 <=> thread'[i] \in {"published", "looping"}
                 /\ i <= Len(event_loops') => event_loop'[i] # 0
      <4>1. CASE i = sub_reactors + 1
        BY <3>1, <3>2, <4>1 DEF PoolInv, TypeOK, StartInv
      <4>2. CASE i # sub_reactors + 1
        BY <3>1, <4>2 DEF PoolInv, TypeOK, StartInv
      <4> QED BY <4>1, <4>2
    <3> QED BY <3>1, <3>3 DEF PoolInv, StartInv
  <2> QED BY <2>1, <2>2 DEF PoolInv
<1>2. CASE CheckLoop
  <2>0. /\ sub_reactors \in Subs /\ sub_reactors = Len(event_loops) + 1
        /\ event_loops \in Seq({0} \cup Subs)
    BY <1>2 DEF CheckLoop, PoolInv, TypeOK, StartInv
  <2>1. CASE event_loop[sub_reactors] # 0 /\ PushLoop
    <3>1. event_loop[sub_reactors] = sub_reactors
      BY <2>0, <2>1 DEF PoolInv, StartInv
    <3>2. /\ event_loops' = Append(event_loops, sub_reactors)
          /\ event_loops' \in Seq({0} \cup Subs)
          /\ Len(event_loops') = sub_reactors
          /\ \A i \in DOMAIN event_loops' : event_loops'[i] = i
      BY <2>0, <2>1, <3>1 DEF PushLoop, PoolInv, StartInv
    <3>3. UNCHANGED <<sub_reactors, thread, event_loop, next, handed>> /\ main' = "create"
      BY <1>2, <2>1 DEF CheckLoop, PushLoop
    <3>4. TypeOK' /\ TurnInv'
      <4>1. TypeOK'
        BY <3>2, <3>3 DEF PoolInv, TypeOK
      <4>2. TurnInv'
        BY <1>2, <3>3 DEF CheckLoop, PoolInv, TurnInv
      <4> QED BY <4>1, <4>2
    <3>5. StartInv'
      BY <2>0, <2>1, <3>1, <3>2, <3>3 DEF PoolInv, StartInv
    <3> QED BY <3>4, <3>5 DEF PoolInv
  <2>2. CASE event_loop[sub_reactors] = 0 /\ main' = "wait" /\ UNCHANGED event_loops
    BY <1>2, <2>2 DEF CheckLoop, PoolInv, TypeOK, StartInv, TurnInv
  <2> QED BY <1>2, <2>1, <2>2 DEF CheckLoop
<1>3. CASE FinishStart
  BY <1>3 DEF FinishStart, PoolInv, TypeOK, StartInv, TurnInv
<1>4. CASE Wake
  BY <1>4 DEF Wake, PoolInv, TypeOK, StartInv, TurnInv
<1>5. ASSUME NEW i \in Subs, ThreadRunFunc(i)
      PROVE  PoolInv'
  <2>1. CASE Construct(i)
    BY <2>1 DEF Construct, PoolInv, TypeOK, StartInv, TurnInv
  <2>2. CASE Publish(i)
    <3>1. TypeOK'
      BY <2>2 DEF Publish, PoolInv, TypeOK
    <3>2. StartInv'
      BY <2>2 DEF Publish, PoolInv, TypeOK, StartInv
    <3>3. TurnInv'
      BY <2>2 DEF Publish, PoolInv, TurnInv
    <3> QED BY <3>1, <3>2, <3>3 DEF PoolInv
  <2>3. CASE RunLoop(i)
    BY <2>3 DEF RunLoop, PoolInv, TypeOK, StartInv, TurnInv
  <2> QED BY <1>5, <2>1, <2>2, <2>3 DEF ThreadRunFunc
<1> QED BY <1>1, <1>2, <1>3, <1>4, <1>5 DEF MainStep

(* The invariant survives the accepting of a connection.                   *)
LEMMA AcceptKeepsInv ==
  ASSUME PoolInv, NextEventLoop
  PROVE  PoolInv'
<1> USE PoolAssumption DEF Subs
<1>1. main = "running" /\ UNCHANGED startVars
  BY DEF NextEventLoop
<1>2. StartInv'
  BY <1>1 DEF PoolInv, StartInv, startVars
<1>3. CASE sub_reactors = 0
  <2>1. Subs = {} /\ NextLoop = 0
    BY <1>1, <1>3, TurnOfNext
  <2>2. next' = next /\ handed' = [handed EXCEPT ![0] = @ + 1]
    BY <1>3, <2>1 DEF NextEventLoop
  <2>3. TypeOK'
    BY <1>1, <2>1, <2>2 DEF PoolInv, TypeOK, startVars
  <2>4. TurnInv'
    BY <1>1, <2>1, <2>2 DEF PoolInv, TurnInv, startVars
  <2> QED BY <1>2, <2>3, <2>4 DEF PoolInv
<1>4. CASE sub_reactors # 0
  <2>1. /\ sub_reactors = thread_nums /\ sub_reactors \in Subs
        /\ next \in 0 .. sub_reactors - 1 /\ NextLoop = next + 1
    BY <1>1, <1>4, TurnOfNext DEF PoolInv, TypeOK
  <2>2. /\ next' = (IF next + 1 = sub_reactors THEN 0 ELSE next + 1)
        /\ handed' = [handed EXCEPT ![next + 1] = @ + 1]
    BY <1>4, <2>1 DEF NextEventLoop, NextPosition
  <2>3. TypeOK'
    BY <1>1, <2>1, <2>2 DEF PoolInv, TypeOK, startVars
  <2>4. TurnInv'
    <3>1. CASE next + 1 = sub_reactors
      BY <1>1, <2>1, <2>2, <3>1 DEF PoolInv, TypeOK, TurnInv, startVars
    <3>2. CASE next + 1 # sub_reactors
      BY <1>1, <2>1, <2>2, <3>2 DEF PoolInv, TypeOK, TurnInv, startVars
    <3> QED BY <3>1, <3>2
  <2> QED BY <1>2, <2>3, <2>4 DEF PoolInv
<1> QED BY <1>3, <1>4

(* The invariant holds in every reachable state.                           *)
LEMMA PoolInvariant == Spec => []PoolInv
<1>1. PoolInv /\ [Next]_vars => PoolInv'
  <2> SUFFICES ASSUME PoolInv, [Next]_vars PROVE PoolInv'
    OBVIOUS
  <2>1. CASE UNCHANGED vars
    BY <2>1 DEF vars, startVars, PoolInv, TypeOK, StartInv, TurnInv
  <2> QED BY <2>1, StartKeepsInv, AcceptKeepsInv DEF Next
<1> QED BY InitPoolInv, <1>1, PTL DEF Spec

-----------------------------------------------------------------------------
(* Every reachable state is well typed; in particular next is a position   *)
(* of event_loops (eventloopthreadpool.cpp:25-28).                         *)
THEOREM PoolTypeCorrect == Spec => []TypeOK
<1>1. PoolInv => TypeOK
  BY DEF PoolInv
<1> QED BY PoolInvariant, <1>1, PTL

(* However many threads are started, and whatever wakes the main thread,   *)
(* only live loops are handed out.                                         *)
THEOREM OnlyLiveLoops == Spec => []LoopsLive
<1>1. PoolInv => LoopsLive
  <2> SUFFICES ASSUME PoolInv PROVE LoopsLive
    OBVIOUS
  <2>1. ASSUME NEW i \in DOMAIN event_loops
        PROVE  event_loops[i] = i /\ thread[i] \in {"published", "looping"}
    <3>1. event_loops[i] = i
      BY DEF PoolInv, StartInv
    <3>2. i \in Subs /\ i <= Len(event_loops)
      BY PoolAssumption DEF PoolInv, TypeOK, StartInv, Subs
    <3> QED BY <3>1, <3>2 DEF PoolInv, StartInv
  <2>2. main = "running" => Len(event_loops) = sub_reactors
    BY DEF PoolInv, StartInv
  <2> QED BY <2>1, <2>2 DEF LoopsLive
<1> QED BY PoolInvariant, <1>1, PTL

(* No notification is missed: the thread the main thread waits for has yet *)
(* to publish its loop, and notifies when it does (eventloopthread.cpp:    *)
(* 27-31, 47-53).                                                          *)
THEOREM NoMissedNotification == Spec => []NotificationAhead
<1>1. Init => NotificationAhead  BY DEF Init, NotificationAhead
<1>2. ASSUME PoolInv, NotificationAhead, [Next]_vars  PROVE NotificationAhead'
  <2> USE PoolAssumption DEF NotificationAhead, Subs
  <2>1. CASE CheckLoop
    <3>1. sub_reactors \in Subs
      BY <1>2, <2>1 DEF CheckLoop, PoolInv, TypeOK, StartInv
    <3>2. event_loop[sub_reactors] = 0 => thread[sub_reactors] \in {"spawned", "constructed"}
      BY <1>2, <3>1 DEF PoolInv, TypeOK, StartInv, Subs
    <3> QED BY <2>1, <3>2 DEF CheckLoop, PushLoop
  <2>2. ASSUME NEW i \in Subs, ThreadRunFunc(i)
        PROVE  NotificationAhead'
    <3>1. CASE i = sub_reactors
      BY <1>2, <2>2, <3>1 DEF ThreadRunFunc, Construct, Publish, RunLoop, PoolInv, TypeOK
    <3>2. CASE i # sub_reactors
      <4>1. /\ sub_reactors' = sub_reactors /\ (main' = "wait" => main = "wait")
            /\ \E where \in {"constructed", "published", "looping"} :
                 thread' = [thread EXCEPT ![i] = where]
        BY <2>2, <3>2 DEF ThreadRunFunc, Construct, Publish, RunLoop
      <4>2. thread'[sub_reactors] = thread[sub_reactors]
        BY <3>2, <4>1, <1>2 DEF PoolInv, TypeOK
      <4> QED BY <1>2, <4>1, <4>2
    <3> QED BY <3>1, <3>2
  <2>3. CASE CreateThread \/ FinishStart \/ Wake
    BY <1>2, <2>3 DEF CreateThread, FinishStart, Wake
  <2>4. CASE NextEventLoop \/ UNCHANGED vars
    BY <1>2, <2>4 DEF NextEventLoop, startVars, vars
  <2> QED BY <1>2, <2>1, <2>2, <2>3, <2>4 DEF Next, MainStep
<1> QED BY <1>1, <1>2, PoolInvariant, PTL DEF Spec

(* However many connections come, the sub reactors share them evenly.      *)
THEOREM EvenlySpread == Spec => []Balanced
<1>1. PoolInv => Balanced
  BY PoolAssumption DEF PoolInv, TypeOK, TurnInv, Balanced, Subs
<1> QED BY PoolInvariant, <1>1, PTL
=============================================================================
