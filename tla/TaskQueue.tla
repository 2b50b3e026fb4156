------------------------------ MODULE TaskQueue ------------------------------
(***************************************************************************)
(* What the task queue of an EventLoop promises its callers, seen from     *)
(* outside (eventloop.h:25-33): a function handed to a loop is run exactly *)
(* once, by the thread of that loop, after the functions handed to it      *)
(* before; a function the loop's own thread hands to its loop may be run   *)
(* at once.  Mutexes, eventfd and batches are not visible here.            *)
(***************************************************************************)
EXTENDS Sequences

CONSTANTS Loops, Tasks

VARIABLES
  pending,   \* [Loops -> Seq(Tasks)]: accepted by the loop, not run yet
  done       \* [Loops -> Seq(Tasks \X Loops)]: run, and on which thread

vars == <<pending, done>>

Init ==
  /\ pending = [l \in Loops |-> <<>>]
  /\ done = [l \in Loops |-> <<>>]

Post(l, task) ==
  /\ pending' = [pending EXCEPT ![l] = Append(@, task)]
  /\ UNCHANGED done

RunHead(l) ==
  /\ pending[l] # <<>>
  /\ done' = [done EXCEPT ![l] = Append(@, <<Head(pending[l]), l>>)]
  /\ pending' = [pending EXCEPT ![l] = Tail(@)]

RunAtOnce(l, task) ==
  /\ done' = [done EXCEPT ![l] = Append(@, <<task, l>>)]
  /\ UNCHANGED pending

Next ==
  \E l \in Loops :
    \/ RunHead(l)
    \/ \E task \in Tasks : Post(l, task) \/ RunAtOnce(l, task)

Safety == Init /\ [][Next]_vars
Spec == Safety /\ \A l \in Loops : WF_vars(RunHead(l))
=============================================================================
