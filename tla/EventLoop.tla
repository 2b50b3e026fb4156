------------------------------ MODULE EventLoop ------------------------------
(***************************************************************************)
(* The reactor loops of eventloop.cpp.  Every EventLoop is run by one      *)
(* thread (EventLoop::Start); loop and thread share a name.  A thread      *)
(* hands a function to a loop with QueueOneFunc: it appends to to_do_list  *)
(* under the mutex, unlocks, and only then decides whether to write the    *)
(* eventfd that ends epoll_wait.  Other threads run between the two steps. *)
(*                                                                         *)
(* This module holds the mechanics only; what the functions do is said by  *)
(* the modules that extend it (LoopTasks: anything; Server: the close      *)
(* protocol of connections).                                               *)
(***************************************************************************)
EXTENDS Sequences, FiniteSets

CONSTANTS
  Loops,      \* the EventLoops, and the threads that run them
  Tasks,      \* the functions that can be queued
  NoLoop,     \* not a loop: no call in progress, or a tid_ of no thread
  StrayTids   \* ids of foreign threads the uninitialised tid_ may hold

ASSUME LoopsAssumption == NoLoop \notin Loops /\ StrayTids \subseteq Loops

VARIABLES
  pc,               \* [Loops -> PcValues]: where Start and HandleToDoList are
  waking,           \* wakeup_channel is among the ready channels to handle
  wakeup_event_fd,  \* the eventfd counter is not zero
  to_do_list,       \* functions queued and not yet taken by the loop
  funcs,            \* rest of the batch HandleToDoList runs, the running one first
  spent,            \* functions of the batch already run: destroyed with it
  calling_funcs,    \* the member of that name
  tid_,             \* the member of that name: no code ever assigns it
  queueing          \* the loop whose QueueOneFunc the thread is inside, or NoLoop

loopVars == <<pc, waking, wakeup_event_fd, to_do_list, funcs, spent,
              calling_funcs, tid_, queueing>>

PcValues == {"Epoll", "HandleEvent", "Swap", "Calling"}

LoopTypeOK ==
  /\ pc \in [Loops -> PcValues]
  /\ waking \in [Loops -> BOOLEAN]
  /\ wakeup_event_fd \in [Loops -> BOOLEAN]
  /\ to_do_list \in [Loops -> Seq(Tasks)]
  /\ funcs \in [Loops -> Seq(Tasks)]
  /\ spent \in [Loops -> SUBSET Tasks]
  /\ calling_funcs \in [Loops -> BOOLEAN]
  /\ tid_ \in [Loops -> Loops \cup {NoLoop}]
  /\ queueing \in [Loops -> Loops \cup {NoLoop}]

(***************************************************************************)
(* The constructor leaves tid_ uninitialised: it may hold the id of the    *)
(* loop's own thread by chance, of no thread, or of a thread in StrayTids. *)
(***************************************************************************)
LoopInit ==
  /\ pc = [l \in Loops |-> "Epoll"]
  /\ waking = [l \in Loops |-> FALSE]
  /\ wakeup_event_fd = [l \in Loops |-> FALSE]
  /\ to_do_list = [l \in Loops |-> <<>>]
  /\ funcs = [l \in Loops |-> <<>>]
  /\ spent = [l \in Loops |-> {}]
  /\ calling_funcs = [l \in Loops |-> FALSE]
  /\ tid_ \in [Loops -> Loops \cup {NoLoop}]
  /\ \A l \in Loops : tid_[l] \in {l, NoLoop} \cup StrayTids
  /\ queueing = [l \in Loops |-> NoLoop]

-----------------------------------------------------------------------------
(* The thread of loop l is at that place, and not inside QueueOneFunc.     *)
At(l, where) == pc[l] = where /\ queueing[l] = NoLoop

(* The thread is inside a channel callback or a queued function.           *)
InUserCode(t) ==
  \/ At(t, "HandleEvent")
  \/ At(t, "Calling") /\ funcs[t] # <<>>

-----------------------------------------------------------------------------
(* Calls that any thread makes.                                            *)

IsInLoopThread(t, l) == tid_[l] = t

(* First half of QueueOneFunc: append under the mutex.                     *)
QueueOneFunc(t, l, task) ==
  /\ queueing[t] = NoLoop
  /\ to_do_list' = [to_do_list EXCEPT ![l] = Append(@, task)]
  /\ queueing' = [queueing EXCEPT ![t] = l]
  /\ UNCHANGED <<pc, waking, wakeup_event_fd, funcs, spent, calling_funcs, tid_>>

(* Mutant: only foreign threads wake the loop.                             *)
MustNotifyForeignOnly(t, l) == ~IsInLoopThread(t, l)
(* Mutant: only a loop that runs functions is woken.                       *)
MustNotifyCallingOnly(t, l) == calling_funcs[l]

MustNotify(t, l) == ~IsInLoopThread(t, l) \/ calling_funcs[l]

(* Second half of QueueOneFunc: the wake-up write, or not.                 *)
Notify(t) ==
  /\ queueing[t] # NoLoop
  /\ wakeup_event_fd' = [wakeup_event_fd EXCEPT
                           ![queueing[t]] = @ \/ MustNotify(t, queueing[t])]
  /\ queueing' = [queueing EXCEPT ![t] = NoLoop]
  /\ UNCHANGED <<pc, waking, to_do_list, funcs, spent, calling_funcs, tid_>>

-----------------------------------------------------------------------------
(* Steps of the thread of loop l, between the calls it makes.              *)

(* Mutant: the eventfd is drained when epoll_wait reports it.              *)
EpollDrains(l, reported) ==
  /\ At(l, "Epoll")
  /\ pc' = [pc EXCEPT ![l] = "HandleEvent"]
  /\ reported => wakeup_event_fd[l]
  /\ waking' = [waking EXCEPT ![l] = reported]
  /\ wakeup_event_fd' = [wakeup_event_fd EXCEPT ![l] = FALSE]
  /\ UNCHANGED <<to_do_list, funcs, spent, calling_funcs, tid_, queueing>>

(***************************************************************************)
(* epoll_wait returns.  The wake-up channel is level-triggered: it can be  *)
(* reported iff the counter is not zero, and is then left out only when    *)
(* others fill the array.  Who extends this module says which others are   *)
(* ready; a signal also ends the call (n < 0).                             *)
(***************************************************************************)
Epoll(l, reported) ==
  /\ At(l, "Epoll")
  /\ pc' = [pc EXCEPT ![l] = "HandleEvent"]
  /\ reported => wakeup_event_fd[l]
  /\ waking' = [waking EXCEPT ![l] = reported]
  /\ UNCHANGED <<wakeup_event_fd, to_do_list, funcs, spent, calling_funcs,
                 tid_, queueing>>

(* EventLoop::HandleRead, the callback of the wake-up channel.             *)
HandleRead(l) ==
  /\ At(l, "HandleEvent") /\ waking[l]
  /\ wakeup_event_fd' = [wakeup_event_fd EXCEPT ![l] = FALSE]
  /\ waking' = [waking EXCEPT ![l] = FALSE]
  /\ UNCHANGED <<pc, to_do_list, funcs, spent, calling_funcs, tid_, queueing>>

(* All ready channels are handled: HandleToDoList is entered.              *)
EnterToDoList(l) ==
  /\ At(l, "HandleEvent") /\ ~waking[l]
  /\ calling_funcs' = [calling_funcs EXCEPT ![l] = TRUE]
  /\ pc' = [pc EXCEPT ![l] = "Swap"]
  /\ UNCHANGED <<waking, wakeup_event_fd, to_do_list, funcs, spent, tid_, queueing>>

(* Mutant: the list is copied, not swapped: its functions run again.       *)
SwapToDoListCopies(l) ==
  /\ At(l, "Swap")
  /\ funcs' = [funcs EXCEPT ![l] = to_do_list[l]]
  /\ pc' = [pc EXCEPT ![l] = "Calling"]
  /\ UNCHANGED <<waking, wakeup_event_fd, to_do_list, spent, calling_funcs,
                 tid_, queueing>>

(* funcs.swap(to_do_list) under the mutex.                                 *)
SwapToDoList(l) ==
  /\ At(l, "Swap")
  /\ funcs' = [funcs EXCEPT ![l] = to_do_list[l]]
  /\ to_do_list' = [to_do_list EXCEPT ![l] = <<>>]
  /\ pc' = [pc EXCEPT ![l] = "Calling"]
  /\ UNCHANGED <<waking, wakeup_event_fd, spent, calling_funcs, tid_, queueing>>

(* The running function returns; its closure lives on in the batch.        *)
FinishFunc(l) ==
  /\ At(l, "Calling") /\ funcs[l] # <<>>
  /\ spent' = [spent EXCEPT ![l] = @ \cup {Head(funcs[l])}]
  /\ funcs' = [funcs EXCEPT ![l] = Tail(@)]
  /\ UNCHANGED <<pc, waking, wakeup_event_fd, to_do_list, calling_funcs,
                 tid_, queueing>>

(* Mutant: Start returns after the first batch.                            *)
LeaveToDoListReturns(l) ==
  /\ At(l, "Calling") /\ funcs[l] = <<>>
  /\ calling_funcs' = [calling_funcs EXCEPT ![l] = FALSE]
  /\ spent' = [spent EXCEPT ![l] = {}]
  /\ pc' = [pc EXCEPT ![l] = "Returned"]
  /\ UNCHANGED <<waking, wakeup_event_fd, to_do_list, funcs, tid_, queueing>>

(* HandleToDoList returns and the batch is destroyed.                      *)
LeaveToDoList(l) ==
  /\ At(l, "Calling") /\ funcs[l] = <<>>
  /\ calling_funcs' = [calling_funcs EXCEPT ![l] = FALSE]
  /\ spent' = [spent EXCEPT ![l] = {}]
  /\ pc' = [pc EXCEPT ![l] = "Epoll"]
  /\ UNCHANGED <<waking, wakeup_event_fd, to_do_list, funcs, tid_, queueing>>

-----------------------------------------------------------------------------
(***************************************************************************)
(* No lost wake-up (eventloop.cpp:83): a thread asleep in epoll_wait with  *)
(* work in its queue has a wake-up in the eventfd, or the thread that      *)
(* queued the work is about to write one.                                  *)
(***************************************************************************)
NoLostWakeup ==
  \A l \in Loops :
    pc[l] = "Epoll" /\ to_do_list[l] # <<>>
      => \/ wakeup_event_fd[l]
         \/ \E t \in Loops : queueing[t] = l /\ MustNotify(t, l)

(***************************************************************************)
(* The assertion of HandleRead (eventloop.cpp:110): the eventfd is         *)
(* readable whenever the wake-up callback runs, so the non-blocking read   *)
(* returns its eight bytes.                                                *)
(***************************************************************************)
WakeReadSucceeds == \A l \in Loops : waking[l] => wakeup_event_fd[l]

-----------------------------------------------------------------------------
(***************************************************************************)
(* The inductive invariant behind both, when tid_ holds no foreign id:     *)
(* queued work is announced by the eventfd, by a foreign thread between    *)
(* its append and its write, by the loop's own thread between them while   *)
(* it runs a batch, or it needs no announcement because the loop is awake  *)
(* and has the swap before it.                                             *)
(***************************************************************************)
NoForeignTid == \A l \in Loops : tid_[l] \in {l, NoLoop}

ControlInv ==
  \A l \in Loops :
    /\ calling_funcs[l] <=> pc[l] \in {"Swap", "Calling"}
    /\ pc[l] \in {"Epoll", "Swap"} => queueing[l] = NoLoop
    /\ pc[l] # "Calling" => funcs[l] = <<>>
    /\ waking[l] => pc[l] = "HandleEvent" /\ wakeup_event_fd[l]

Announced(l) ==
  \/ wakeup_event_fd[l]
  \/ \E t \in Loops \ {l} : queueing[t] = l
  \/ pc[l] \in {"HandleEvent", "Swap"}
  \/ queueing[l] = l

AnnouncedInv == \A l \in Loops : to_do_list[l] # <<>> => Announced(l)

LoopInv == LoopTypeOK /\ NoForeignTid /\ ControlInv /\ AnnouncedInv

=============================================================================
