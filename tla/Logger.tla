-------------------------------- MODULE Logger --------------------------------
(***************************************************************************)
(* The asynchronous logger of logger.cpp.  Any thread prints its message   *)
(* to the console and then hands it to a queue; a writer thread empties    *)
(* the queue into a file every 30 seconds.  The queue and the console are  *)
(* guarded by the mutex mu, the two flags that tell whether there is a     *)
(* writer are not.                                                         *)
(*                                                                         *)
(* Each source file has a logger of its own (logger.h:51).  This is the    *)
(* one of echoserver.cpp, the only one that is ever made asynchronous.     *)
(***************************************************************************)
EXTENDS Sequences, Naturals

CONSTANTS
  Callers,    \* the threads that log
  writer,     \* the thread that runs AsyncThreadFunc
  max_size,   \* messages of one batch (10000 in the code)
  MaxCalls    \* bound of the model: calls of one thread

ASSUME LoggerAssumption ==
  /\ writer \notin Callers
  /\ max_size \in Nat \ {0} /\ MaxCalls \in Nat \ {0}

Threads == Callers \cup {writer}
Messages == Threads \X (1 .. MaxCalls)   \* who logs it, and in which of its calls

VARIABLES
  is_async, async_thread_failed,   \* the members of that name
  buffer,          \* the queue of messages
  target_stream,   \* "closed", "good", or fail() holds: "unopened", "failed"
  file,            \* the messages written to it
  cnt,             \* messages seen in this batch
  pc,              \* [Threads -> ...]: where each is in Log, or the writer
                   \* in AsyncThreadFunc
  calls,           \* [Threads -> Nat]: calls of Log, the current one included
  fatal,           \* [Threads -> BOOLEAN]: the call of Log is from Fatal
  terminated,      \* the process has ended
  late             \* history: messages queued after the file failed to open

flagVars == <<is_async, async_thread_failed>>
queueVars == <<buffer, target_stream, file, cnt, late>>
vars == <<flagVars, queueVars, pc, calls, fatal, terminated>>

CallerPc == {"idle", "print", "check", "push", "terminate"}
WriterPc == {"none", "open", "print", "check", "push", "failing", "returned",
             "outside", "batch"}

TypeOK ==
  /\ is_async \in BOOLEAN /\ async_thread_failed \in BOOLEAN
  /\ buffer \in Seq(Messages) /\ file \in Seq(Messages)
  /\ target_stream \in {"closed", "good", "unopened", "failed"}
  /\ cnt \in 0 .. max_size
  /\ pc \in [Threads -> CallerPc \cup WriterPc]
  /\ pc[writer] \in WriterPc /\ \A t \in Callers : pc[t] \in CallerPc
  /\ calls \in [Threads -> 0 .. MaxCalls]
  /\ fatal \in [Threads -> BOOLEAN]
  /\ terminated \in BOOLEAN
  /\ late \subseteq Messages

Init ==
  /\ is_async = FALSE /\ async_thread_failed = FALSE
  /\ buffer = <<>> /\ target_stream = "closed" /\ file = <<>> /\ cnt = 0
  /\ pc = [t \in Threads |-> IF t = writer THEN "none" ELSE "idle"]
  /\ calls = [t \in Threads |-> 0]
  /\ fatal = [t \in Threads |-> FALSE]
  /\ terminated = FALSE
  /\ late = {}

-----------------------------------------------------------------------------
Goto(t, where) == pc' = [pc EXCEPT ![t] = where]

(* The writer holds mu during a batch; the other critical sections are one *)
(* step each.                                                              *)
Locked == pc[writer] = "batch"

(* Mutant: oss is not cleared, and what it held before is queued again.    *)
MessageUncleared(t) == <<t, 1>>

(* What is written into oss.                                               *)
Message(t) == <<t, calls[t]>>

(* StartAasync, which main calls once, or never if the command line does   *)
(* not ask for it.                                                         *)
StartAasync ==
  /\ pc[writer] = "none" /\ ~is_async
  /\ is_async' = TRUE
  /\ Goto(writer, "open")
  /\ UNCHANGED <<async_thread_failed, queueVars, calls, fatal>>

-----------------------------------------------------------------------------
(* Log: the console, the flags, the queue.                                 *)

BeginLog(t, isFatal) ==
  /\ calls' = [calls EXCEPT ![t] = @ + 1]
  /\ fatal' = [fatal EXCEPT ![t] = isFatal]
  /\ Goto(t, "print")

(* Info, Error or Fatal; Debug is below _LOG_LEVEL and returns at once.    *)
CallLog(t) ==
  /\ pc[t] = "idle" /\ calls[t] < MaxCalls
  /\ \E isFatal \in BOOLEAN : BeginLog(t, isFatal)
  /\ UNCHANGED <<flagVars, queueVars>>

PrintConsole(t) ==
  /\ pc[t] = "print" /\ ~Locked
  /\ Goto(t, "check")
  /\ UNCHANGED <<flagVars, queueVars, calls, fatal>>

(* Where the caller of Log goes on.                                        *)
AfterLog(t) ==
  IF t # writer THEN IF fatal[t] THEN "terminate" ELSE "idle"
  ELSE IF target_stream = "good" THEN "outside" ELSE "failing"

HasWriter == is_async /\ ~async_thread_failed

(* Both flags are read without the mutex.                                  *)
CheckAsync(t) ==
  /\ pc[t] = "check"
  /\ Goto(t, IF HasWriter THEN "push" ELSE AfterLog(t))
  /\ UNCHANGED <<flagVars, queueVars, calls, fatal>>

Push(t) ==
  /\ pc[t] = "push" /\ ~Locked
  /\ buffer' = Append(buffer, Message(t))
  /\ late' = late \cup {m \in {Message(t)} : target_stream = "unopened"}
  /\ Goto(t, AfterLog(t))
  /\ UNCHANGED <<flagVars, target_stream, file, cnt, calls, fatal>>

(* std::terminate in Fatal.                                                *)
Terminate(t) ==
  /\ pc[t] = "terminate"
  /\ terminated' = TRUE
  /\ UNCHANGED <<flagVars, queueVars, pc, calls, fatal>>

-----------------------------------------------------------------------------
(* AsyncThreadFunc.                                                        *)

(* Mutant: the flag is left to the end of the thread.                      *)
OpenFailsKeepsAsync ==
  /\ pc[writer] = "open"
  /\ target_stream' = "unopened"
  /\ BeginLog(writer, FALSE)
  /\ UNCHANGED <<flagVars, buffer, file, cnt, late>>

(* The file cannot be opened; an error is logged.                          *)
OpenFails ==
  /\ pc[writer] = "open"
  /\ target_stream' = "unopened"
  /\ is_async' = FALSE
  /\ BeginLog(writer, FALSE)
  /\ UNCHANGED <<async_thread_failed, buffer, file, cnt, late>>

Open ==
  /\ pc[writer] = "open"
  /\ target_stream' = "good"
  /\ BeginLog(writer, FALSE)
  /\ UNCHANGED <<flagVars, buffer, file, cnt, late>>

(* The rest of a thread without a file.                                    *)
ReturnFailed ==
  /\ pc[writer] = "failing"
  /\ async_thread_failed' = TRUE
  /\ Goto(writer, "returned")
  /\ UNCHANGED <<is_async, queueVars, calls, fatal>>

(* The mutex is taken, after the sleep or for the first time.              *)
BeginBatch ==
  /\ pc[writer] = "outside"
  /\ cnt' = 0
  /\ Goto(writer, "batch")
  /\ UNCHANGED <<flagVars, buffer, target_stream, file, late, calls, fatal>>

(* Mutant: one more message than max_size.                                 *)
BatchGoesOnOnce == cnt <= max_size /\ buffer # <<>>

BatchGoesOn == cnt < max_size /\ buffer # <<>>

(* A message is popped and is in the file, or the stream fails with it.    *)
WriteFront ==
  /\ pc[writer] = "batch" /\ BatchGoesOn /\ target_stream = "good"
  /\ cnt' = cnt + 1
  /\ buffer' = Tail(buffer)
  /\ \/ file' = Append(file, Head(buffer)) /\ UNCHANGED target_stream
     \/ target_stream' = "failed" /\ UNCHANGED file
  /\ UNCHANGED <<flagVars, late, pc, calls, fatal>>

(* Mutants: the loop does not count, or pops what it cannot write.         *)
SkipFrontUncounted ==
  /\ pc[writer] = "batch" /\ BatchGoesOn /\ target_stream = "failed"
  /\ UNCHANGED <<flagVars, queueVars, pc, calls, fatal>>
SkipFrontPops ==
  /\ pc[writer] = "batch" /\ BatchGoesOn /\ target_stream = "failed"
  /\ cnt' = cnt + 1
  /\ buffer' = Tail(buffer)
  /\ UNCHANGED <<flagVars, target_stream, file, late, pc, calls, fatal>>

(* After a failure the loop only counts.                                   *)
SkipFront ==
  /\ pc[writer] = "batch" /\ BatchGoesOn /\ target_stream = "failed"
  /\ cnt' = cnt + 1
  /\ UNCHANGED <<flagVars, buffer, target_stream, file, late, pc, calls, fatal>>

(* Mutant: the thread ends with its first batch.                           *)
EndBatchReturns ==
  /\ pc[writer] = "batch" /\ ~BatchGoesOn
  /\ Goto(writer, "returned")
  /\ UNCHANGED <<flagVars, queueVars, calls, fatal>>

(* The mutex is released and the thread sleeps.                            *)
EndBatch ==
  /\ pc[writer] = "batch" /\ ~BatchGoesOn
  /\ Goto(writer, "outside")
  /\ UNCHANGED <<flagVars, queueVars, calls, fatal>>

-----------------------------------------------------------------------------
LogStep(t) == PrintConsole(t) \/ CheckAsync(t) \/ Push(t)

AsyncThreadFunc ==
  \/ Open \/ OpenFails \/ ReturnFailed
  \/ BeginBatch \/ WriteFront \/ SkipFront \/ EndBatch

Step(t) == LogStep(t) \/ (t = writer /\ AsyncThreadFunc)

Next ==
  /\ ~terminated
  /\ \/ \E t \in Threads : Terminate(t)
     \/ /\ \/ StartAasync
           \/ \E t \in Callers : CallLog(t)
           \/ \E t \in Threads : Step(t)
        /\ UNCHANGED terminated

(***************************************************************************)
(* A thread that can take a step takes it.  The writer takes the mutex     *)
(* again and again, and sleeps 30 seconds without it in between: a thread  *)
(* that waits for it gets it then.                                         *)
(***************************************************************************)
Alive(A) == ~terminated /\ A /\ UNCHANGED terminated

Fairness ==
  /\ WF_vars(Alive(AsyncThreadFunc))
  /\ \A t \in Threads :
       SF_vars(Alive(LogStep(t))) /\ WF_vars(~terminated /\ Terminate(t))

Spec == Init /\ [][Next]_vars
FairSpec == Spec /\ Fairness

-----------------------------------------------------------------------------
(***************************************************************************)
(* The logger implements AsyncLog: whatever the threads do, and although   *)
(* the process may end inside a batch, the file is what was queued, in     *)
(* order and without repetition; a stream that fails costs one message     *)
(* and leaves the rest in the queue (logger.cpp:59-77, 92-99).             *)
(***************************************************************************)
Log == INSTANCE AsyncLog
         WITH waiting <- buffer, broken <- target_stream \in {"unopened", "failed"},
              ended <- terminated

LogSafety == Log!Safety

(***************************************************************************)
(* What is queued is written, unless the file or the process fails before: *)
(* the writer comes back (logger.cpp:59-73).                               *)
(***************************************************************************)
QueuedIsWritten == Log!Spec

(***************************************************************************)
(* The messages of one thread are in the file, and behind it in the queue, *)
(* in the order of its calls and once each, though each call takes the     *)
(* mutex twice and others come in between (logger.cpp:85-100).             *)
(***************************************************************************)
InCallOrder ==
  LET all == file \o buffer IN
  \A i, j \in DOMAIN all :
    i < j /\ all[i][1] = all[j][1] => all[i][2] < all[j][2]

(***************************************************************************)
(* When the file cannot be opened the queue stops growing, though the      *)
(* flags are read without the mutex: after is_async was cleared a thread   *)
(* queues one message at most, the one it had checked before               *)
(* (logger.cpp:49-53, 92-97).                                              *)
(***************************************************************************)
LateBounded == \A m, n \in late : m[1] = n[1] => m = n

(***************************************************************************)
(* Every call of Log returns, and Fatal ends the process, even when the    *)
(* stream has failed and the writer holds the mutex for batches in which   *)
(* it cannot write (logger.cpp:61-70, 140-153).                            *)
(***************************************************************************)
LogReturns ==
  \A t \in Callers : pc[t] # "idle" ~> (terminated \/ pc[t] = "idle")

(***************************************************************************)
(* Without a word on fairness: what waits in the queue of a file that can  *)
(* be written has a writer that will come to it, and the writer never      *)
(* holds the mutex without a step to take; each step of the writer in a    *)
(* batch counts, or gives the mutex back, and the steps of the others      *)
(* leave the batch alone (logger.cpp:46-77).                               *)
(***************************************************************************)
WriterComes ==
  /\ buffer # <<>> /\ target_stream \in {"closed", "good"}
       => pc[writer] \notin {"none", "failing", "returned"}
  /\ Locked /\ BatchGoesOn => target_stream \in {"good", "failed"}

BatchAdvances ==
  [][Locked => \/ AsyncThreadFunc /\ (~Locked' \/ cnt' = cnt + 1)
               \/ ~AsyncThreadFunc /\ Locked' /\ UNCHANGED queueVars]_vars

-----------------------------------------------------------------------------
(***************************************************************************)
(* The inductive invariant: what the numbers of the messages say about the *)
(* calls in progress, and that a thread which queued a late message will   *)
(* not come to the queue again.                                            *)
(***************************************************************************)
InLog(t) == pc[t] \in {"print", "check", "push"}

(* No later than the calls that are over.                                  *)
Past(m) == m[2] <= calls[m[1]] /\ (m[2] = calls[m[1]] => ~InLog(m[1]))

CallInv ==
  /\ \A t \in Threads : InLog(t) => calls[t] > 0
  /\ pc[writer] \in {"none", "open"} => calls[writer] = 0
  /\ \A i \in DOMAIN (file \o buffer) : Past((file \o buffer)[i])

StreamInv ==
  /\ target_stream = "closed" <=> pc[writer] \in {"none", "open"}
  /\ target_stream = "unopened" => ~is_async
  /\ late # {} => target_stream = "unopened"
  /\ \A m \in late : pc[m[1]] # "push"

(* Before there is a writer nothing is queued; how its file is in each     *)
(* of its places afterwards.                                               *)
WriterInv ==
  /\ pc[writer] = "none"
       => ~is_async /\ buffer = <<>> /\ \A t \in Threads : pc[t] # "push"
  /\ pc[writer] \in {"print", "check", "push"} => target_stream \in {"good", "unopened"}
  /\ pc[writer] \in {"failing", "returned"} => target_stream = "unopened"
  /\ pc[writer] \in {"outside", "batch"} => target_stream \in {"good", "failed"}

LoggerInv == TypeOK /\ CallInv /\ InCallOrder /\ StreamInv /\ LateBounded

=============================================================================
