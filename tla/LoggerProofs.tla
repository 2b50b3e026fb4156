----------------------------- MODULE LoggerProofs -----------------------------
(***************************************************************************)
(* The logger with any number of threads, calls and messages in a batch:   *)
(* LoggerInv is inductive, the logger implements AsyncLog, and its writer  *)
(* comes to what is queued.                                                *)
(***************************************************************************)
EXTENDS Logger, SequenceTheorems, TLAPS

USE LoggerAssumption DEF Threads

(* Where a thread may go when Log returns.                                 *)
LEMMA AfterLogCases ==
  ASSUME NEW t \in Threads
  PROVE  /\ t # writer => AfterLog(t) \in {"idle", "terminate"}
         /\ t = writer => AfterLog(t) \in {"outside", "failing"}
BY DEF AfterLog

(* Messages are what Push puts into the queue.                             *)
LEMMA MessageTyped ==
  ASSUME LoggerInv, NEW t \in Threads, pc[t] = "push"
  PROVE  Message(t) \in Messages
BY DEF LoggerInv, TypeOK, CallInv, InLog, Message, Messages

LEMMA InitInv == Init => LoggerInv
<1> SUFFICES ASSUME Init  PROVE LoggerInv
  OBVIOUS
<1> USE DEF Init
<1>1. TypeOK
  <2>1. pc \in [Threads -> CallerPc \cup WriterPc]  BY DEF CallerPc, WriterPc
  <2>2. pc[writer] \in WriterPc /\ \A t \in Callers : pc[t] \in CallerPc
    BY DEF CallerPc, WriterPc
  <2>3. cnt \in 0 .. max_size /\ calls \in [Threads -> 0 .. MaxCalls]
    OBVIOUS
  <2>4. /\ is_async \in BOOLEAN /\ async_thread_failed \in BOOLEAN
        /\ terminated \in BOOLEAN /\ fatal \in [Threads -> BOOLEAN]
    OBVIOUS
  <2>5. /\ buffer \in Seq(Messages) /\ file \in Seq(Messages)
        /\ late \subseteq Messages
        /\ target_stream \in {"closed", "good", "unopened", "failed"}
    OBVIOUS
  <2>. QED  BY <2>1, <2>2, <2>3, <2>4, <2>5, Zenon DEF TypeOK
<1>2. CallInv
  <2>1. DOMAIN (file \o buffer) = {}  OBVIOUS
  <2>. QED  BY <2>1 DEF CallInv, InLog
<1>3. InCallOrder  BY DEF InCallOrder
<1>4. StreamInv /\ LateBounded  BY DEF StreamInv, LateBounded
<1>. QED  BY <1>1, <1>2, <1>3, <1>4 DEF LoggerInv

-----------------------------------------------------------------------------
(* A call of Log begins: by a caller, or by the writer when it has opened  *)
(* the file or failed to.                                                  *)
LEMMA BeginLogTyped ==
  ASSUME LoggerInv, NEW t \in Threads, NEW isFatal \in BOOLEAN,
         BeginLog(t, isFatal),
         t = writer => pc[t] = "open", t # writer => calls[t] < MaxCalls
  PROVE  /\ pc' \in [Threads -> CallerPc \cup WriterPc]
         /\ pc'[writer] \in WriterPc /\ \A u \in Callers : pc'[u] \in CallerPc
         /\ calls' \in [Threads -> 0 .. MaxCalls]
         /\ fatal' \in [Threads -> BOOLEAN]
BY DEF LoggerInv, TypeOK, CallInv, BeginLog, Goto, CallerPc, WriterPc

LEMMA NextType == ASSUME LoggerInv, [Next]_vars PROVE TypeOK'
<1> USE DEF LoggerInv, flagVars, queueVars
<1>1. CASE UNCHANGED vars  BY <1>1 DEF vars, TypeOK
<1>2. ASSUME NEW t \in Threads, Terminate(t), terminated' = TRUE  PROVE TypeOK'
  BY <1>2 DEF Terminate, TypeOK
<1> USE DEF Goto
<1>3. CASE StartAasync /\ UNCHANGED terminated
  BY <1>3 DEF StartAasync, TypeOK, CallerPc, WriterPc
<1>4. ASSUME NEW t \in Callers, CallLog(t), UNCHANGED terminated  PROVE TypeOK'
  BY <1>4, BeginLogTyped DEF CallLog, TypeOK
<1>5. ASSUME NEW t \in Threads, LogStep(t), UNCHANGED terminated  PROVE TypeOK'
  <2>1. CASE PrintConsole(t)
    BY <1>5, <2>1 DEF PrintConsole, TypeOK, CallerPc, WriterPc
  <2>2. CASE CheckAsync(t)
    BY <1>5, <2>2, AfterLogCases DEF CheckAsync, TypeOK, CallerPc, WriterPc
  <2>3. CASE Push(t)
    <3>1. Message(t) \in Messages  BY <2>3, MessageTyped DEF Push
    <3>2. buffer' \in Seq(Messages) /\ late' \subseteq Messages
      BY <2>3, <3>1 DEF Push, TypeOK
    <3>. QED
      BY <1>5, <2>3, <3>2, AfterLogCases DEF Push, TypeOK, CallerPc, WriterPc
  <2>. QED  BY <1>5, <2>1, <2>2, <2>3 DEF LogStep
<1>6. CASE AsyncThreadFunc /\ UNCHANGED terminated
  <2>1. CASE Open \/ OpenFails
    BY <1>6, <2>1, BeginLogTyped DEF Open, OpenFails, TypeOK
  <2>2. CASE ReturnFailed \/ BeginBatch \/ EndBatch
    <3>1. \E where \in {"returned", "batch", "outside"} : Goto(writer, where)
      BY <2>2 DEF ReturnFailed, BeginBatch, EndBatch
    <3>2. /\ pc' \in [Threads -> CallerPc \cup WriterPc]
          /\ pc'[writer] \in WriterPc /\ \A u \in Callers : pc'[u] \in CallerPc
      BY <3>1 DEF TypeOK, CallerPc, WriterPc
    <3>3. cnt' \in {0, cnt} /\ async_thread_failed' \in {TRUE, async_thread_failed}
      BY <2>2 DEF ReturnFailed, BeginBatch, EndBatch
    <3>4. UNCHANGED <<is_async, buffer, target_stream, file, late, calls, fatal>>
      BY <2>2 DEF ReturnFailed, BeginBatch, EndBatch
    <3>5. /\ is_async' \in BOOLEAN /\ async_thread_failed' \in BOOLEAN
          /\ terminated' \in BOOLEAN
      BY <1>6, <3>3, <3>4, Zenon DEF TypeOK
    <3>6. cnt' \in 0 .. max_size  BY <3>3 DEF TypeOK
    <3>. QED
      BY <3>2, <3>4, <3>5, <3>6, Zenon DEF TypeOK
  <2>3. CASE WriteFront
    <3>1. Head(buffer) \in Messages /\ Tail(buffer) \in Seq(Messages)
      BY <2>3, HeadTailProperties DEF WriteFront, BatchGoesOn, TypeOK
    <3>2. cnt' \in 0 .. max_size  BY <2>3 DEF WriteFront, BatchGoesOn, TypeOK
    <3>3. /\ file' \in Seq(Messages)
          /\ target_stream' \in {"closed", "good", "unopened", "failed"}
      <4>1. Append(file, Head(buffer)) \in Seq(Messages)  BY <3>1 DEF TypeOK
      <4>2. file' \in {file, Append(file, Head(buffer))}  BY <2>3 DEF WriteFront
      <4>3. target_stream' \in {target_stream, "failed"}  BY <2>3 DEF WriteFront
      <4>. QED  BY <4>1, <4>2, <4>3 DEF TypeOK
    <3>4. UNCHANGED <<is_async, async_thread_failed, late, pc, calls, fatal>>
          /\ buffer' = Tail(buffer)
      BY <2>3 DEF WriteFront
    <3>5. /\ is_async' \in BOOLEAN /\ async_thread_failed' \in BOOLEAN
          /\ terminated' \in BOOLEAN
      BY <1>6, <3>4, Zenon DEF TypeOK
    <3>6. TypeOK  OBVIOUS
    <3>. QED  BY <3>1, <3>2, <3>3, <3>4, <3>5, <3>6, Zenon DEF TypeOK
  <2>4. CASE SkipFront
    BY <1>6, <2>4 DEF SkipFront, BatchGoesOn, TypeOK
  <2>. QED  BY <1>6, <2>1, <2>2, <2>3, <2>4 DEF AsyncThreadFunc
<1>. QED
  BY <1>1, <1>2, <1>3, <1>4, <1>5, <1>6 DEF Next, Step, Terminate

-----------------------------------------------------------------------------
(* The stream, the flags and the late messages.                            *)
LEMMA NextStream == ASSUME LoggerInv, [Next]_vars PROVE StreamInv' /\ LateBounded'
<1> USE DEF LoggerInv, flagVars, queueVars, StreamInv, LateBounded, TypeOK
<1>1. CASE UNCHANGED vars  BY <1>1 DEF vars
<1>2. ASSUME NEW t \in Threads, Terminate(t)  PROVE StreamInv' /\ LateBounded'
  BY <1>2 DEF Terminate
<1> USE DEF Goto
<1>3. CASE StartAasync  BY <1>3 DEF StartAasync, WriterPc
<1>4. ASSUME NEW t \in Callers, CallLog(t)  PROVE StreamInv' /\ LateBounded'
  BY <1>4 DEF CallLog, BeginLog
<1>5. ASSUME NEW t \in Threads, LogStep(t)  PROVE StreamInv' /\ LateBounded'
  <2>1. CASE PrintConsole(t)  BY <2>1 DEF PrintConsole
  <2>2. CASE CheckAsync(t)  BY <2>2, AfterLogCases DEF CheckAsync, HasWriter
  <2>3. CASE Push(t)
    <3>1. \A m \in late : m[1] # t  BY <2>3 DEF Push
    <3>2. \A m \in late' : m \in late \/ (m = Message(t) /\ target_stream = "unopened")
      BY <2>3 DEF Push
    <3>3. Message(t)[1] = t  BY DEF Message
    <3>4. pc'[t] # "push" /\ \A u \in Threads \ {t} : pc'[u] = pc[u]
      BY <2>3, AfterLogCases DEF Push
    <3>5. LateBounded'  BY <3>1, <3>2, <3>3
    <3>6. target_stream' = target_stream /\ is_async' = is_async
      BY <2>3 DEF Push
    <3>7. (target_stream = "closed" <=> pc[writer] \in {"none", "open"})'
      <4>1. pc[writer] \in {"none", "open"} <=> pc'[writer] \in {"none", "open"}
        BY <2>3, <3>4, AfterLogCases DEF Push
      <4>. QED  BY <3>6, <4>1
    <3>8. \A m \in late' : pc'[m[1]] # "push"
      <4> SUFFICES ASSUME NEW m \in late'  PROVE pc'[m[1]] # "push"
        OBVIOUS
      <4>1. CASE m \in late
        <5>1. m[1] \in Threads \ {t}  BY <4>1, <3>1 DEF Messages
        <5>. QED  BY <5>1, <4>1, <3>4
      <4>2. CASE m = Message(t)  BY <4>2, <3>3, <3>4
      <4>. QED  BY <3>2, <4>1, <4>2
    <3>. QED  BY <3>2, <3>5, <3>6, <3>7, <3>8
  <2>. QED  BY <1>5, <2>1, <2>2, <2>3 DEF LogStep
<1>6. CASE AsyncThreadFunc
  <2>1. CASE Open \/ OpenFails
    BY <2>1 DEF Open, OpenFails, BeginLog
  <2>2. CASE ReturnFailed \/ BeginBatch \/ EndBatch
    <3>1. UNCHANGED <<is_async, target_stream, late>>
      BY <2>2 DEF ReturnFailed, BeginBatch, EndBatch
    <3>2. /\ pc[writer] \notin {"none", "open"} /\ pc'[writer] \notin {"none", "open", "push"}
          /\ \A t \in Callers : pc'[t] = pc[t]
      BY <2>2 DEF ReturnFailed, BeginBatch, EndBatch
    <3>3. \A m \in late' : pc'[m[1]] # "push"
      BY <3>1, <3>2 DEF Messages
    <3>. QED  BY <3>1, <3>2, <3>3
  <2>3. CASE WriteFront \/ SkipFront
    BY <2>3 DEF WriteFront, SkipFront
  <2>. QED  BY <1>6, <2>1, <2>2, <2>3 DEF AsyncThreadFunc
<1>. QED
  BY <1>1, <1>2, <1>3, <1>4, <1>5, <1>6 DEF Next, Step

-----------------------------------------------------------------------------
(* What the steps of the queue do to the file with the queue behind it.    *)
All == file \o buffer

LEMMA PushAtEnd ==
  ASSUME TypeOK, NEW m \in Messages
  PROVE  file \o Append(buffer, m) = Append(All, m)
BY DEF TypeOK, All

LEMMA WriteKeepsAll ==
  ASSUME TypeOK, buffer # <<>>
  PROVE  Append(file, Head(buffer)) \o Tail(buffer) = All
<1> DEFINE new == Append(file, Head(buffer)) \o Tail(buffer)
<1>1. Head(buffer) \in Messages /\ Tail(buffer) \in Seq(Messages)
      /\ Len(Tail(buffer)) = Len(buffer) - 1
  BY HeadTailProperties DEF TypeOK
<1>2. new \in Seq(Messages) /\ All \in Seq(Messages) /\ Len(new) = Len(All)
  BY <1>1 DEF TypeOK, All
<1>3. ASSUME NEW i \in 1 .. Len(All)  PROVE new[i] = All[i]
  BY <1>1, HeadTailProperties DEF TypeOK, All
<1>. QED  BY <1>2, <1>3, SeqEqual

(* The message at which the stream fails leaves a gap.                     *)
LEMMA LossDropsOne ==
  ASSUME TypeOK, buffer # <<>>
  PROVE  /\ Len(file \o Tail(buffer)) = Len(All) - 1
         /\ \A i \in DOMAIN (file \o Tail(buffer)) :
              (file \o Tail(buffer))[i] =
                All[IF i <= Len(file) THEN i ELSE i + 1]
<1>1. Tail(buffer) \in Seq(Messages) /\ Len(Tail(buffer)) = Len(buffer) - 1
  BY HeadTailProperties DEF TypeOK
<1>2. \A i \in 1 .. Len(Tail(buffer)) : Tail(buffer)[i] = buffer[i + 1]
  BY HeadTailProperties DEF TypeOK
<1>. QED  BY <1>1, <1>2 DEF TypeOK, All

-----------------------------------------------------------------------------
(* A call that is in progress stays the last one, or a new one begins: no  *)
(* message of the past becomes one of the future.                          *)
LEMMA PastStays ==
  ASSUME LoggerInv, [Next]_vars, NEW m \in Messages, Past(m)
  PROVE  Past(m)'
<1> USE DEF LoggerInv, TypeOK, flagVars, queueVars, Past, InLog
<1>0. m[1] \in Threads /\ m[2] \in Nat  BY DEF Messages
<1>1. CASE UNCHANGED vars  BY <1>1 DEF vars
<1>2. ASSUME NEW t \in Threads, Terminate(t)  PROVE Past(m)'
  BY <1>2 DEF Terminate
<1> USE DEF Goto
<1>3. CASE StartAasync  BY <1>0, <1>3 DEF StartAasync
<1>4. ASSUME NEW t \in Threads, NEW isFatal \in BOOLEAN, BeginLog(t, isFatal)
      PROVE  Past(m)'
  BY <1>0, <1>4 DEF BeginLog
<1>5. ASSUME NEW t \in Threads, LogStep(t)  PROVE Past(m)'
  BY <1>0, <1>5, AfterLogCases DEF LogStep, PrintConsole, CheckAsync, Push
<1>6. CASE ReturnFailed \/ BeginBatch \/ EndBatch
  BY <1>0, <1>6 DEF ReturnFailed, BeginBatch, EndBatch
<1>7. CASE WriteFront \/ SkipFront
  BY <1>7 DEF WriteFront, SkipFront
<1>. QED
  BY <1>1, <1>2, <1>3, <1>4, <1>5, <1>6, <1>7
  DEF Next, Step, CallLog, AsyncThreadFunc, Open, OpenFails

(* The messages after a step are those before it, in their order, perhaps  *)
(* without one of them, and perhaps with one more, which is new, behind.   *)
LEMMA AllAfterStep ==
  ASSUME LoggerInv, [Next]_vars
  PROVE  \/ All' = All
         \/ \E m \in Messages : Past(m)' /\ ~Past(m) /\ All' = Append(All, m)
         \/ /\ All' \in Seq(Messages) /\ Len(All') = Len(All) - 1
            /\ \A i \in DOMAIN All' :
                 All'[i] = All[IF i <= Len(file) THEN i ELSE i + 1]
<1> USE DEF LoggerInv, flagVars, queueVars
<1>1. CASE UNCHANGED <<file, buffer>>  BY <1>1 DEF All
<1>2. ASSUME NEW t \in Threads, Push(t)
      PROVE  \E m \in Messages : Past(m)' /\ ~Past(m) /\ All' = Append(All, m)
  <2>1. PICK m \in Messages : m = Message(t)  BY <1>2, MessageTyped DEF Push
  <2>2. All' = Append(All, m)
    <3>1. file' = file /\ buffer' = Append(buffer, m)  BY <1>2, <2>1 DEF Push
    <3>. QED  BY <3>1, PushAtEnd DEF All
  <2>3. m[1] = t /\ m[2] = calls[t] /\ m[2] \in Nat
    BY <2>1 DEF Message, TypeOK
  <2>4. /\ calls' = calls /\ pc[t] = "push" /\ pc' = [pc EXCEPT ![t] = AfterLog(t)]
    BY <1>2 DEF Push, Goto
  <2>5. Past(m)' /\ ~Past(m)
    BY <2>3, <2>4, AfterLogCases DEF TypeOK, Past, InLog
  <2>. QED  BY <2>2, <2>5
<1>3. CASE WriteFront
  <2>1. TypeOK /\ buffer # <<>> /\ buffer' = Tail(buffer)
    BY <1>3 DEF WriteFront, BatchGoesOn
  <2>2. CASE file' = Append(file, Head(buffer))
    BY <2>1, <2>2, WriteKeepsAll DEF All
  <2>3. CASE file' = file
    <3>1. All' = file \o Tail(buffer)  BY <2>1, <2>3 DEF All
    <3>2. All' \in Seq(Messages)
      BY <3>1, <2>1, HeadTailProperties DEF TypeOK
    <3>. QED  BY <3>1, <3>2, <2>1, LossDropsOne
  <2>. QED  BY <1>3, <2>2, <2>3 DEF WriteFront
<1>4. [Next]_vars =>
        WriteFront \/ (\E t \in Threads : Push(t)) \/ UNCHANGED <<file, buffer>>
  BY DEF Next, vars, Terminate, StartAasync, CallLog, Step, LogStep, PrintConsole,
         CheckAsync, AsyncThreadFunc, Open, OpenFails, ReturnFailed, BeginBatch,
         SkipFront, EndBatch
<1>. QED  BY <1>1, <1>2, <1>3, <1>4

(* Ordered as in InCallOrder, and none of them later than the calls that   *)
(* are over.                                                               *)
OrderedPast ==
  /\ \A i \in DOMAIN All : Past(All[i])
  /\ \A i, j \in DOMAIN All :
       i < j /\ All[i][1] = All[j][1] => All[i][2] < All[j][2]

LEMMA NextOrder == ASSUME LoggerInv, [Next]_vars PROVE OrderedPast'
<1>1. OrderedPast  BY DEF LoggerInv, CallInv, InCallOrder, All, OrderedPast
<1>2. All \in Seq(Messages)  BY DEF LoggerInv, TypeOK, All
<1>3. \A i \in DOMAIN All : \A m \in Messages : m = All[i] => Past(m) /\ Past(m)'
  BY <1>1, PastStays DEF OrderedPast
<1>4. \A i \in DOMAIN All : All[i] \in Messages  BY <1>2
<1>5. \A m \in Messages : m[1] \in Threads /\ m[2] \in Nat  BY DEF Messages
<1>6. DOMAIN All = 1 .. Len(All) /\ Len(All) \in Nat  BY <1>2
<1>7. CASE All' = All
  BY <1>1, <1>3, <1>4, <1>7 DEF OrderedPast, Past
<1>8. CASE \E m \in Messages : Past(m)' /\ ~Past(m) /\ All' = Append(All, m)
  <2>1. PICK m \in Messages : Past(m)' /\ ~Past(m) /\ All' = Append(All, m)
    BY <1>8
  <2>2. \A i \in DOMAIN All : All[i][1] = m[1] => All[i][2] < m[2]
    <3> SUFFICES ASSUME NEW i \in DOMAIN All, All[i][1] = m[1]
                 PROVE  All[i][2] < m[2]
      OBVIOUS
    <3>1. Past(All[i])  BY <1>1 DEF OrderedPast
    <3>2. calls[m[1]] \in Nat  BY <1>5 DEF LoggerInv, TypeOK
    <3>. QED  BY <2>1, <3>1, <3>2, <1>4, <1>5 DEF Past
  <2>3. /\ DOMAIN All' = 1 .. Len(All) + 1 /\ All'[Len(All) + 1] = m
        /\ \A i \in DOMAIN All : All'[i] = All[i]
    BY <1>2, <2>1
  <2>4. \A i \in DOMAIN All' : i \in DOMAIN All \/ i = Len(All) + 1
    BY <1>6, <2>3
  <2>5. \A i \in DOMAIN All' : \E n \in Messages : n = All'[i] /\ Past(n)'
    BY <1>3, <1>4, <2>1, <2>3, <2>4
  <2>6. \A i, j \in DOMAIN All' :
          i < j /\ All'[i][1] = All'[j][1] => All'[i][2] < All'[j][2]
    <3> SUFFICES ASSUME NEW i \in DOMAIN All', NEW j \in DOMAIN All', i < j,
                        All'[i][1] = All'[j][1]
                 PROVE  All'[i][2] < All'[j][2]
      OBVIOUS
    <3>1. i \in DOMAIN All  BY <1>6, <2>3
    <3>2. CASE j \in DOMAIN All  BY <1>1, <2>3, <3>1, <3>2 DEF OrderedPast
    <3>3. CASE j = Len(All) + 1  BY <2>2, <2>3, <3>1, <3>3
    <3>. QED  BY <2>4, <3>2, <3>3
  <2>. QED  BY <2>5, <2>6 DEF OrderedPast, Past
<1>9. CASE /\ All' \in Seq(Messages) /\ Len(All') = Len(All) - 1
           /\ \A i \in DOMAIN All' :
                All'[i] = All[IF i <= Len(file) THEN i ELSE i + 1]
  <2> DEFINE from(i) == IF i <= Len(file) THEN i ELSE i + 1
  <2>1. Len(file) \in Nat  BY DEF LoggerInv, TypeOK
  <2>2. DOMAIN All' = 1 .. Len(All) - 1  BY <1>9
  <2>3. \A i \in DOMAIN All' : from(i) \in DOMAIN All /\ All'[i] = All[from(i)]
    BY <1>6, <1>9, <2>1, <2>2
  <2>4. \A i, j \in DOMAIN All' : i < j => from(i) < from(j)
    BY <2>1, <2>2
  <2> HIDE DEF from
  <2>5. \A i \in DOMAIN All' : \E n \in Messages : n = All'[i] /\ Past(n)'
    BY <1>3, <1>4, <2>3
  <2>6. \A i, j \in DOMAIN All' :
          i < j /\ All'[i][1] = All'[j][1] => All'[i][2] < All'[j][2]
    BY <1>1, <2>3, <2>4 DEF OrderedPast
  <2>. QED  BY <2>5, <2>6 DEF OrderedPast, Past
<1>. QED  BY AllAfterStep, <1>7, <1>8, <1>9

(* Whoever is in Log has begun a call.                                     *)
InCall ==
  /\ \A t \in Threads : InLog(t) => calls[t] > 0
  /\ pc[writer] \in {"none", "open"} => calls[writer] = 0

LEMMA NextInCall == ASSUME LoggerInv, [Next]_vars PROVE InCall'
<1> USE DEF LoggerInv, TypeOK, CallInv, flagVars, queueVars, InLog, InCall
<1>1. CASE UNCHANGED vars  BY <1>1 DEF vars
<1>2. ASSUME NEW t \in Threads, Terminate(t)  PROVE InCall'
  BY <1>2 DEF Terminate
<1> USE DEF Goto
<1>3. CASE StartAasync  BY <1>3 DEF StartAasync
<1>4. ASSUME NEW t \in Threads, NEW isFatal \in BOOLEAN, BeginLog(t, isFatal)
      PROVE  InCall'
  BY <1>4 DEF BeginLog
<1>5. ASSUME NEW t \in Threads, LogStep(t)  PROVE InCall'
  BY <1>5, AfterLogCases DEF LogStep, PrintConsole, CheckAsync, Push
<1>6. CASE ReturnFailed \/ BeginBatch \/ EndBatch
  <2>1. /\ calls' = calls /\ \A t \in Callers : pc'[t] = pc[t]
        /\ pc'[writer] \in {"returned", "batch", "outside"}
    BY <1>6 DEF ReturnFailed, BeginBatch, EndBatch
  <2>. QED  BY <2>1
<1>7. CASE WriteFront \/ SkipFront
  BY <1>7 DEF WriteFront, SkipFront
<1>. QED
  BY <1>1, <1>2, <1>3, <1>4, <1>5, <1>6, <1>7
  DEF Next, Step, CallLog, AsyncThreadFunc, Open, OpenFails

LEMMA Invariance == Spec => []LoggerInv
<1>1. ASSUME LoggerInv, [Next]_vars  PROVE LoggerInv'
  <2>1. (CallInv /\ InCallOrder)'
    BY <1>1, NextOrder, NextInCall DEF CallInv, InCallOrder, InCall, OrderedPast, All
  <2>. QED  BY <1>1, <2>1, NextType, NextStream DEF LoggerInv
<1>. QED  BY InitInv, <1>1, PTL DEF Spec

-----------------------------------------------------------------------------
(* The flags, the queue, the file and the calls have their types.          *)
THEOREM LoggerTypeCorrect == Spec => []TypeOK
BY Invariance, PTL DEF LoggerInv

(* The messages of one thread are in the file, and behind it in the queue, *)
(* in the order of its calls and once each, however the threads and the    *)
(* batches of the writer interleave (logger.cpp:58-74, 80-100).            *)
THEOREM MessagesInCallOrder == Spec => []InCallOrder
BY Invariance, PTL DEF LoggerInv

(* A thread queues one message at most after the file has failed to open,  *)
(* with any number of threads that read the flags without the mutex        *)
(* (logger.cpp:49-53, 92-97).                                              *)
THEOREM LateMessagesBounded == Spec => []LateBounded
BY Invariance, PTL DEF LoggerInv

-----------------------------------------------------------------------------
LEMMA StepRefines ==
  ASSUME LoggerInv, [Next]_vars
  PROVE  [Log!Next]_(Log!vars)
<1> USE DEF LoggerInv, TypeOK, flagVars, queueVars, Log!vars, Log!Next
<1>1. CASE UNCHANGED vars  BY <1>1 DEF vars
<1>2. ASSUME NEW t \in Threads, Terminate(t), ~terminated  PROVE Log!End
  BY <1>2 DEF Terminate, Log!End
<1>3. CASE StartAasync /\ UNCHANGED terminated
  BY <1>3 DEF StartAasync
<1>4. ASSUME NEW t \in Callers, CallLog(t), UNCHANGED terminated
      PROVE  UNCHANGED Log!vars
  BY <1>4 DEF CallLog
<1>5. ASSUME NEW t \in Threads, PrintConsole(t) \/ CheckAsync(t),
             UNCHANGED terminated
      PROVE  UNCHANGED Log!vars
  BY <1>5 DEF PrintConsole, CheckAsync
<1>6. ASSUME NEW t \in Threads, Push(t), ~terminated, UNCHANGED terminated
      PROVE  \E m \in Messages : Log!Accept(m)
  <2>1. Message(t) \in Messages  BY <1>6, MessageTyped DEF Push
  <2>2. Log!Accept(Message(t))  BY <1>6 DEF Push, Log!Accept
  <2>. QED  BY <2>1, <2>2
<1>7. CASE AsyncThreadFunc /\ ~terminated /\ UNCHANGED terminated
  <2>1. CASE Open  BY <1>7, <2>1 DEF Open, StreamInv
  <2>2. CASE OpenFails
    <3>1. Log!Break  BY <1>7, <2>2 DEF OpenFails, StreamInv, Log!Break
    <3>. QED  BY <3>1
  <2>3. CASE ReturnFailed \/ BeginBatch \/ EndBatch \/ SkipFront
    BY <1>7, <2>3 DEF ReturnFailed, BeginBatch, EndBatch, SkipFront
  <2>4. CASE WriteFront
    <3>1. Log!WriteHead \/ Log!Break
      BY <1>7, <2>4 DEF WriteFront, BatchGoesOn, Log!WriteHead, Log!Break
    <3>. QED  BY <3>1
  <2>. QED  BY <1>7, <2>1, <2>2, <2>3, <2>4 DEF AsyncThreadFunc
<1>. QED
  BY <1>1, <1>2, <1>3, <1>4, <1>5, <1>6, <1>7 DEF Next, Step, LogStep

(* Whatever the threads do, the file is what was queued, in order and      *)
(* without repetition, but for the message at which the stream fails: the  *)
(* logger implements AsyncLog (logger.cpp:46-78, 92-99).                   *)
THEOREM LoggerImplementsAsyncLog == Spec => LogSafety
<1>1. Init => Log!Init  BY DEF Init, Log!Init
<1>2. ASSUME LoggerInv, [Next]_vars  PROVE [Log!Next]_(Log!vars)
  BY <1>2, StepRefines
<1>. QED  BY <1>1, <1>2, Invariance, PTL DEF Spec, LogSafety, Log!Safety
-----------------------------------------------------------------------------
(* The writer comes to the queue.                                          *)

LEMMA NextWriter == ASSUME LoggerInv, WriterInv, [Next]_vars PROVE WriterInv'
<1> USE LoggerAssumption DEF LoggerInv, flagVars, queueVars, WriterInv, TypeOK, Goto
<1>1. CASE UNCHANGED vars  BY <1>1 DEF vars
<1>2. ASSUME NEW t \in Threads, Terminate(t)  PROVE WriterInv'
  BY <1>2 DEF Terminate
<1>3. CASE StartAasync  BY <1>3 DEF StartAasync
<1>4. ASSUME NEW t \in Callers, CallLog(t)  PROVE WriterInv'
  BY <1>4 DEF CallLog, BeginLog
<1>5. ASSUME NEW t \in Threads, LogStep(t)  PROVE WriterInv'
  <2>1. CASE PrintConsole(t)  BY <2>1 DEF PrintConsole
  <2>2. CASE CheckAsync(t)
    <3>1. UNCHANGED <<flagVars, queueVars>> /\ \A u \in Threads \ {t} : pc'[u] = pc[u]
      BY <2>2 DEF CheckAsync
    <3>2. pc[t] = "check" /\ pc'[t] = IF HasWriter THEN "push" ELSE AfterLog(t)
      BY <2>2 DEF CheckAsync
    <3>3. CASE t # writer  BY <3>1, <3>2, <3>3, AfterLogCases DEF HasWriter
    <3>4. CASE t = writer  BY <3>1, <3>2, <3>4 DEF HasWriter, AfterLog
    <3>. QED  BY <3>3, <3>4
  <2>3. CASE Push(t)
    <3>1. /\ UNCHANGED <<is_async, target_stream>>
          /\ \A u \in Threads \ {t} : pc'[u] = pc[u]
      BY <2>3 DEF Push
    <3>2. pc[t] = "push" /\ pc'[t] = AfterLog(t)  BY <2>3 DEF Push
    <3>3. CASE t # writer  BY <3>1, <3>2, <3>3, AfterLogCases
    <3>4. CASE t = writer  BY <3>1, <3>2, <3>4 DEF AfterLog
    <3>. QED  BY <3>3, <3>4
  <2>. QED  BY <1>5, <2>1, <2>2, <2>3 DEF LogStep
<1>6. CASE AsyncThreadFunc
  <2>1. CASE Open \/ OpenFails
    BY <2>1 DEF Open, OpenFails, BeginLog
  <2>2. CASE ReturnFailed  BY <2>2 DEF ReturnFailed
  <2>3. CASE BeginBatch \/ EndBatch
    BY <2>3 DEF BeginBatch, EndBatch
  <2>4. CASE WriteFront \/ SkipFront
    BY <2>4 DEF WriteFront, SkipFront
  <2>. QED  BY <1>6, <2>1, <2>2, <2>3, <2>4 DEF AsyncThreadFunc
<1>. QED
  BY <1>1, <1>2, <1>3, <1>4, <1>5, <1>6 DEF Next, Step

(***************************************************************************)
(* The writer comes to what is queued, and gives the mutex back, with any  *)
(* number of threads and any size of a batch: as long as the file can be   *)
(* written a queue that is not empty has a writer on its way to it; in a   *)
(* batch the writer always has a step, each of its steps counts up to      *)
(* max_size or gives the mutex back, and no other thread takes a part in   *)
(* the batch.  Nothing but the scheduler keeps a message from the file or  *)
(* a thread from the mutex (logger.cpp:46-77).                             *)
(***************************************************************************)
THEOREM WriterComesBack == Spec => [](WriterComes /\ cnt \in 0 .. max_size) /\ BatchAdvances
<1>1. Init => WriterInv  BY LoggerAssumption DEF Init, WriterInv, Threads
<1>2. LoggerInv /\ WriterInv /\ [Next]_vars => WriterInv'  BY NextWriter
<1>3. LoggerInv /\ WriterInv => WriterComes /\ cnt \in 0 .. max_size
  BY DEF LoggerInv, TypeOK, WriterInv, WriterComes, Locked
<1>4. ASSUME LoggerInv, [Next]_vars, Locked
      PROVE  \/ AsyncThreadFunc /\ (~Locked' \/ cnt' = cnt + 1)
             \/ ~AsyncThreadFunc /\ Locked' /\ UNCHANGED queueVars
  <2> USE <1>4 DEF LoggerInv, TypeOK
  <2>1. AsyncThreadFunc => ~Locked' \/ cnt' = cnt + 1
    BY DEF AsyncThreadFunc, Open, OpenFails, ReturnFailed, BeginBatch, WriteFront,
           SkipFront, EndBatch, Goto, Locked
  <2>2. ASSUME Locked' /\ UNCHANGED queueVars  PROVE ~AsyncThreadFunc
    <3>1. cnt \in Nat /\ cnt' = cnt  BY <2>2, LoggerAssumption DEF queueVars
    <3>. QED  BY <2>1, <2>2, <3>1
  <2>3. ASSUME NEW t \in Threads, LogStep(t)  PROVE Locked' /\ UNCHANGED queueVars
    BY <2>3 DEF LogStep, PrintConsole, CheckAsync, Push, Goto, Locked
  <2>4. CASE StartAasync  BY <2>4 DEF StartAasync, Locked
  <2>5. ASSUME NEW t \in Threads, Terminate(t)  PROVE Locked' /\ UNCHANGED queueVars
    BY <2>5 DEF Terminate, Locked
  <2>6. ASSUME NEW t \in Callers, CallLog(t)  PROVE Locked' /\ UNCHANGED queueVars
    BY <2>6, LoggerAssumption DEF CallLog, BeginLog, Goto, Locked, Threads
  <2>7. ASSUME UNCHANGED vars  PROVE Locked' /\ UNCHANGED queueVars
    BY <2>7 DEF vars, queueVars, Locked
  <2>. QED  BY <2>1, <2>2, <2>3, <2>4, <2>5, <2>6, <2>7 DEF Next, Step
<1>5. LoggerInv /\ [Next]_vars =>
        [Locked => \/ AsyncThreadFunc /\ (~Locked' \/ cnt' = cnt + 1)
                   \/ ~AsyncThreadFunc /\ Locked' /\ UNCHANGED queueVars]_vars
  BY <1>4
<1>. QED  BY <1>1, <1>2, <1>3, <1>5, Invariance, PTL DEF Spec, BatchAdvances

=============================================================================
