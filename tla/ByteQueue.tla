------------------------------ MODULE ByteQueue ------------------------------
(***************************************************************************)
(* What the send buffer of a connection promises the code that fills and   *)
(* drains it (buffer.h): a first-in first-out queue of bytes.              *)
(***************************************************************************)
EXTENDS Sequences, Naturals

CONSTANT Messages   \* the byte sequences that are appended

VARIABLE queue      \* the bytes appended and not yet retrieved

Init == queue = <<>>

Put(message) == queue' = queue \o message

(* At least one byte stays.                                                *)
TakeSome ==
  \E len \in 0 .. Len(queue) :
    len < Len(queue) /\ queue' = SubSeq(queue, len + 1, Len(queue))

TakeAll == queue' = <<>>

Next == (\E message \in Messages : Put(message)) \/ TakeSome \/ TakeAll

Spec == Init /\ [][Next]_queue
=============================================================================
