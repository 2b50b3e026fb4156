-------------------------------- MODULE Buffer --------------------------------
(***************************************************************************)
(* The send buffer of a connection, buffer.cpp: a vector that grows, with  *)
(* a read index and a write index into it.  Indices count from 0 as in the *)
(* code; the byte at index i is buffer_[i + 1].                            *)
(***************************************************************************)
EXTENDS Sequences, Naturals

CONSTANTS
  Bytes,               \* the values of the bytes that are sent
  Nul,                 \* what resize fills new space with
  DEFAULT_INIT_SIZE,   \* size of a new buffer (256 in buffer.h)
  Messages,            \* the byte sequences that are appended
  MaxIndex             \* bound of the model on write_index_: the code has none

ASSUME BufferAssumption ==
  /\ Nul \notin Bytes
  /\ DEFAULT_INIT_SIZE \in Nat
  /\ Messages \subseteq Seq(Bytes)
  /\ MaxIndex \in Nat

VARIABLES buffer_, read_index_, write_index_

vars == <<buffer_, read_index_, write_index_>>

TypeOK ==
  /\ buffer_ \in Seq(Bytes \cup {Nul})
  /\ read_index_ \in Nat
  /\ write_index_ \in Nat

Init ==
  /\ buffer_ = [i \in 1 .. DEFAULT_INIT_SIZE |-> Nul]
  /\ read_index_ = 0
  /\ write_index_ = 0

-----------------------------------------------------------------------------
readablebytes == write_index_ - read_index_

(* The bytes Peek points at.                                               *)
Readable == SubSeq(buffer_, read_index_ + 1, write_index_)

(* The size of the vector after EnsureWritableBytes.                       *)
EnsureWritableBytes(len) ==
  IF write_index_ + len <= Len(buffer_) THEN Len(buffer_)
                                        ELSE write_index_ + len

(* Append: grow, copy the message behind the write index, move the index.  *)
AppendMessage(message) ==
  LET end == write_index_ + Len(message) IN
  /\ end <= MaxIndex
  /\ buffer_' = [i \in 1 .. EnsureWritableBytes(Len(message)) |->
                   IF i \in write_index_ + 1 .. end
                   THEN message[i - write_index_]
                   ELSE IF i <= Len(buffer_) THEN buffer_[i] ELSE Nul]
  /\ write_index_' = end
  /\ UNCHANGED read_index_

(* Mutant: only the read index returns to the start.                       *)
RetrieveAllKeepsWrite ==
  /\ read_index_' = 0
  /\ UNCHANGED <<buffer_, write_index_>>

RetrieveAll ==
  /\ write_index_' = 0
  /\ read_index_' = 0
  /\ UNCHANGED buffer_

(* Mutant: the boundary case moves the index instead of resetting both.    *)
RetrieveInclusive(len) ==
  \/ /\ len + read_index_ <= write_index_
     /\ read_index_' = read_index_ + len
     /\ UNCHANGED <<buffer_, write_index_>>
  \/ len + read_index_ > write_index_ /\ RetrieveAll

Retrieve(len) ==
  \/ /\ len + read_index_ < write_index_
     /\ read_index_' = read_index_ + len
     /\ UNCHANGED <<buffer_, write_index_>>
  \/ len + read_index_ >= write_index_ /\ RetrieveAll

(* The callers retrieve what write(2) took: at most what was readable.     *)
Next ==
  \/ \E message \in Messages : AppendMessage(message)
  \/ \E len \in 0 .. readablebytes : Retrieve(len)

Spec == Init /\ [][Next]_vars

-----------------------------------------------------------------------------
(***************************************************************************)
(* The indices delimit a part of the vector (Peek and the copy of Append   *)
(* stay inside it), and a drained buffer is used again from its start: no  *)
(* sequence of partial retrievals leaves an empty part in the middle       *)
(* (buffer.cpp:34-45), so memory is reclaimed whenever the buffer drains.  *)
(***************************************************************************)
IndicesOK ==
  /\ TypeOK
  /\ read_index_ <= write_index_
  /\ write_index_ <= Len(buffer_)
  /\ read_index_ = write_index_ => write_index_ = 0

(***************************************************************************)
(* The buffer implements a byte queue: what Peek shows is what has been    *)
(* appended and not yet retrieved, in order, across every growth of the    *)
(* vector and reset of the indices (buffer.cpp:21-25, 47-52).              *)
(***************************************************************************)
Queue == INSTANCE ByteQueue WITH queue <- Readable

IsByteQueue == Queue!Spec
=============================================================================
