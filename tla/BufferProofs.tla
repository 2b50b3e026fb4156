---------------------------- MODULE BufferProofs ----------------------------
(***************************************************************************)
(* The buffer is a byte queue for all bytes, messages and sizes.           *)
(***************************************************************************)
EXTENDS Buffer, SequenceTheorems, TLAPS

Values == Bytes \cup {Nul}

(* The vector after Append, byte by byte.                                  *)
LEMMA AppendedBuffer ==
  ASSUME IndicesOK, NEW message \in Messages, AppendMessage(message)
  PROVE  /\ buffer_' \in Seq(Values)
         /\ write_index_' \in Nat
         /\ write_index_' = write_index_ + Len(message)
         /\ write_index_' <= Len(buffer_')
         /\ \A i \in 1 .. write_index_ : buffer_'[i] = buffer_[i]
         /\ \A i \in 1 .. Len(message) : buffer_'[write_index_ + i] = message[i]
<1> USE BufferAssumption DEF IndicesOK, TypeOK
<1> DEFINE size == EnsureWritableBytes(Len(message))
<1>1. message \in Seq(Bytes) /\ Len(message) \in Nat
  OBVIOUS
<1>2. /\ size \in Nat
      /\ write_index_ + Len(message) <= size
      /\ Len(buffer_) <= size
  BY <1>1 DEF EnsureWritableBytes
<1>3. \A i \in 1 .. Len(message) : message[i] \in Bytes
  BY <1>1
<1>4. /\ buffer_' = [i \in 1 .. size |->
                       IF i \in write_index_ + 1 .. write_index_ + Len(message)
                       THEN message[i - write_index_]
                       ELSE IF i <= Len(buffer_) THEN buffer_[i] ELSE Nul]
      /\ write_index_' = write_index_ + Len(message)
  BY DEF AppendMessage
<1> HIDE DEF size
<1>5. \A i \in 1 .. size :
        (IF i \in write_index_ + 1 .. write_index_ + Len(message)
         THEN message[i - write_index_]
         ELSE IF i <= Len(buffer_) THEN buffer_[i] ELSE Nul) \in Values
  BY <1>1, <1>2, <1>3 DEF Values
<1>6. buffer_' \in [1 .. size -> Values]
  BY <1>4, <1>5
<1>7. buffer_' \in Seq(Values) /\ Len(buffer_') = size
  BY <1>2, <1>6
<1>. QED  BY <1>1, <1>2, <1>4, <1>7

LEMMA InitIndices == Init => IndicesOK
<1> SUFFICES ASSUME Init  PROVE IndicesOK
  OBVIOUS
<1>1. buffer_ \in Seq(Bytes \cup {Nul})
  BY BufferAssumption DEF Init
<1>2. Len(buffer_) \in Nat
  BY <1>1
<1>3. read_index_ = 0 /\ write_index_ = 0
  BY DEF Init
<1>. QED  BY <1>1, <1>2, <1>3 DEF IndicesOK, TypeOK

LEMMA NextIndices == IndicesOK /\ [Next]_vars => IndicesOK'
<1> SUFFICES ASSUME IndicesOK, [Next]_vars  PROVE IndicesOK'
  OBVIOUS
<1>1. ASSUME NEW message \in Messages, AppendMessage(message)
      PROVE  IndicesOK'
  <2>1. Len(message) \in Nat  BY BufferAssumption
  <2>2. read_index_' = read_index_  BY <1>1 DEF AppendMessage
  <2>. QED
    BY <1>1, <2>1, <2>2, AppendedBuffer DEF IndicesOK, TypeOK, Values
<1>2. ASSUME NEW len \in 0 .. readablebytes, Retrieve(len)
      PROVE  IndicesOK'
  BY <1>2 DEF IndicesOK, TypeOK, Retrieve, RetrieveAll, readablebytes
<1>3. CASE UNCHANGED vars
  BY <1>3 DEF vars, IndicesOK, TypeOK
<1>. QED  BY <1>1, <1>2, <1>3 DEF Next

(***************************************************************************)
(* Peek and Append stay inside the vector, and a drained buffer starts     *)
(* again at its beginning (buffer.cpp:20-51), whatever is sent.            *)
(***************************************************************************)
THEOREM IndicesCorrect == Spec => []IndicesOK
BY InitIndices, NextIndices, PTL DEF Spec

-----------------------------------------------------------------------------
(* The bytes of a vector between two indices.                              *)
SliceOf(b, r, w) == SubSeq(b, r + 1, w)

(* A slice of a vector, byte by byte.                                      *)
LEMMA Slice ==
  ASSUME NEW S, NEW b \in Seq(S), NEW r \in Nat, NEW w \in Nat,
         r <= w, w <= Len(b)
  PROVE  /\ SubSeq(b, r + 1, w) \in Seq(S)
         /\ Len(SubSeq(b, r + 1, w)) = w - r
         /\ \A i \in 1 .. w - r : SubSeq(b, r + 1, w)[i] = b[r + i]
OBVIOUS

(* Vector c is vector b with the message written from index w up to e.     *)
WrittenBehind(b, w, c, e, message) ==
  /\ e = w + Len(message)
  /\ e <= Len(c)
  /\ \A i \in 1 .. w : c[i] = b[i]
  /\ \A i \in 1 .. Len(message) : c[w + i] = message[i]

(* Writing a message right behind a slice extends the slice by it.         *)
LEMMA ExtendSlice ==
  ASSUME NEW S, NEW b \in Seq(S), NEW c \in Seq(S), NEW message \in Seq(S),
         NEW r \in Nat, NEW w \in Nat, NEW e \in Nat,
         r <= w, w <= Len(b), WrittenBehind(b, w, c, e, message)
  PROVE  SliceOf(c, r, e) = SliceOf(b, r, w) \o message
<1> DEFINE n == Len(message)
           s == SubSeq(b, r + 1, w)
           t == SubSeq(c, r + 1, w + n)
<1> USE DEF WrittenBehind
<1>0. n \in Nat /\ w + n \in Nat /\ r <= w + n /\ e = w + n
  OBVIOUS
<1>1. /\ s \in Seq(S) /\ Len(s) = w - r
      /\ \A i \in 1 .. w - r : s[i] = b[r + i]
  BY Slice
<1>2. /\ t \in Seq(S) /\ Len(t) = w + n - r
      /\ \A i \in 1 .. w + n - r : t[i] = c[r + i]
  BY <1>0, Slice
<1> HIDE DEF s, t
<1>3. s \o message \in Seq(S) /\ Len(s \o message) = w - r + n
  BY <1>1, ConcatProperties
<1>4. ASSUME NEW i \in 1 .. w + n - r
      PROVE  t[i] = (s \o message)[i]
  <2>1. CASE i <= w - r
    <3>1. r + i \in 1 .. w /\ i \in 1 .. Len(s)
      BY <2>1, <1>1
    <3>2. (s \o message)[i] = s[i]
      BY <3>1, <1>1
    <3>. QED  BY <3>1, <3>2, <2>1, <1>1, <1>2
  <2>2. CASE i > w - r
    <3> DEFINE j == i - (w - r)
    <3>1. j \in 1 .. n /\ r + i = w + j
      BY <2>2, <1>0
    <3>2. (s \o message)[i] = message[j]
      BY <2>2, <1>0, <1>1
    <3>3. t[i] = c[w + j]
      BY <3>1, <1>2
    <3>. QED  BY <3>1, <3>2, <3>3
  <2>3. i \in Int /\ w - r \in Int
    BY <1>0
  <2>4. i <= w - r \/ i > w - r
    BY <2>3
  <2>. QED  BY <2>1, <2>2, <2>4
<1>5. Len(t) = Len(s \o message)  BY <1>0, <1>2, <1>3
<1>6. t = s \o message  BY <1>2, <1>3, <1>4, <1>5, SeqEqual
<1>. QED  BY <1>6, <1>0 DEF s, t, SliceOf

LEMMA AppendPuts ==
  ASSUME IndicesOK, NEW message \in Messages, AppendMessage(message)
  PROVE  Queue!Put(message)
<1>1. message \in Seq(Values) /\ Len(message) \in Nat
  BY BufferAssumption DEF Values
<1>2. /\ buffer_ \in Seq(Values) /\ read_index_ \in Nat /\ write_index_ \in Nat
      /\ read_index_ <= write_index_ /\ write_index_ <= Len(buffer_)
  BY DEF IndicesOK, TypeOK, Values
<1>3. /\ buffer_' \in Seq(Values) /\ write_index_' \in Nat
      /\ WrittenBehind(buffer_, write_index_, buffer_', write_index_', message)
  BY AppendedBuffer DEF WrittenBehind
<1>4. SliceOf(buffer_', read_index_, write_index_')
        = SliceOf(buffer_, read_index_, write_index_) \o message
  BY <1>1, <1>2, <1>3, ExtendSlice
<1>5. read_index_' = read_index_
  BY DEF AppendMessage
<1>. QED  BY <1>4, <1>5 DEF Queue!Put, Readable, SliceOf

(* Dropping bytes at the front of a slice.                                 *)
LEMMA SliceOfSlice ==
  ASSUME NEW S, NEW b \in Seq(S), NEW r \in Nat, NEW w \in Nat, NEW len \in Nat,
         r + len < w, w <= Len(b)
  PROVE  SubSeq(SubSeq(b, r + 1, w), len + 1, w - r)
           = SubSeq(b, r + len + 1, w)
OBVIOUS

LEMMA RetrieveTakes ==
  ASSUME IndicesOK, NEW len \in 0 .. readablebytes, Retrieve(len)
  PROVE  Queue!TakeSome \/ Queue!TakeAll
<1>1. CASE len + read_index_ < write_index_
  <2>1. Len(Readable) = readablebytes
    BY Slice DEF IndicesOK, TypeOK, Readable, readablebytes
  <2>2. len \in 0 .. Len(Readable) /\ len < Len(Readable)
    BY <1>1, <2>1 DEF IndicesOK, TypeOK, readablebytes
  <2>3. Readable' = SubSeq(buffer_, read_index_ + len + 1, write_index_)
    BY <1>1 DEF Retrieve, RetrieveAll, IndicesOK, TypeOK, Readable
  <2>4. Readable' = SubSeq(Readable, len + 1, Len(Readable))
    <3>1. /\ buffer_ \in Seq(Values) /\ read_index_ \in Nat /\ write_index_ \in Nat
          /\ write_index_ <= Len(buffer_) /\ len \in Nat
      BY <2>2, <2>1 DEF IndicesOK, TypeOK, Values, readablebytes
    <3>2. SubSeq(Readable, len + 1, write_index_ - read_index_)
            = SubSeq(buffer_, read_index_ + len + 1, write_index_)
      BY <1>1, <3>1, SliceOfSlice DEF Readable
    <3>. QED  BY <2>1, <2>3, <3>2 DEF readablebytes
  <2>. QED  BY <2>2, <2>4 DEF Queue!TakeSome
<1>2. CASE len + read_index_ >= write_index_
  <2>1. write_index_' = 0 /\ read_index_' = 0 /\ buffer_' = buffer_
    BY <1>2 DEF Retrieve, RetrieveAll, IndicesOK, TypeOK, readablebytes
  <2>2. Readable' = <<>>
    BY <2>1 DEF Readable, IndicesOK, TypeOK
  <2>. QED  BY <2>2 DEF Queue!TakeAll
<1>. QED  BY <1>1, <1>2 DEF IndicesOK, TypeOK, readablebytes

(***************************************************************************)
(* The buffer implements the byte queue: no byte is lost, repeated,        *)
(* reordered or invented, whatever the sizes of the messages and of the    *)
(* pieces the socket takes (buffer.cpp:20-51).                             *)
(***************************************************************************)
THEOREM BufferImplementsByteQueue == Spec => IsByteQueue
<1>1. Init => Queue!Init
  <2> SUFFICES ASSUME Init  PROVE Queue!Init
    OBVIOUS
  <2>1. buffer_ \in Seq(Values)
    BY InitIndices DEF IndicesOK, TypeOK, Values
  <2>. QED  BY <2>1 DEF Init, Queue!Init, Readable
<1>2. IndicesOK /\ [Next]_vars => [Queue!Next]_(Readable)
  <2> SUFFICES ASSUME IndicesOK, [Next]_vars  PROVE Queue!Next \/ Readable' = Readable
    OBVIOUS
  <2>1. CASE UNCHANGED vars  BY <2>1 DEF vars, Readable
  <2>. QED  BY <2>1, AppendPuts, RetrieveTakes DEF Next, Queue!Next
<1>. QED  BY <1>1, <1>2, IndicesCorrect, PTL DEF Spec, IsByteQueue, Queue!Spec
=============================================================================
