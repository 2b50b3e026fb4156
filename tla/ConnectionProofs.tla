--------------------------- MODULE ConnectionProofs ---------------------------
(***************************************************************************)
(* The answers of a connection are the requests, byte for byte, for any    *)
(* lengths of messages and of a header, any kernel buffer, and whichever   *)
(* of the three functions sends.  The connection implements EchoService,   *)
(* uses its send buffer as ByteQueue, and leaves nothing undone at rest.   *)
(***************************************************************************)
EXTENDS Connection, SequenceTheorems, TLAPS

-----------------------------------------------------------------------------
(* Sequences.                                                              *)

LEMMA MinOfTwo ==
  ASSUME NEW a \in Nat, NEW b \in Nat
  PROVE  /\ Min({a, b}) \in Nat
         /\ Min({a, b}) <= a /\ Min({a, b}) <= b
         /\ Min({a, b}) = a \/ Min({a, b}) = b
<1> DEFINE m == IF a <= b THEN a ELSE b
<1>1. m \in {a, b} /\ \A y \in {a, b} : m <= y  OBVIOUS
<1>2. \A x \in {a, b} : (\A y \in {a, b} : x <= y) => x = m  OBVIOUS
<1>3. Min({a, b}) = m  BY <1>1, <1>2 DEF Min
<1>. QED  BY <1>3

LEMMA MaxOfTwo ==
  ASSUME NEW a \in Nat, NEW b \in Nat, b <= a
  PROVE  Max({a, b}) = a
<1>1. a \in {a, b} /\ \A y \in {a, b} : a >= y  OBVIOUS
<1>2. \A x \in {a, b} : (\A y \in {a, b} : x >= y) => x = a  OBVIOUS
<1>. QED  BY <1>1, <1>2 DEF Max

(* The n elements of a sequence behind the first a of them.                *)
LEMMA Cut ==
  ASSUME NEW S, NEW s \in Seq(S), NEW a \in Nat, NEW n \in Nat, a + n <= Len(s)
  PROVE  /\ SubSeq(s, a + 1, a + n) \in Seq(S)
         /\ Len(SubSeq(s, a + 1, a + n)) = n
         /\ \A k \in 1 .. n : SubSeq(s, a + 1, a + n)[k] = s[a + k]
<1>1. \A k \in a + 1 .. a + n : s[k] \in S  OBVIOUS
<1>. QED  BY <1>1

LEMMA Joined ==
  ASSUME NEW S, NEW s \in Seq(S), NEW t \in Seq(S)
  PROVE  /\ s \o t \in Seq(S)
         /\ Len(s \o t) = Len(s) + Len(t)
         /\ \A k \in 1 .. Len(s) : (s \o t)[k] = s[k]
         /\ \A k \in 1 .. Len(t) : (s \o t)[Len(s) + k] = t[k]
OBVIOUS

(* A sequence is its first n elements and the others.                      *)
LEMMA SplitAt ==
  ASSUME NEW S, NEW s \in Seq(S), NEW n \in 0 .. Len(s)
  PROVE  /\ SubSeq(s, 1, n) \in Seq(S) /\ SubSeq(s, n + 1, Len(s)) \in Seq(S)
         /\ Len(SubSeq(s, 1, n)) = n
         /\ SubSeq(s, 1, n) \o SubSeq(s, n + 1, Len(s)) = s
<1> DEFINE l == SubSeq(s, 1, n)
           r == SubSeq(s, n + 1, Len(s))
           m == Len(s) - n
<1>0. m \in Nat /\ n \in Nat /\ n + m = Len(s)  OBVIOUS
<1>1. /\ l \in Seq(S) /\ Len(l) = n
      /\ \A k \in 1 .. n : l[k] = s[k]
  BY Cut, 0 + n <= Len(s), 0 + 1 = 1, 0 + n = n, \A k \in 1 .. n : 0 + k = k
<1>2. /\ r \in Seq(S) /\ Len(r) = m
      /\ \A k \in 1 .. m : r[k] = s[n + k]
  <2>1. ASSUME NEW j \in Nat, n + j = Len(s)
        PROVE  /\ SubSeq(s, n + 1, n + j) \in Seq(S)
               /\ Len(SubSeq(s, n + 1, n + j)) = j
               /\ \A k \in 1 .. j : SubSeq(s, n + 1, n + j)[k] = s[n + k]
    <3>1. n \in Nat /\ n + j <= Len(s)  BY <2>1, <1>0
    <3>. QED  BY <3>1, Cut
  <2>. QED  BY <2>1, <1>0
<1>3. /\ l \o r \in Seq(S) /\ Len(l \o r) = Len(s)
      /\ \A k \in 1 .. Len(s) : (l \o r)[k] = s[k]
  <2> HIDE DEF l, r, m
  <2>1. /\ l \o r \in Seq(S) /\ Len(l \o r) = Len(s)
        /\ \A k \in 1 .. n : (l \o r)[k] = l[k]
        /\ \A k \in 1 .. m : (l \o r)[n + k] = r[k]
    BY <1>0, <1>1, <1>2, Joined
  <2>2. ASSUME NEW k \in 1 .. Len(s)  PROVE (l \o r)[k] = s[k]
    <3>0. k \in Nat /\ k >= 1 /\ (k <= n \/ k > n)  BY <1>0
    <3>1. CASE k <= n
      <4>1. k \in 1 .. n  BY <3>0, <3>1, <1>0
      <4>. QED  BY <4>1, <1>1, <2>1
    <3>2. CASE k > n
      <4>1. k - n \in 1 .. m /\ k = n + (k - n)  BY <3>2, <1>0
      <4>2. PICK j \in 1 .. m : k = n + j  BY <4>1
      <4>3. (l \o r)[n + j] = r[j]  BY <2>1
      <4>4. r[j] = s[n + j]  BY <1>2
      <4>. QED  BY <4>2, <4>3, <4>4
    <3>. QED  BY <3>0, <3>1, <3>2
  <2>. QED  BY <2>1, <2>2
<1>4. l \o r = s
  <2> HIDE DEF l, r
  <2>. QED  BY <1>3, SeqEqual
<1>. QED  BY <1>1, <1>2, <1>4

LEMMA PrefixElements ==
  ASSUME NEW S, NEW s \in Seq(S), NEW t \in Seq(S)
  PROVE  IsPrefix(s, t) <=> Len(s) <= Len(t) /\ \A k \in 1 .. Len(s) : s[k] = t[k]
<1>1. SubSeq(s, 1, Len(s)) = s  BY SubSeqFull
<1>2. ASSUME Len(s) <= Len(t)
      PROVE  /\ SubSeq(t, 1, Len(s)) \in Seq(S) /\ Len(SubSeq(t, 1, Len(s))) = Len(s)
             /\ \A k \in 1 .. Len(s) : SubSeq(t, 1, Len(s))[k] = t[k]
  <2> DEFINE n == Len(s)
  <2>1. n \in Nat /\ 0 + n <= Len(t) /\ 0 + 1 = 1 /\ 0 + n = n /\ \A k \in 1 .. n : 0 + k = k
    BY <1>2
  <2>2. /\ SubSeq(t, 1, n) \in Seq(S) /\ Len(SubSeq(t, 1, n)) = n
        /\ \A k \in 1 .. n : SubSeq(t, 1, n)[k] = t[k]
    <3> HIDE DEF n
    <3>. QED  BY <2>1, Cut
  <2>. QED  BY <2>2
<1>3. ASSUME IsPrefix(s, t)  PROVE Len(s) <= Len(t) /\ \A k \in 1 .. Len(s) : s[k] = t[k]
  <2>1. Len(s) <= Len(t) /\ s = SubSeq(t, 1, Len(s))  BY <1>1, <1>3 DEF IsPrefix
  <2>. QED  BY <2>1, <1>2
<1>4. ASSUME Len(s) <= Len(t), \A k \in 1 .. Len(s) : s[k] = t[k]  PROVE IsPrefix(s, t)
  <2>1. s = SubSeq(t, 1, Len(s))  BY <1>4, <1>2, SeqEqual
  <2>. QED  BY <2>1, <1>1, <1>4 DEF IsPrefix
<1>. QED  BY <1>3, <1>4

-----------------------------------------------------------------------------
(* Types, the parts of TypeOK one by one.                                  *)

FlagTypes ==
  /\ peer \in {"open", "shutdown", "reset"}
  /\ sk_err \in {"none", "ECONNRESET", "EPIPE"}
  /\ pc \in {"epoll", "read", "message", "body", "write"}
  /\ events \in SUBSET {"IN", "OUT"}
  /\ state \in {"Connected", "Disconected"}
  /\ fin \in BOOLEAN /\ nospace \in BOOLEAN /\ edge \in BOOLEAN /\ writing \in BOOLEAN
  /\ registered \in BOOLEAN /\ ready_to_handle_message \in BOOLEAN /\ killed \in BOOLEAN

PeerTypes ==
  /\ sent \in Seq(Lengths) /\ Len(sent) <= MaxMessages
  /\ stream \in Seq(Bytes)
  /\ taken \in Nat /\ arrived \in Nat
  /\ taken <= arrived /\ arrived <= Len(stream)

OutTypes ==
  /\ written \in Seq(Bytes) /\ send_buffer \in Seq(Bytes)
  /\ read_by_peer \in Nat /\ read_by_peer <= Len(written)
  /\ Len(written) - read_by_peer <= SendSpace

ParseTypes ==
  /\ header \in Seq(Bytes) /\ read_buffer \in Seq(Bytes)
  /\ Len(header) <= TLV_HEADER_LENGTH /\ length \in Nat
  /\ read_body_length \in Nat /\ read_body_length <= Len(read_buffer)
  /\ Len(read_buffer) <= MAX_TLV_LENGTH

LEMMA ConstantTypes ==
  /\ TLV_HEADER_LENGTH \in Nat /\ TLV_HEADER_LENGTH > 0
  /\ MAX_TLV_LENGTH \in Nat /\ MaxMessages \in Nat /\ SendSpace \in Nat
  /\ Lengths \subseteq Nat
BY ConnectionAssumption

LEMMA TypesOf == TypeOK <=> FlagTypes /\ PeerTypes /\ OutTypes /\ ParseTypes
<1>1. TypeOK => FlagTypes  BY DEF TypeOK, FlagTypes
<1>2. TypeOK => PeerTypes /\ OutTypes /\ ParseTypes
  BY ConstantTypes DEF TypeOK, PeerTypes, OutTypes, ParseTypes, Space
<1>3. ASSUME FlagTypes, PeerTypes, OutTypes, ParseTypes  PROVE TypeOK
  <2>1. Space(written) >= 0 /\ read_by_peer \in 0 .. Len(written)
    BY <1>3, ConstantTypes DEF OutTypes, Space
  <2>2. /\ taken \in 0 .. arrived /\ arrived \in 0 .. Len(stream)
        /\ Len(header) \in 0 .. TLV_HEADER_LENGTH
        /\ read_body_length \in 0 .. Len(read_buffer)
    BY <1>3, ConstantTypes DEF PeerTypes, ParseTypes
  <2>. QED  BY <1>3, <2>1, <2>2 DEF TypeOK, FlagTypes, PeerTypes, OutTypes, ParseTypes
<1>. QED  BY <1>1, <1>2, <1>3

LEMMA HeaderTyped ==
  ASSUME NEW n \in Nat
  PROVE  /\ Header(n) \in Seq(Bytes) /\ Len(Header(n)) = TLV_HEADER_LENGTH
         /\ \A k \in 1 .. TLV_HEADER_LENGTH : Header(n)[k] = <<"len", n, k>>
<1>1. \A k \in 1 .. TLV_HEADER_LENGTH : <<"len", n, k>> \in Bytes
  BY ConstantTypes DEF Bytes
<1>2. Header(n) \in [1 .. TLV_HEADER_LENGTH -> Bytes]  BY <1>1 DEF Header
<1>3. Header(n) \in Seq(Bytes) /\ Len(Header(n)) = TLV_HEADER_LENGTH
  BY <1>2, ConstantTypes
<1>. QED  BY <1>3 DEF Header

LEMMA BodyTyped ==
  ASSUME NEW m \in Nat, NEW n \in Nat
  PROVE  /\ Body(m, n) \in Seq(Bytes) /\ Len(Body(m, n)) = n
         /\ \A k \in 1 .. n : Body(m, n)[k] = <<"body", m, k>>
<1>1. \A k \in 1 .. n : <<"body", m, k>> \in Bytes  BY DEF Bytes
<1>2. Body(m, n) \in [1 .. n -> Bytes]  BY <1>1 DEF Body
<1>3. Body(m, n) \in Seq(Bytes) /\ Len(Body(m, n)) = n  BY <1>2
<1>. QED  BY <1>3 DEF Body

LEMMA OutputTyped ==
  ASSUME OutTypes
  PROVE  /\ Output \in Seq(Bytes) /\ Len(Output) = Len(written) + Len(send_buffer)
BY DEF OutTypes, Output

-----------------------------------------------------------------------------
(* What sending does to the output.                                        *)

LEMMA TakenBounds ==
  ASSUME OutTypes, NEW data \in Seq(Bytes)
  PROVE  /\ Taken(data) \in 0 .. Len(data)
         /\ Len(written) + Taken(data) - read_by_peer <= SendSpace
<1>1. Space(written) \in Nat /\ Space(written) = SendSpace - (Len(written) - read_by_peer)
  BY ConstantTypes DEF OutTypes, Space
<1>2. Len(data) \in Nat  OBVIOUS
<1>3. Taken(data) \in Nat /\ Taken(data) <= Len(data) /\ Taken(data) <= Space(written)
  BY <1>1, <1>2, MinOfTwo DEF Taken
<1>. QED  BY <1>1, <1>2, <1>3, ConstantTypes DEF OutTypes

(* The bytes the kernel takes, and those it leaves.                        *)
LEMMA Writes ==
  ASSUME OutTypes, NEW data \in Seq(Bytes), WriteTakes(data),
         read_by_peer' = read_by_peer
  PROVE  /\ written' \in Seq(Bytes) /\ Len(written') = Len(written) + Taken(data)
         /\ Len(written') >= Len(written)
         /\ Len(written') - read_by_peer' <= SendSpace
         /\ SubSeq(data, Taken(data) + 1, Len(data)) \in Seq(Bytes)
         /\ written' \o SubSeq(data, Taken(data) + 1, Len(data)) = written \o data
         /\ state' = state
<1> DEFINE n == Taken(data)
           front == SubSeq(data, 1, n)
           rest == SubSeq(data, n + 1, Len(data))
<1>1. n \in 0 .. Len(data) /\ n \in Nat /\ Len(written) + n - read_by_peer <= SendSpace
  BY TakenBounds
<1>2. /\ front \in Seq(Bytes) /\ rest \in Seq(Bytes) /\ Len(front) = n
      /\ front \o rest = data
  <2> HIDE DEF n
  <2>. QED  BY <1>1, SplitAt
<1>3. written \in Seq(Bytes) /\ written' = written \o front /\ state' = state
  BY DEF OutTypes, WriteTakes
<1> HIDE DEF n, front, rest
<1>4. (written \o front) \o rest = written \o (front \o rest)
  <2>1. written \in Seq(Bytes) /\ front \in Seq(Bytes) /\ rest \in Seq(Bytes)
    BY <1>2, <1>3
  <2>. QED  BY <2>1, ConcatAssociative
<1>5. written' \in Seq(Bytes) /\ Len(written') = Len(written) + n
  BY <1>2, <1>3, Joined
<1>6. Len(written) \in Nat /\ read_by_peer \in Nat  BY <1>3 DEF OutTypes
<1>7. Len(written') >= Len(written) /\ Len(written') - read_by_peer' <= SendSpace
  BY <1>1, <1>5, <1>6
<1>8. written' \o rest = written \o data  BY <1>2, <1>3, <1>4
<1>. QED  BY <1>2, <1>3, <1>5, <1>7, <1>8 DEF n, rest

(* Either all of data joins the output, or the write fails.                *)
Sent(data) ==
  \/ Output' = Output \o data /\ state' = state
  \/ /\ Reset /\ send_buffer = <<>>
     /\ send_buffer' = send_buffer /\ written' = written /\ state' = "Disconected"

LEMMA Keeping ==
  ASSUME OutTypes, NEW data \in Seq(Bytes), NoWrite, Keep(data),
         read_by_peer' = read_by_peer
  PROVE  OutTypes' /\ Sent(data)
<1>1. /\ written' = written /\ state' = state /\ send_buffer' = send_buffer \o data
      /\ written \in Seq(Bytes) /\ send_buffer \in Seq(Bytes)
  BY DEF NoWrite, Keep, OutTypes
<1>2. send_buffer' \in Seq(Bytes)  BY <1>1
<1>3. written \o (send_buffer \o data) = (written \o send_buffer) \o data
  BY <1>1, ConcatAssociative
<1>4. OutTypes'  BY <1>1, <1>2 DEF OutTypes
<1>5. Output' = Output \o data  BY <1>1, <1>3 DEF Output
<1>. QED  BY <1>1, <1>4, <1>5 DEF Sent

LEMMA Sending ==
  ASSUME OutTypes, NEW data \in Seq(Bytes), SendInternal(data),
         read_by_peer' = read_by_peer
  PROVE  OutTypes' /\ Sent(data)
<1>0. written \in Seq(Bytes) /\ send_buffer \in Seq(Bytes)  BY DEF OutTypes
<1>1. CASE send_buffer # <<>> /\ NoWrite /\ Keep(data)
  BY <1>1, Keeping
<1>2. CASE /\ send_buffer = <<>>
           /\ WriteTakes(data)
           /\ Short(data) /\ Keep(SubSeq(data, Taken(data) + 1, Len(data)))
  <2> DEFINE rest == SubSeq(data, Taken(data) + 1, Len(data))
  <2>1. /\ written' \in Seq(Bytes) /\ Len(written') >= Len(written)
        /\ Len(written') - read_by_peer' <= SendSpace
        /\ rest \in Seq(Bytes) /\ written' \o rest = written \o data
        /\ state' = state
    BY <1>2, Writes
  <2>2. send_buffer' = <<>> \o rest  BY <1>2 DEF Keep
  <2> HIDE DEF rest
  <2>3. send_buffer' = rest  BY <2>1, <2>2
  <2>4. written \o <<>> = written  BY <1>0
  <2>5. Output' = Output \o data  BY <1>2, <2>1, <2>3, <2>4 DEF Output
  <2>6. OutTypes'  BY <2>1, <2>3 DEF OutTypes
  <2>. QED  BY <2>1, <2>5, <2>6 DEF Sent
<1>3. CASE /\ send_buffer = <<>>
           /\ WriteTakes(data)
           /\ ~Short(data) /\ UNCHANGED <<send_buffer, writing, edge, nospace>>
  <2> DEFINE rest == SubSeq(data, Taken(data) + 1, Len(data))
  <2>1. /\ written' \in Seq(Bytes) /\ Len(written') >= Len(written)
        /\ Len(written') - read_by_peer' <= SendSpace
        /\ rest \in Seq(Bytes) /\ written' \o rest = written \o data
        /\ state' = state
    BY <1>3, Writes
  <2>2. rest = <<>>
    <3>1. Taken(data) \in 0 .. Len(data) /\ ~(Taken(data) < Len(data))
      BY <1>3, TakenBounds DEF Short
    <3>2. Taken(data) = Len(data)  BY <3>1
    <3>. QED  BY <3>2, SubSeqEmpty
  <2> HIDE DEF rest
  <2>3. written' \o <<>> = written' /\ written \o <<>> = written  BY <1>0, <2>1
  <2>4. send_buffer' = send_buffer  BY <1>3
  <2>5. Output' = Output \o data  BY <1>3, <2>1, <2>2, <2>3, <2>4 DEF Output
  <2>6. OutTypes'  BY <1>0, <2>1, <2>4 DEF OutTypes
  <2>. QED  BY <2>1, <2>5, <2>6 DEF Sent
<1>4. CASE send_buffer = <<>> /\ WriteFails
  BY <1>4 DEF OutTypes, Sent, WriteFails, HandleClose
<1>5. CASE /\ send_buffer # <<>> /\ NoWrite /\ data = <<>>
           /\ UNCHANGED <<send_buffer, writing, edge, nospace>>
  <2>1. Output' = Output /\ Output \o <<>> = Output
    BY <1>0, <1>5, ConcatProperties DEF Output, NoWrite
  <2>2. OutTypes'  BY <1>5 DEF OutTypes, NoWrite
  <2>. QED  BY <1>5, <2>1, <2>2 DEF Sent, NoWrite
<1>. QED  BY <1>1, <1>2, <1>3, <1>4, <1>5 DEF SendInternal

(* The write callback moves bytes from the send buffer to the kernel.      *)
LEMMA Flushing ==
  ASSUME OutTypes, WriteNonBlocking
  PROVE  /\ OutTypes' /\ Output' = Output
         /\ state' = state \/ state' = "Disconected"
<1>0. send_buffer \in Seq(Bytes) /\ read_by_peer' = read_by_peer
  BY DEF OutTypes, WriteNonBlocking, sendUnchanged
<1>1. CASE WriteTakes(send_buffer) /\ Retrieve(Taken(send_buffer))
  <2>1. /\ written' \in Seq(Bytes) /\ Len(written') >= Len(written)
        /\ Len(written') - read_by_peer' <= SendSpace
        /\ SubSeq(send_buffer, Taken(send_buffer) + 1, Len(send_buffer)) \in Seq(Bytes)
        /\ written' \o SubSeq(send_buffer, Taken(send_buffer) + 1, Len(send_buffer))
             = written \o send_buffer
        /\ state' = state
    BY <1>0, <1>1, Writes
  <2>2. send_buffer' = SubSeq(send_buffer, Taken(send_buffer) + 1, Len(send_buffer))
    BY <1>1 DEF Retrieve
  <2>3. Output' = Output  BY <2>1, <2>2 DEF Output
  <2>4. OutTypes'  BY <1>0, <2>1, <2>2 DEF OutTypes
  <2>. QED  BY <2>1, <2>3, <2>4
<1>2. CASE WriteFails
  BY <1>0, <1>2 DEF OutTypes, Output, WriteFails, HandleClose
<1>. QED  BY <1>1, <1>2 DEF WriteNonBlocking

-----------------------------------------------------------------------------
(* What handling a message does, and that every step keeps the types.      *)

Answer == Header(Len(read_buffer)) \o read_buffer

LEMMA AnswerTyped ==
  ASSUME ParseTypes
  PROVE  /\ Len(read_buffer) \in Nat /\ read_buffer \in Seq(Bytes)
         /\ Header(Len(read_buffer)) \in Seq(Bytes)
         /\ Answer \in Seq(Bytes)
<1>1. Len(read_buffer) \in Nat /\ read_buffer \in Seq(Bytes)  BY DEF ParseTypes
<1>2. Header(Len(read_buffer)) \in Seq(Bytes)  BY <1>1, HeaderTyped
<1>. QED  BY <1>1, <1>2, Joined DEF Answer

LEMMA Handling ==
  ASSUME OutTypes, ParseTypes, HandleMessage
  PROVE  /\ OutTypes'
         /\ UNCHANGED <<length, read_buffer, taken, stream, peer>>
         /\ pc' \in {"epoll", "write", "body"}
         /\ ready_to_handle_message' = FALSE
         /\ \/ /\ ready_to_handle_message
               /\ header' = <<>> /\ read_body_length' = 0
               /\ \/ state = "Connected" /\ pc' # "body" /\ Sent(Answer)
                  \/ state = "Connected" /\ pc' = "body" /\ Sent(Header(Len(read_buffer)))
                  \/ state # "Connected" /\ pc' # "body" /\ Output' = Output /\ state' = state
            \/ /\ ~ready_to_handle_message
               /\ header' = header /\ read_body_length' = read_body_length
               /\ pc' # "body" /\ Output' = Output /\ state' = state
<1>1. /\ UNCHANGED <<length, read_buffer, taken, stream, peer>>
      /\ read_by_peer' = read_by_peer
      /\ ready_to_handle_message \/ ~ready_to_handle_message
  BY DEF HandleMessage, sendUnchanged, peerVars, inVars
<1>2. Answer \in Seq(Bytes) /\ Header(Len(read_buffer)) \in Seq(Bytes)
  BY AnswerTyped
<1>3. CASE /\ ready_to_handle_message /\ ready_to_handle_message' = FALSE
           /\ NextMessage /\ OnMessage
  <2>1. header' = <<>> /\ read_body_length' = 0  BY <1>3 DEF NextMessage
  <2>2. CASE state = "Connected" /\ Send2(Answer) /\ Continue
    <3>1. OutTypes' /\ Sent(Answer)  BY <1>1, <1>2, <2>2, Keeping DEF Send2
    <3>2. pc' \in {"epoll", "write"}  BY <2>2 DEF Continue
    <3>. QED  BY <1>1, <1>3, <2>1, <2>2, <3>1, <3>2
  <2>3. CASE state = "Connected" /\ Send(Answer) /\ Continue
    <3>1. OutTypes' /\ Sent(Answer)  BY <1>1, <1>2, <2>3, Sending DEF Send
    <3>2. pc' \in {"epoll", "write"}  BY <2>3 DEF Continue
    <3>. QED  BY <1>1, <1>3, <2>1, <2>3, <3>1, <3>2
  <2>4. CASE state = "Connected" /\ SendWithTwoSysCall
    <3>1. SendInternal(Header(Len(read_buffer))) /\ pc' = "body"
      BY <2>4 DEF SendWithTwoSysCall
    <3>2. OutTypes' /\ Sent(Header(Len(read_buffer)))  BY <1>1, <1>2, <3>1, Sending
    <3>. QED  BY <1>1, <1>3, <2>1, <2>4, <3>1, <3>2
  <2>5. CASE /\ state # "Connected" /\ Continue /\ NoWrite
             /\ UNCHANGED <<send_buffer, writing, edge, nospace>>
    <3>1. OutTypes' /\ Output' = Output /\ state' = state
      BY <1>1, <2>5 DEF OutTypes, Output, NoWrite
    <3>2. pc' \in {"epoll", "write"}  BY <2>5 DEF Continue
    <3>. QED  BY <1>1, <1>3, <2>1, <2>5, <3>1, <3>2
  <2>. QED  BY <1>3, <2>2, <2>3, <2>4, <2>5 DEF OnMessage, Answer
<1>4. CASE /\ ~ready_to_handle_message
           /\ Continue
           /\ NoWrite /\ UNCHANGED <<send_buffer, writing, edge, nospace, header,
                                     read_body_length, ready_to_handle_message>>
  <2>1. OutTypes' /\ Output' = Output /\ state' = state
    BY <1>1, <1>4 DEF OutTypes, Output, NoWrite
  <2>2. pc' \in {"epoll", "write"}  BY <1>4 DEF Continue
  <2>3. ready_to_handle_message' = FALSE  BY <1>4
  <2>. QED  BY <1>1, <1>4, <2>1, <2>2, <2>3
<1>. QED  BY <1>3, <1>4 DEF HandleMessage

-----------------------------------------------------------------------------
(* What reading does to the header and the buffer.                         *)

LEMMA ReadsHeader ==
  ASSUME PeerTypes, ParseTypes, ReadHeader
  PROVE  \E n \in Nat \ {0} :
           /\ taken' = taken + n /\ taken + n <= arrived
           /\ header' \in Seq(Bytes) /\ Len(header') = Len(header) + n
           /\ Len(header) + n <= TLV_HEADER_LENGTH
           /\ \A k \in 1 .. Len(header) : header'[k] = header[k]
           /\ \A k \in 1 .. n : header'[Len(header) + k] = stream[taken + k]
<1> DEFINE room == TLV_HEADER_LENGTH - Len(header)
           n == Min({Available, room})
<1>1. /\ taken \in Nat /\ arrived \in Nat /\ arrived <= Len(stream)
      /\ stream \in Seq(Bytes) /\ header \in Seq(Bytes)
      /\ Available \in Nat \ {0} /\ room \in Nat \ {0} /\ Available = arrived - taken
  BY ConstantTypes DEF PeerTypes, ParseTypes, ReadHeader, Available
<1>2. n \in Nat \ {0} /\ n <= Available /\ n <= room
  <2> HIDE DEF room
  <2>. QED  BY <1>1, MinOfTwo
<1>3. header' = header \o SubSeq(stream, taken + 1, taken + n) /\ taken' = taken + n
  BY DEF ReadHeader, NextBytes
<1> DEFINE bytes == SubSeq(stream, taken + 1, taken + n)
<1>4. taken + n <= arrived /\ Len(header) + n <= TLV_HEADER_LENGTH /\ taken + n <= Len(stream)
  <2> HIDE DEF n
  <2>. QED  BY <1>1, <1>2, ConstantTypes
<1> HIDE DEF n
<1>5. /\ bytes \in Seq(Bytes) /\ Len(bytes) = n
      /\ \A k \in 1 .. n : bytes[k] = stream[taken + k]
  BY <1>1, <1>2, <1>4, Cut
<1> HIDE DEF bytes
<1>6. header' = header \o bytes  BY <1>3 DEF bytes
<1>7. /\ header' \in Seq(Bytes) /\ Len(header') = Len(header) + n
      /\ \A k \in 1 .. Len(header) : header'[k] = header[k]
      /\ \A k \in 1 .. n : header'[Len(header) + k] = bytes[k]
  <2>1. header \in Seq(Bytes) /\ bytes \in Seq(Bytes)  BY <1>1, <1>5
  <2>2. /\ header \o bytes \in Seq(Bytes)
        /\ Len(header \o bytes) = Len(header) + Len(bytes)
        /\ \A k \in 1 .. Len(header) : (header \o bytes)[k] = header[k]
        /\ \A k \in 1 .. Len(bytes) : (header \o bytes)[Len(header) + k] = bytes[k]
    BY <2>1, Joined
  <2>3. /\ header \o bytes \in Seq(Bytes)
        /\ Len(header \o bytes) = Len(header) + n
        /\ \A k \in 1 .. Len(header) : (header \o bytes)[k] = header[k]
        /\ \A k \in 1 .. n : (header \o bytes)[Len(header) + k] = bytes[k]
    BY <1>5, <2>2, Zenon
  <2>. QED  BY <1>6, <2>3, Zenon
<1>. QED  BY <1>2, <1>3, <1>4, <1>5, <1>7

(* The last byte of the header tells the length of the body.               *)
LEMMA HeaderEnds ==
  ASSUME ReadHeader
  PROVE  \/ /\ Len(header') < TLV_HEADER_LENGTH
            /\ pc' = pc /\ state' = state /\ length' = length /\ read_buffer' = read_buffer
         \/ /\ Len(header') = TLV_HEADER_LENGTH /\ length' = header'[1][2]
            /\ \/ /\ TooLong(length') /\ read_buffer' = read_buffer
                  /\ state' = "Disconected" /\ pc' = "message"
               \/ /\ ~TooLong(length') /\ read_buffer' = Resized(read_buffer, length')
                  /\ state' = state /\ pc' = pc
BY DEF ReadHeader, HandleClose

LEMMA ReadsBody ==
  ASSUME PeerTypes, ParseTypes, ReadBody
  PROVE  \E n \in Nat \ {0} :
           /\ taken' = taken + n /\ taken + n <= arrived
           /\ read_body_length' = read_body_length + n
           /\ read_buffer' \in Seq(Bytes) /\ Len(read_buffer') = Len(read_buffer)
           /\ read_body_length + n <= Len(read_buffer)
           /\ \A k \in 1 .. read_body_length : read_buffer'[k] = read_buffer[k]
           /\ \A k \in 1 .. n : read_buffer'[read_body_length + k] = stream[taken + k]
<1> DEFINE r == read_body_length
           n == Min({Available, BodyRoom})
<1>1. /\ taken \in Nat /\ arrived \in Nat /\ arrived <= Len(stream)
      /\ stream \in Seq(Bytes) /\ read_buffer \in Seq(Bytes) /\ Len(read_buffer) \in Nat
      /\ Available \in Nat \ {0} /\ Available = arrived - taken
      /\ BodyRoom \in Nat \ {0} /\ BodyRoom = Len(read_buffer) - r /\ r \in Nat
  BY DEF PeerTypes, ParseTypes, ReadBody, Available, BodyRoom
<1>2. n \in Nat \ {0} /\ n <= Available /\ n <= BodyRoom
  BY <1>1, MinOfTwo
<1>3. /\ taken' = taken + n /\ read_body_length' = r + n
      /\ read_buffer' = [k \in 1 .. Max({Len(read_buffer), r + n}) |->
                           IF k \in r + 1 .. r + n THEN stream[taken + k - r] ELSE read_buffer[k]]
  BY DEF ReadBody
<1> HIDE DEF n, r
<1>4. /\ r + n \in Nat /\ r + n <= Len(read_buffer)
      /\ taken + n <= arrived /\ taken + n <= Len(stream)
  BY <1>1, <1>2
<1>5. Max({Len(read_buffer), r + n}) = Len(read_buffer)
  BY <1>1, <1>4, MaxOfTwo
<1>6. read_buffer' = [k \in 1 .. Len(read_buffer) |->
                        IF k \in r + 1 .. r + n THEN stream[taken + k - r] ELSE read_buffer[k]]
  BY <1>3, <1>5
<1>7. \A k \in 1 .. Len(read_buffer) : read_buffer'[k] \in Bytes
  <2>1. ASSUME NEW k \in r + 1 .. r + n  PROVE stream[taken + k - r] \in Bytes
    <3>1. taken + k - r \in 1 .. Len(stream)  BY <1>1, <1>2, <1>4
    <3>. QED  BY <3>1, <1>1
  <2>2. \A k \in 1 .. Len(read_buffer) : read_buffer[k] \in Bytes  BY <1>1
  <2>. QED  BY <1>6, <2>1, <2>2
<1>8. read_buffer' \in Seq(Bytes) /\ Len(read_buffer') = Len(read_buffer)
  <2>1. read_buffer' \in [1 .. Len(read_buffer) -> Bytes]  BY <1>6, <1>7
  <2>. QED  BY <1>1, <2>1
<1>9. \A k \in 1 .. r : read_buffer'[k] = read_buffer[k]
  BY <1>1, <1>2, <1>4, <1>6
<1>10. ASSUME NEW k \in 1 .. n  PROVE read_buffer'[r + k] = stream[taken + k]
  <2>1. r + k \in 1 .. Len(read_buffer) /\ r + k \in r + 1 .. r + n
    BY <1>1, <1>2, <1>4
  <2>2. taken + (r + k) - r = taken + k  BY <1>1, <1>2
  <2>3. read_buffer'[r + k] = stream[taken + (r + k) - r]  BY <1>6, <2>1
  <2>. QED  BY <2>2, <2>3
<1>. QED  BY <1>2, <1>3, <1>4, <1>8, <1>9, <1>10 DEF r

LEMMA ResizedTyped ==
  ASSUME NEW buffer \in Seq(Bytes), NEW n \in Nat
  PROVE  Resized(buffer, n) \in Seq(Bytes) /\ Len(Resized(buffer, n)) = n
<1>1. <<"nul", 0, 0>> \in Bytes  BY DEF Bytes
<1>2. Resized(buffer, n) \in [1 .. n -> Bytes]
  BY <1>1 DEF Resized
<1>. QED  BY <1>2

-----------------------------------------------------------------------------
(* Every step keeps the types.                                             *)

LEMMA NextFlags == ASSUME FlagTypes, [Next]_vars PROVE FlagTypes'
<1> USE DEF FlagTypes
<1>1. CASE EpollWait
  <2>1. edge' \in BOOLEAN /\ events' \in SUBSET {"IN", "OUT"} /\ nospace' \in BOOLEAN
    BY <1>1 DEF EpollWait, Readiness
  <2>2. pc' \in {"epoll", "read", "message", "body", "write"}  BY <1>1 DEF EpollWait
  <2>. QED  BY <1>1, <2>1, <2>2 DEF EpollWait, peerVars, inVars, parseVars
<1>2. CASE Read
  <2> USE DEF Read, readUnchanged, peerVars, inVars, outVars, channelVars, parseVars,
              HandleClose
  <2>1. CASE ReadHeader  BY <1>2, <2>1 DEF ReadHeader
  <2>2. CASE ReadBody  BY <1>2, <2>2 DEF ReadBody
  <2>3. CASE ReadNoRoom  BY <1>2, <2>3 DEF ReadNoRoom
  <2>4. CASE ReadAgain  BY <1>2, <2>4 DEF ReadAgain
  <2>5. CASE ReadEnd  BY <1>2, <2>5 DEF ReadEnd
  <2>. QED  BY <1>2, <2>1, <2>2, <2>3, <2>4, <2>5
<1>3. CASE HandleMessage
  <2> USE DEF HandleMessage, sendUnchanged, peerVars, inVars, channelVars, Continue,
              NoWrite, WriteTakes, WriteFails, HandleClose, Keep, EnableWrite
  <2>1. CASE OnMessage /\ ready_to_handle_message' = FALSE
    BY <1>3, <2>1 DEF OnMessage, SendWithTwoSysCall, Send, Send2, SendInternal
  <2>2. CASE ~OnMessage
    BY <1>3, <2>2
  <2>. QED  BY <1>3, <2>1, <2>2
<1>4. CASE SendBody
  BY <1>4 DEF SendBody, sendUnchanged, parseVars, peerVars, inVars, channelVars, Continue,
      NoWrite, WriteTakes, WriteFails, HandleClose, Keep, EnableWrite, SendInternal
<1>5. CASE WriteNonBlocking
  BY <1>5 DEF WriteNonBlocking, sendUnchanged, parseVars, peerVars, inVars, channelVars,
      WriteTakes, WriteFails, HandleClose, EnableWrite, Retrieve
<1>6. CASE ConnectionDestructor
  BY <1>6 DEF ConnectionDestructor, parseVars, peerVars, inVars, outVars
<1>7. CASE Peer
  <2> USE DEF threadVars, parseVars, inVars, outVars, channelVars
  <2>1. CASE PeerSend  BY <2>1 DEF PeerSend
  <2>2. CASE PeerShutdown  BY <2>2 DEF PeerShutdown
  <2>3. CASE PeerReset  BY <2>3 DEF PeerReset
  <2>4. CASE PeerRead  BY <2>4 DEF PeerRead, peerVars
  <2>5. CASE Deliver  BY <2>5 DEF Deliver, peerVars
  <2>6. CASE DeliverEnd  BY <2>6 DEF DeliverEnd, peerVars
  <2>. QED  BY <1>7, <2>1, <2>2, <2>3, <2>4, <2>5, <2>6 DEF Peer
<1>8. CASE UNCHANGED vars
  BY <1>8 DEF vars, peerVars, inVars, outVars, channelVars, parseVars
<1>. QED  BY <1>1, <1>2, <1>3, <1>4, <1>5, <1>6, <1>7, <1>8 DEF Next, Thread

LEMMA NextPeerTypes ==
  ASSUME PeerTypes, ParseTypes, OutTypes, [Next]_vars  PROVE PeerTypes'
<1>1. CASE Read
  <2>1. UNCHANGED <<sent, stream, arrived>>
    BY <1>1 DEF Read, readUnchanged, peerVars
  <2>2. taken' \in Nat /\ taken' <= arrived
    <3>1. CASE ReadHeader  BY <3>1, ReadsHeader DEF PeerTypes
    <3>2. CASE ReadBody  BY <3>2, ReadsBody DEF PeerTypes
    <3>3. CASE ReadNoRoom \/ ReadAgain \/ ReadEnd
      BY <3>3 DEF PeerTypes, ReadNoRoom, ReadAgain, ReadEnd
    <3>. QED  BY <1>1, <3>1, <3>2, <3>3 DEF Read
  <2>. QED  BY <2>1, <2>2 DEF PeerTypes
<1>2. CASE PeerSend
  <2>1. PICK n \in Lengths :
          /\ sent' = Append(sent, n)
          /\ stream' = stream \o (Header(n) \o Body(Len(sent) + 1, n))
    BY <1>2 DEF PeerSend
  <2>2. n \in Nat /\ Len(sent) + 1 \in Nat /\ stream \in Seq(Bytes)
    BY ConstantTypes DEF PeerTypes
  <2>3. Header(n) \in Seq(Bytes) /\ Body(Len(sent) + 1, n) \in Seq(Bytes)
    BY <2>2, HeaderTyped, BodyTyped
  <2>4. Header(n) \o Body(Len(sent) + 1, n) \in Seq(Bytes)  BY <2>3, Joined
  <2>5. stream' \in Seq(Bytes) /\ Len(stream') >= Len(stream)
    <3> HIDE DEF Header, Body
    <3> DEFINE new == Header(n) \o Body(Len(sent) + 1, n)
    <3>1. new \in Seq(Bytes) /\ stream' = stream \o new  BY <2>1, <2>4
    <3> HIDE DEF new
    <3>. QED  BY <2>2, <3>1
  <2>6. sent' \in Seq(Lengths) /\ Len(sent') <= MaxMessages
    BY <1>2, <2>1, ConstantTypes DEF PeerTypes, PeerSend
  <2>7. taken' = taken /\ arrived' = arrived  BY <1>2 DEF PeerSend, inVars
  <2>. QED  BY <2>2, <2>5, <2>6, <2>7 DEF PeerTypes
<1>3. CASE Deliver
  BY <1>3 DEF PeerTypes, Deliver, peerVars
<1>4. CASE UNCHANGED <<sent, stream, arrived, taken>>
  BY <1>4 DEF PeerTypes
<1>5. CASE \/ EpollWait \/ HandleMessage \/ SendBody \/ WriteNonBlocking
           \/ ConnectionDestructor \/ PeerShutdown \/ PeerReset \/ PeerRead \/ DeliverEnd
           \/ UNCHANGED vars
  BY <1>4, <1>5 DEF EpollWait, HandleMessage, SendBody, WriteNonBlocking,
      ConnectionDestructor, PeerShutdown, PeerReset, PeerRead, DeliverEnd, vars, sendUnchanged,
      peerVars, inVars
<1>. QED  BY <1>1, <1>2, <1>3, <1>5 DEF Next, Thread, Peer

LEMMA NextOutTypes ==
  ASSUME OutTypes, ParseTypes, [Next]_vars  PROVE OutTypes'
<1>1. CASE HandleMessage  BY <1>1, Handling
<1>2. CASE SendBody
  <2>1. read_buffer \in Seq(Bytes)  BY DEF ParseTypes
  <2>2. SendInternal(read_buffer) /\ read_by_peer' = read_by_peer
    BY <1>2 DEF SendBody, sendUnchanged
  <2>. QED  BY <2>1, <2>2, Sending
<1>3. CASE WriteNonBlocking  BY <1>3, Flushing
<1>4. CASE PeerRead
  <2>1. PICK n \in 1 .. Len(written) - read_by_peer : read_by_peer' = read_by_peer + n
    BY <1>4 DEF PeerRead
  <2>2. written' = written /\ send_buffer' = send_buffer
    BY <1>4 DEF PeerRead, threadVars
  <2>3. Len(written) \in Nat  BY DEF OutTypes
  <2>. QED  BY <2>1, <2>2, <2>3, ConstantTypes DEF OutTypes
<1>5. CASE UNCHANGED <<written, read_by_peer, send_buffer>>
  BY <1>5 DEF OutTypes
<1>6. CASE \/ EpollWait \/ Read \/ ConnectionDestructor \/ PeerSend \/ PeerShutdown
           \/ PeerReset \/ Deliver \/ DeliverEnd \/ UNCHANGED vars
  BY <1>5, <1>6 DEF EpollWait, Read, readUnchanged, ConnectionDestructor, PeerSend,
      PeerShutdown, PeerReset, Deliver, DeliverEnd, vars, outVars, threadVars
<1>. QED  BY <1>1, <1>2, <1>3, <1>4, <1>6 DEF Next, Thread, Peer

LEMMA NextParseTypes ==
  ASSUME PeerTypes, OutTypes, ParseTypes, ParseInv, [Next]_vars  PROVE ParseTypes'
<1>1. CASE ReadHeader /\ Read
  <2>1. /\ header' \in Seq(Bytes) /\ Len(header') <= TLV_HEADER_LENGTH
        /\ Len(header') \in Nat
    BY <1>1, ReadsHeader
  <2>2. read_body_length' = read_body_length /\ read_body_length = 0
    BY <1>1 DEF ReadHeader, ParseInv
  <2>3. CASE /\ Len(header') < TLV_HEADER_LENGTH
             /\ length' = length /\ read_buffer' = read_buffer
    BY <2>1, <2>2, <2>3, ConstantTypes DEF ParseTypes
  <2>4. CASE /\ Len(header') = TLV_HEADER_LENGTH /\ length' = header'[1][2]
             /\ \/ TooLong(length') /\ read_buffer' = read_buffer
                \/ ~TooLong(length') /\ read_buffer' = Resized(read_buffer, length')
    <3>1. header'[1] \in Bytes  BY <2>1, <2>4, ConstantTypes
    <3>2. length' \in Nat  BY <2>4, <3>1 DEF Bytes
    <3>3. CASE TooLong(length') /\ read_buffer' = read_buffer
      BY <2>1, <2>2, <3>2, <3>3 DEF ParseTypes
    <3>4. CASE ~TooLong(length') /\ read_buffer' = Resized(read_buffer, length')
      <4>1. read_buffer' \in Seq(Bytes) /\ Len(read_buffer') = length'
        BY <3>2, <3>4, ResizedTyped DEF ParseTypes
      <4>2. length' <= MAX_TLV_LENGTH  BY <3>2, <3>4, ConstantTypes DEF TooLong
      <4>. QED  BY <2>1, <2>2, <3>2, <4>1, <4>2 DEF ParseTypes
    <3>. QED  BY <2>4, <3>3, <3>4
  <2>. QED  BY <1>1, <2>3, <2>4, HeaderEnds
<1>2. CASE ReadBody /\ Read
  <2>1. UNCHANGED <<header, length>>  BY <1>2 DEF ReadBody
  <2>2. /\ read_buffer' \in Seq(Bytes) /\ Len(read_buffer') = Len(read_buffer)
        /\ read_body_length' \in Nat /\ read_body_length' <= Len(read_buffer)
    BY <1>2, ReadsBody DEF ParseTypes
  <2>. QED  BY <2>1, <2>2 DEF ParseTypes
<1>3. CASE HandleMessage
  <2>1. /\ UNCHANGED <<length, read_buffer>>
        /\ \/ header' = <<>> /\ read_body_length' = 0
           \/ header' = header /\ read_body_length' = read_body_length
    BY <1>3, Handling
  <2>2. CASE header' = header /\ read_body_length' = read_body_length
    BY <2>1, <2>2 DEF ParseTypes
  <2>3. CASE header' = <<>> /\ read_body_length' = 0
    BY <2>1, <2>3, ConstantTypes DEF ParseTypes
  <2>. QED  BY <2>1, <2>2, <2>3
<1>4. CASE UNCHANGED <<header, length, read_buffer, read_body_length>>
  BY <1>4 DEF ParseTypes
<1>5. CASE \/ EpollWait \/ ReadNoRoom \/ ReadAgain \/ ReadEnd \/ SendBody \/ WriteNonBlocking
           \/ ConnectionDestructor \/ Peer \/ UNCHANGED vars
  BY <1>4, <1>5 DEF EpollWait, ReadNoRoom, ReadAgain, ReadEnd, SendBody, WriteNonBlocking,
      ConnectionDestructor, Peer, PeerSend, PeerShutdown, PeerReset, PeerRead, Deliver,
      DeliverEnd, vars, threadVars, parseVars
<1>. QED  BY <1>1, <1>2, <1>3, <1>5 DEF Next, Thread, Read

LEMMA NextTypes == ASSUME TypeOK, ParseInv, [Next]_vars PROVE TypeOK'
<1>1. FlagTypes /\ PeerTypes /\ OutTypes /\ ParseTypes  BY TypesOf
<1>2. FlagTypes' /\ PeerTypes' /\ OutTypes' /\ ParseTypes'
  BY <1>1, NextFlags, NextPeerTypes, NextOutTypes, NextParseTypes
<1>3. (TypeOK <=> FlagTypes /\ PeerTypes /\ OutTypes /\ ParseTypes)'
  BY TypesOf, PTL
<1>. QED  BY <1>2, <1>3

-----------------------------------------------------------------------------
(* The stream only grows, by whole messages.                               *)

Extends ==
  /\ Len(stream) <= Len(stream')
  /\ \A k \in 1 .. Len(stream) : stream'[k] = stream[k]
  /\ Heads \subseteq Heads'

LEMMA StreamStays ==
  ASSUME PeerTypes, stream' = stream
  PROVE  Extends /\ (FramedInv => FramedInv')
<1>1. Heads' = Heads  BY DEF Heads
<1>2. Len(stream) \in Nat  BY DEF PeerTypes
<1>3. FramedInv => FramedInv'  BY <1>1 DEF FramedInv
<1>. QED  BY <1>1, <1>2, <1>3 DEF Extends

(* What the peer sends is a header and its body.                           *)
LEMMA SendAppends ==
  ASSUME PeerTypes, PeerSend
  PROVE  \E n \in Lengths :
           /\ sent' = Append(sent, n)
           /\ Len(stream') = Len(stream) + (TLV_HEADER_LENGTH + n)
           /\ \A k \in 1 .. Len(stream) : stream'[k] = stream[k]
           /\ \A k \in 1 .. TLV_HEADER_LENGTH : stream'[Len(stream) + k] = <<"len", n, k>>
           /\ \A k \in 1 .. n :
                stream'[Len(stream) + (TLV_HEADER_LENGTH + k)] = <<"body", Len(sent) + 1, k>>
<1> DEFINE L == Len(stream)
           H == TLV_HEADER_LENGTH
           m == Len(sent) + 1
<1>1. PICK n \in Lengths : /\ sent' = Append(sent, n)
                           /\ stream' = stream \o (Header(n) \o Body(m, n))
  BY DEF PeerSend
<1>2. /\ n \in Nat /\ m \in Nat /\ stream \in Seq(Bytes) /\ L \in Nat
      /\ H \in Nat /\ H > 0
  BY ConstantTypes DEF PeerTypes
<1> HIDE DEF m
<1>3. /\ Header(n) \in Seq(Bytes) /\ Len(Header(n)) = H
      /\ \A k \in 1 .. H : Header(n)[k] = <<"len", n, k>>
  BY <1>2, HeaderTyped
<1>4. /\ Body(m, n) \in Seq(Bytes) /\ Len(Body(m, n)) = n
      /\ \A k \in 1 .. n : Body(m, n)[k] = <<"body", m, k>>
  BY <1>2, BodyTyped
<1> DEFINE new == Header(n) \o Body(m, n)
<1>5. /\ new \in Seq(Bytes) /\ Len(new) = H + n
      /\ \A k \in 1 .. H : new[k] = Header(n)[k]
      /\ \A k \in 1 .. n : new[H + k] = Body(m, n)[k]
  <2>1. Header(n) \in Seq(Bytes) /\ Body(m, n) \in Seq(Bytes)  BY <1>3, <1>4
  <2>2. /\ new \in Seq(Bytes) /\ Len(new) = Len(Header(n)) + Len(Body(m, n))
        /\ \A k \in 1 .. Len(Header(n)) : new[k] = Header(n)[k]
        /\ \A k \in 1 .. Len(Body(m, n)) : new[Len(Header(n)) + k] = Body(m, n)[k]
    BY <2>1, Joined
  <2> HIDE DEF new
  <2>. QED  BY <1>3, <1>4, <2>2
<1>6. stream' = stream \o new  BY <1>1
<1> HIDE DEF new
<1>7. /\ Len(stream') = L + (H + n)
      /\ \A k \in 1 .. L : stream'[k] = stream[k]
      /\ \A k \in 1 .. H + n : stream'[L + k] = new[k]
  <2>1. stream \in Seq(Bytes) /\ new \in Seq(Bytes)  BY <1>2, <1>5
  <2>2. /\ Len(stream \o new) = Len(stream) + Len(new)
        /\ \A k \in 1 .. Len(stream) : (stream \o new)[k] = stream[k]
        /\ \A k \in 1 .. Len(new) : (stream \o new)[Len(stream) + k] = new[k]
    BY <2>1, Joined
  <2>. QED  BY <1>5, <1>6, <2>2
<1>8. \A k \in 1 .. H : stream'[L + k] = <<"len", n, k>>
  <2> TAKE k \in 1 .. H
  <2>1. k \in 1 .. H + n  BY <1>2
  <2>. QED  BY <2>1, <1>3, <1>5, <1>7
<1>9. \A k \in 1 .. n : stream'[L + (H + k)] = <<"body", m, k>>
  <2> TAKE k \in 1 .. n
  <2>1. H + k \in 1 .. H + n  BY <1>2
  <2>. QED  BY <2>1, <1>4, <1>5, <1>7
<1>. QED  BY <1>1, <1>7, <1>8, <1>9 DEF m

LEMMA SendExtends ==
  ASSUME PeerTypes, FramedInv, PeerSend
  PROVE  Extends /\ FramedInv'
<1> DEFINE L == Len(stream)
           H == TLV_HEADER_LENGTH
           m == Len(sent) + 1
<1>1. PICK n \in Lengths :
        /\ Len(stream') = L + (H + n)
        /\ \A k \in 1 .. L : stream'[k] = stream[k]
        /\ \A k \in 1 .. H : stream'[L + k] = <<"len", n, k>>
        /\ \A k \in 1 .. n : stream'[L + (H + k)] = <<"body", m, k>>
  BY SendAppends
<1>2. n \in Nat /\ L \in Nat /\ H \in Nat /\ H > 0
  BY ConstantTypes DEF PeerTypes
<1> HIDE DEF L, H, m
<1>10. Heads' = {p \in 0 .. Len(stream') : p = Len(stream')
                                            \/ (stream'[p + 1][1] = "len" /\ stream'[p + 1][3] = 1)}
  BY DEF Heads
<1>11. Heads = {p \in 0 .. L : p = L \/ (stream[p + 1][1] = "len" /\ stream[p + 1][3] = 1)}
  BY DEF Heads, L
<1>12. ASSUME NEW p \in Heads  PROVE p \in Heads'
  <2>1. p \in 0 .. L /\ p \in 0 .. Len(stream')  BY <1>2, <1>1, <1>11
  <2>2. CASE p = L
    <3>1. stream'[L + 1] = <<"len", n, 1>>  BY <1>2, <1>1
    <3>. QED  BY <2>1, <2>2, <3>1, <1>10
  <2>3. CASE p # L
    <3>1. p + 1 \in 1 .. L  BY <1>2, <2>1, <2>3
    <3>2. stream'[p + 1] = stream[p + 1]  BY <1>1, <3>1
    <3>. QED  BY <2>1, <2>3, <3>2, <1>10, <1>11
  <2>. QED  BY <2>2, <2>3
<1>13. ASSUME NEW p \in Heads', p # Len(stream')  PROVE p \in Heads
  <2>1. p \in 0 .. L + (H + n) /\ p # L + (H + n)  BY <1>1, <1>10, <1>13
  <2>2. stream'[p + 1][1] = "len" /\ stream'[p + 1][3] = 1  BY <1>10, <1>13
  <2>3. CASE p < L
    <3>1. p + 1 \in 1 .. L /\ p \in 0 .. L  BY <1>2, <2>1, <2>3
    <3>2. stream'[p + 1] = stream[p + 1]  BY <1>1, <3>1
    <3>. QED  BY <2>2, <3>1, <3>2, <1>11
  <2>4. CASE p >= L /\ p < L + H
    <3>1. p + 1 - L \in 1 .. H /\ p + 1 = L + (p + 1 - L)  BY <1>2, <2>1, <2>4
    <3>2. PICK k \in 1 .. H : p + 1 = L + k  BY <3>1
    <3>3. stream'[p + 1] = <<"len", n, k>>  BY <1>1, <3>2
    <3>4. k = 1  BY <2>2, <3>3
    <3>5. p = L  BY <1>2, <2>1, <3>2, <3>4
    <3>. QED  BY <1>2, <1>11, <3>5
  <2>5. CASE p >= L + H
    <3>1. p + 1 - (L + H) \in 1 .. n /\ p + 1 = L + (H + (p + 1 - (L + H)))
      BY <1>2, <2>1, <2>5
    <3>2. PICK k \in 1 .. n : p + 1 = L + (H + k)  BY <3>1
    <3>3. stream'[p + 1] = <<"body", m, k>>  BY <1>1, <3>2
    <3>. QED  BY <2>2, <3>3
  <2>. QED  BY <1>2, <2>1, <2>3, <2>4, <2>5
<1>14. Extends
  <2>1. Len(stream) <= Len(stream')  BY <1>2, <1>1 DEF L
  <2>. QED  BY <2>1, <1>1, <1>12 DEF Extends, L
<1>15. 0 \in Heads'  BY <1>12 DEF FramedInv
<1>16. ASSUME NEW p \in Heads' \ {Len(stream')}
       PROVE  \E j \in Lengths : /\ p + H + j \in Heads'
                                 /\ \A k \in 1 .. H : stream'[p + k] = <<"len", j, k>>
  <2>1. p \in Heads /\ p \in 0 .. L  BY <1>13, <1>16, <1>11
  <2>2. CASE p = L
    <3>1. p + H + n = Len(stream')  BY <1>2, <1>1, <2>2
    <3>2. p + H + n \in Heads'  BY <1>2, <1>1, <1>10, <3>1
    <3>. QED  BY <1>1, <2>2, <3>2
  <2>3. CASE p # L
    <3>1. PICK j \in Lengths : /\ p + H + j \in Heads
                               /\ \A k \in 1 .. H : stream[p + k] = <<"len", j, k>>
      BY <2>1, <2>3 DEF FramedInv, H, L
    <3>2. p + H + j \in 0 .. L /\ j \in Nat  BY <3>1, <1>11, ConstantTypes
    <3>3. ASSUME NEW k \in 1 .. H  PROVE stream'[p + k] = <<"len", j, k>>
      <4>1. p + k \in 1 .. L  BY <1>2, <2>1, <3>2
      <4>. QED  BY <1>1, <3>1, <4>1
    <3>. QED  BY <1>12, <3>1, <3>3
  <2>. QED  BY <2>2, <2>3
<1>17. FramedInv'
  <2>1. TLV_HEADER_LENGTH' = TLV_HEADER_LENGTH  OBVIOUS
  <2>. QED  BY <1>15, <1>16 DEF FramedInv, H
<1>. QED  BY <1>14, <1>17

LEMMA NextFramed ==
  ASSUME PeerTypes, FramedInv, [Next]_vars  PROVE Extends /\ FramedInv'
<1>1. CASE PeerSend  BY <1>1, SendExtends
<1>2. CASE stream' = stream  BY <1>2, StreamStays
<1>3. CASE \/ EpollWait \/ Read \/ HandleMessage \/ SendBody \/ WriteNonBlocking
           \/ ConnectionDestructor \/ PeerShutdown \/ PeerReset \/ PeerRead \/ Deliver
           \/ DeliverEnd \/ UNCHANGED vars
  BY <1>2, <1>3 DEF EpollWait, Read, readUnchanged, HandleMessage, SendBody,
      WriteNonBlocking, ConnectionDestructor, PeerShutdown, PeerReset, PeerRead, Deliver,
      DeliverEnd, vars, sendUnchanged, peerVars
<1>. QED  BY <1>1, <1>3 DEF Next, Thread, Peer

-----------------------------------------------------------------------------
(* header and read_buffer hold the beginning of a message.                 *)

LEMMA PosTyped ==
  ASSUME PeerTypes, ParseTypes, ParseInv
  PROVE  /\ Pos \in Nat /\ Len(stream) \in Nat /\ taken \in Nat
         /\ taken = Pos + Len(header) + read_body_length /\ taken <= Len(stream)
         /\ Len(header) \in Nat /\ read_body_length \in Nat
<1>1. Pos \in 0 .. Len(stream)  BY DEF ParseInv, Heads
<1>2. /\ Len(stream) \in Nat /\ taken \in Nat /\ taken <= Len(stream)
      /\ Len(header) \in Nat /\ read_body_length \in Nat
  BY DEF PeerTypes, ParseTypes
<1>. QED  BY <1>1, <1>2 DEF Pos

(* When a message is complete, it is the next one of the stream.           *)
LEMMA WholeMessage ==
  ASSUME PeerTypes, ParseTypes, FramedInv, ParseInv, ready_to_handle_message
  PROVE  /\ Pos + TLV_HEADER_LENGTH + length = taken /\ taken \in Heads
         /\ read_body_length = length
         /\ \A k \in 1 .. TLV_HEADER_LENGTH : stream[Pos + k] = <<"len", length, k>>
<1>1. Len(header) = TLV_HEADER_LENGTH /\ read_body_length = length
  BY ConstantTypes DEF ParseInv, ParseTypes
<1>2. length = header[1][2] /\ header[1] = stream[Pos + 1]
  BY <1>1, ConstantTypes DEF ParseInv
<1>3. Pos \in Heads /\ Pos # Len(stream)
  BY <1>1, PosTyped, ConstantTypes DEF ParseInv
<1>4. PICK n \in Lengths :
        /\ Pos + TLV_HEADER_LENGTH + n \in Heads
        /\ \A k \in 1 .. TLV_HEADER_LENGTH : stream[Pos + k] = <<"len", n, k>>
  BY <1>3 DEF FramedInv
<1>5. stream[Pos + 1] = <<"len", n, 1>>  BY <1>4, ConstantTypes
<1>6. n = length  BY <1>2, <1>5
<1>7. Pos + TLV_HEADER_LENGTH + length = taken  BY <1>1, PosTyped
<1>. QED  BY <1>1, <1>4, <1>6, <1>7

(* Steps that read nothing leave it so.                                    *)
LEMMA ParseStays ==
  ASSUME PeerTypes, ParseTypes, ParseInv, Extends,
         taken' = taken, header' = header, length' = length, read_buffer' = read_buffer,
         read_body_length' = read_body_length,
         state' = state \/ state' = "Disconected",
         ready_to_handle_message' = ready_to_handle_message,
         ready_to_handle_message => pc' = "message",
         pc' = "body" => header = <<>> /\ read_body_length = 0
  PROVE  ParseInv'
<1>1. Pos' = Pos  BY DEF Pos
<1>2. Pos \in Heads'  BY DEF ParseInv, Extends
<1>3. ASSUME NEW k \in 1 .. Len(header)  PROVE header'[k] = stream'[Pos + k]
  <2>1. Pos + k \in 1 .. Len(stream)  BY PosTyped
  <2>2. header[k] = stream[Pos + k]  BY DEF ParseInv
  <2>. QED  BY <2>1, <2>2 DEF Extends
<1>4. ASSUME NEW k \in 1 .. read_body_length
      PROVE  read_buffer'[k] = stream'[Pos + TLV_HEADER_LENGTH + k]
  <2>1. Len(header) = TLV_HEADER_LENGTH
    BY PosTyped, ConstantTypes DEF ParseInv, ParseTypes
  <2>2. Pos + TLV_HEADER_LENGTH + k \in 1 .. Len(stream)  BY <2>1, PosTyped
  <2>3. read_buffer[k] = stream[Pos + TLV_HEADER_LENGTH + k]  BY DEF ParseInv
  <2>. QED  BY <2>2, <2>3 DEF Extends
<1>5. TLV_HEADER_LENGTH' = TLV_HEADER_LENGTH /\ MAX_TLV_LENGTH' = MAX_TLV_LENGTH  OBVIOUS
<1>6. Len(header) < TLV_HEADER_LENGTH => read_body_length' = 0 /\ ~ready_to_handle_message'
  BY DEF ParseInv
<1>7. Len(header) = TLV_HEADER_LENGTH =>
        /\ length = header[1][2]
        /\ IF length > MAX_TLV_LENGTH THEN state' = "Disconected" /\ ~ready_to_handle_message'
                                      ELSE Len(read_buffer) = length
  BY DEF ParseInv
<1>8. ready_to_handle_message' => pc' = "message" /\ read_body_length = length
  BY DEF ParseInv
<1>. QED  BY <1>1, <1>2, <1>3, <1>4, <1>6, <1>7, <1>8 DEF ParseInv

LEMMA HeaderParsed ==
  ASSUME PeerTypes, ParseTypes, ParseInv, stream' = stream, Read, ReadHeader
  PROVE  ParseInv'
<1> DEFINE H == TLV_HEADER_LENGTH
<1>1. PICK n \in Nat \ {0} :
        /\ taken' = taken + n /\ taken + n <= arrived
        /\ header' \in Seq(Bytes) /\ Len(header') = Len(header) + n
        /\ Len(header) + n <= H
        /\ \A k \in 1 .. Len(header) : header'[k] = header[k]
        /\ \A k \in 1 .. n : header'[Len(header) + k] = stream[taken + k]
  BY ReadsHeader
<1>2. /\ read_body_length = 0 /\ read_body_length' = 0
      /\ ~ready_to_handle_message /\ ~ready_to_handle_message'
      /\ pc = "read"
  BY DEF Read, ReadHeader, ParseInv
<1>3. Pos' = Pos /\ Pos' \in Heads'
  <2>1. Pos' = taken' - Len(header') - read_body_length'  BY DEF Pos
  <2>2. Pos' = Pos  BY <1>1, <1>2, <2>1, PosTyped
  <2>3. Heads' = Heads  BY DEF Heads
  <2>. QED  BY <2>2, <2>3 DEF ParseInv
<1>4. ASSUME NEW k \in 1 .. Len(header')  PROVE header'[k] = stream'[Pos' + k]
  <2>1. CASE k <= Len(header)
    <3>1. k \in 1 .. Len(header)  BY <1>1, <2>1, PosTyped
    <3>2. header[k] = stream[Pos + k]  BY <3>1 DEF ParseInv
    <3>. QED  BY <1>1, <1>3, <3>1, <3>2
  <2>2. CASE k > Len(header)
    <3>1. k - Len(header) \in 1 .. n /\ k = Len(header) + (k - Len(header))
      BY <1>1, <2>2, PosTyped
    <3>2. PICK j \in 1 .. n : k = Len(header) + j  BY <3>1
    <3>3. header'[k] = stream[taken + j]  BY <1>1, <3>2
    <3>4. taken + j = Pos + k  BY <1>2, <3>2, PosTyped
    <3>. QED  BY <1>3, <3>3, <3>4
  <2>3. k \in Nat  BY <1>1, PosTyped
  <2>. QED  BY <2>1, <2>2, <2>3, PosTyped
<1>5. Len(header') = H =>
        /\ length' = header'[1][2]
        /\ IF length' > MAX_TLV_LENGTH THEN state' = "Disconected"
                                       ELSE Len(read_buffer') = length'
  <2> SUFFICES ASSUME Len(header') = H
               PROVE  /\ length' = header'[1][2]
                      /\ IF length' > MAX_TLV_LENGTH THEN state' = "Disconected"
                                                     ELSE Len(read_buffer') = length'
    OBVIOUS
  <2>1. H \in Nat /\ H > 0  BY ConstantTypes
  <2>2. /\ length' = header'[1][2]
        /\ \/ TooLong(length') /\ state' = "Disconected"
           \/ ~TooLong(length') /\ read_buffer' = Resized(read_buffer, length')
    BY <2>1, HeaderEnds
  <2>3. header'[1] \in Bytes  BY <1>1, <2>1
  <2>4. length' \in Nat  BY <2>2, <2>3 DEF Bytes
  <2>5. Len(Resized(read_buffer, length')) = length'
    BY <2>4, ResizedTyped DEF ParseTypes
  <2>. QED  BY <2>2, <2>5 DEF TooLong
<1>6. pc' # "body"  BY <1>2, HeaderEnds
<1>. QED  BY <1>2, <1>3, <1>4, <1>5, <1>6 DEF ParseInv

LEMMA BodyParsed ==
  ASSUME PeerTypes, ParseTypes, ParseInv, stream' = stream, Read, ReadBody
  PROVE  ParseInv'
<1> DEFINE H == TLV_HEADER_LENGTH
           r == read_body_length
<1>1. PICK n \in Nat \ {0} :
        /\ taken' = taken + n /\ taken + n <= arrived
        /\ read_body_length' = r + n
        /\ read_buffer' \in Seq(Bytes) /\ Len(read_buffer') = Len(read_buffer)
        /\ r + n <= Len(read_buffer)
        /\ \A k \in 1 .. r : read_buffer'[k] = read_buffer[k]
        /\ \A k \in 1 .. n : read_buffer'[r + k] = stream[taken + k]
  BY ReadsBody
<1>2. /\ Len(header) = H /\ header' = header /\ length' = length /\ state' = state
      /\ ~ready_to_handle_message /\ pc = "read"
  BY DEF Read, ReadBody, ParseInv
<1>3. \/ ready_to_handle_message' /\ pc' = "message" /\ read_body_length' = length
      \/ ~ready_to_handle_message' /\ pc' = "read"
  BY <1>2 DEF ReadBody
<1>4. Pos' = Pos /\ Pos' \in Heads'
  <2>1. Pos' = taken' - Len(header') - read_body_length'  BY DEF Pos
  <2>2. Pos' = Pos  BY <1>1, <1>2, <2>1, PosTyped
  <2>3. Heads' = Heads  BY DEF Heads
  <2>. QED  BY <2>2, <2>3 DEF ParseInv
<1>5. ASSUME NEW k \in 1 .. Len(header')  PROVE header'[k] = stream'[Pos' + k]
  BY <1>2, <1>4 DEF ParseInv
<1>6. ASSUME NEW k \in 1 .. read_body_length'  PROVE read_buffer'[k] = stream'[Pos' + H + k]
  <2>1. CASE k <= r
    <3>1. k \in 1 .. r  BY <1>1, <2>1, PosTyped
    <3>2. read_buffer[k] = stream[Pos + H + k]  BY <3>1 DEF ParseInv
    <3>. QED  BY <1>1, <1>4, <3>1, <3>2
  <2>2. CASE k > r
    <3>1. k - r \in 1 .. n /\ k = r + (k - r)  BY <1>1, <2>2, PosTyped
    <3>2. PICK j \in 1 .. n : k = r + j  BY <3>1
    <3>3. read_buffer'[k] = stream[taken + j]  BY <1>1, <3>2
    <3>4. taken + j = Pos + H + k  BY <1>2, <3>2, PosTyped
    <3>. QED  BY <1>4, <3>3, <3>4
  <2>3. k \in Nat  BY <1>1, PosTyped
  <2>. QED  BY <2>1, <2>2, <2>3, PosTyped
<1>7. /\ length' = header'[1][2]
      /\ IF length' > MAX_TLV_LENGTH THEN state' = "Disconected" /\ ~ready_to_handle_message'
                                     ELSE Len(read_buffer') = length'
  <2>1. /\ length = header[1][2]
        /\ IF length > MAX_TLV_LENGTH THEN state = "Disconected"
                                      ELSE Len(read_buffer) = length
    BY <1>2 DEF ParseInv
  <2>2. length > MAX_TLV_LENGTH => read_body_length' # length
    BY <1>1, PosTyped, ConstantTypes DEF ParseTypes
  <2>. QED  BY <1>1, <1>2, <1>3, <2>1, <2>2
<1>8. ~(Len(header') < H)  BY <1>2, ConstantTypes
<1>9. pc' # "body"  BY <1>3
<1>. QED  BY <1>2, <1>3, <1>4, <1>5, <1>6, <1>7, <1>8, <1>9 DEF ParseInv

LEMMA NoRoomParsed ==
  ASSUME PeerTypes, ParseTypes, ParseInv, stream' = stream, Read, ReadNoRoom
  PROVE  ParseInv'
<1> DEFINE r == read_body_length
<1>1. /\ Len(header) = TLV_HEADER_LENGTH /\ pc = "read" /\ pc' = "message"
      /\ ~ready_to_handle_message /\ r = Len(read_buffer)
      /\ taken' = taken /\ header' = header /\ length' = length
      /\ read_buffer' = read_buffer /\ read_body_length' = r
      /\ \/ r = length /\ ready_to_handle_message' /\ state' = state
         \/ /\ r # length /\ state' = "Disconected"
            /\ ready_to_handle_message' = ready_to_handle_message
  BY PosTyped DEF Read, ReadNoRoom, BodyRoom, HandleClose, ParseInv, ParseTypes
<1>2. Pos' = Pos /\ Heads' = Heads  BY <1>1 DEF Pos, Heads
<1>3. r = length => ~(length > MAX_TLV_LENGTH)
  BY <1>1, PosTyped, ConstantTypes DEF ParseTypes
<1>4. /\ length = header[1][2]
      /\ IF length > MAX_TLV_LENGTH THEN state = "Disconected"
                                    ELSE Len(read_buffer) = length
  BY <1>1 DEF ParseInv
<1>5. IF length > MAX_TLV_LENGTH THEN state' = "Disconected" /\ ~ready_to_handle_message'
                                 ELSE Len(read_buffer) = length
  BY <1>1, <1>3, <1>4
<1>6. ~(Len(header) < TLV_HEADER_LENGTH)  BY <1>1, ConstantTypes
<1>7. /\ Pos \in Heads
      /\ \A k \in 1 .. Len(header) : header[k] = stream[Pos + k]
      /\ \A k \in 1 .. r : read_buffer[k] = stream[Pos + TLV_HEADER_LENGTH + k]
  BY DEF ParseInv
<1>8. ready_to_handle_message' => pc' = "message" /\ r = length  BY <1>1
<1>. QED  BY <1>1, <1>2, <1>4, <1>5, <1>6, <1>7, <1>8 DEF ParseInv

LEMMA HandlingParsed ==
  ASSUME FlagTypes, PeerTypes, ParseTypes, OutTypes, FramedInv, ParseInv, Extends,
         HandleMessage
  PROVE  ParseInv'
<1>1. /\ length' = length /\ read_buffer' = read_buffer /\ taken' = taken
      /\ stream' = stream /\ ready_to_handle_message' = FALSE
      /\ pc' \in {"epoll", "write", "body"}
      /\ \/ ready_to_handle_message /\ header' = <<>> /\ read_body_length' = 0
         \/ /\ ~ready_to_handle_message
            /\ header' = header /\ read_body_length' = read_body_length
            /\ pc' # "body" /\ state' = state
  BY Handling
<1>2. CASE ready_to_handle_message /\ header' = <<>> /\ read_body_length' = 0
  <2>1. taken \in Heads /\ Heads' = Heads  BY <1>1, <1>2, WholeMessage DEF Heads
  <2>2. Pos' = taken  BY <1>1, <1>2, PosTyped DEF Pos
  <2>3. Len(header') = 0  BY <1>2
  <2>. QED  BY <1>1, <1>2, <2>1, <2>2, <2>3, ConstantTypes DEF ParseInv
<1>3. CASE /\ ~ready_to_handle_message
           /\ header' = header /\ read_body_length' = read_body_length
           /\ pc' # "body" /\ state' = state
  <2>1. ready_to_handle_message' = ready_to_handle_message  BY <1>1, <1>3 DEF FlagTypes
  <2>. QED  BY <1>1, <1>3, <2>1, ParseStays
<1>. QED  BY <1>1, <1>2, <1>3

LEMMA NextParse ==
  ASSUME FlagTypes, PeerTypes, ParseTypes, OutTypes, FramedInv, ParseInv, [Next]_vars
  PROVE  ParseInv'
<1>0. Extends  BY NextFramed
<1>1. CASE Read
  <2>1. stream' = stream /\ pc = "read" /\ ~ready_to_handle_message
    BY <1>1 DEF Read, readUnchanged, peerVars, ParseInv
  <2>2. CASE ReadHeader  BY <1>1, <2>1, <2>2, HeaderParsed
  <2>3. CASE ReadBody  BY <1>1, <2>1, <2>3, BodyParsed
  <2>4. CASE ReadNoRoom  BY <1>1, <2>1, <2>4, NoRoomParsed
  <2>5. CASE ReadAgain
    <3>1. /\ taken' = taken /\ header' = header /\ length' = length
          /\ read_buffer' = read_buffer /\ read_body_length' = read_body_length
          /\ state' = state /\ ready_to_handle_message' = ready_to_handle_message
          /\ pc' = "message"
      BY <2>5 DEF ReadAgain, parseVars
    <3>. QED  BY <1>0, <3>1, ParseStays
  <2>6. CASE ReadEnd
    <3>1. /\ taken' = taken /\ header' = header /\ length' = length
          /\ read_buffer' = read_buffer /\ read_body_length' = read_body_length
          /\ state' = "Disconected" /\ ready_to_handle_message' = ready_to_handle_message
          /\ pc' = "message"
      BY <2>6 DEF ReadEnd, parseVars, HandleClose
    <3>. QED  BY <1>0, <3>1, ParseStays
  <2>. QED  BY <1>1, <2>2, <2>3, <2>4, <2>5, <2>6 DEF Read
<1>2. CASE HandleMessage  BY <1>0, <1>2, HandlingParsed
<1>3. CASE /\ UNCHANGED <<parseVars, taken>> /\ (state' = state \/ state' = "Disconected")
           /\ pc' = pc \/ (pc # "message" /\ pc' # "body")
  <2>1. /\ taken' = taken /\ header' = header /\ length' = length
        /\ read_buffer' = read_buffer /\ read_body_length' = read_body_length
        /\ ready_to_handle_message' = ready_to_handle_message
    BY <1>3 DEF parseVars
  <2>2. /\ ready_to_handle_message => pc' = "message"
        /\ pc' = "body" => header = <<>> /\ read_body_length = 0
    BY <1>3 DEF ParseInv
  <2>. QED  BY <1>0, <1>3, <2>1, <2>2, ParseStays
<1>4. CASE EpollWait
  <2>1. UNCHANGED <<parseVars, taken>> /\ state' = state  BY <1>4 DEF EpollWait, inVars
  <2>2. pc # "message" /\ pc' # "body"  BY <1>4 DEF EpollWait
  <2>. QED  BY <1>3, <2>1, <2>2
<1>5. CASE SendBody
  <2>1. UNCHANGED <<parseVars, taken>> /\ pc # "message" /\ pc' # "body"
    BY <1>5 DEF SendBody, sendUnchanged, inVars, Continue
  <2>2. state' = state \/ state' = "Disconected"
    BY <1>5 DEF SendBody, SendInternal, NoWrite, WriteTakes, WriteFails, HandleClose
  <2>. QED  BY <1>3, <2>1, <2>2
<1>6. CASE WriteNonBlocking
  <2>1. UNCHANGED <<parseVars, taken>> /\ pc # "message" /\ pc' # "body"
    <3>1. UNCHANGED <<parseVars, inVars>> /\ pc = "write" /\ pc' = "epoll"
      BY <1>6 DEF WriteNonBlocking, sendUnchanged
    <3>. QED  BY <3>1 DEF inVars
  <2>2. state' = state \/ state' = "Disconected"  BY <1>6, Flushing
  <2>. QED  BY <1>3, <2>1, <2>2
<1>7. CASE ConnectionDestructor
  BY <1>3, <1>7 DEF ConnectionDestructor, inVars
<1>8. CASE Peer
  <2>1. UNCHANGED <<parseVars, taken>> /\ state' = state /\ pc' = pc
    BY <1>8 DEF Peer, PeerSend, PeerShutdown, PeerReset, PeerRead, Deliver, DeliverEnd,
        inVars, threadVars
  <2>. QED  BY <1>3, <2>1
<1>9. CASE UNCHANGED vars
  BY <1>3, <1>9 DEF vars, inVars
<1>. QED  BY <1>1, <1>2, <1>4, <1>5, <1>6, <1>7, <1>8, <1>9 DEF Next, Thread

-----------------------------------------------------------------------------
(* What the server answers is what the peer sent.                          *)

Echoed ==
  /\ Len(Output) <= Len(stream)
  /\ \A k \in 1 .. Len(Output) : Output[k] = stream[k]

LEMMA EchoElements == TypeOK => (EchoInOrder <=> Echoed)
<1> SUFFICES ASSUME TypeOK  PROVE EchoInOrder <=> Echoed
  OBVIOUS
<1>1. Output \in Seq(Bytes) /\ stream \in Seq(Bytes)
  BY TypesOf, OutputTyped DEF PeerTypes
<1>2. EchoInOrder <=> IsPrefix(Output, stream)  BY DEF EchoInOrder, Output
<1>. QED  BY <1>1, <1>2, PrefixElements DEF Echoed

LEMMA EchoStays ==
  ASSUME PeerTypes, OutTypes, Echoed, Extends, PeerTypes', Output' = Output
  PROVE  Echoed'
<1>1. Len(Output) \in Nat /\ Len(stream) \in Nat /\ Len(stream') \in Nat
  BY OutputTyped DEF PeerTypes, OutTypes
<1>2. \A k \in 1 .. Len(Output) : k \in 1 .. Len(stream)  BY <1>1 DEF Echoed
<1>. QED  BY <1>1, <1>2 DEF Echoed, Extends

(* Answering with the next bytes of the stream.                            *)
LEMMA EchoGrows ==
  ASSUME PeerTypes, OutTypes, Echoed, stream' = stream,
         NEW data \in Seq(Bytes), Output' = Output \o data,
         Len(Output) + Len(data) <= Len(stream),
         \A k \in 1 .. Len(data) : data[k] = stream[Len(Output) + k]
  PROVE  Echoed' /\ Len(Output') = Len(Output) + Len(data)
<1>1. Output \in Seq(Bytes)  BY OutputTyped
<1>2. /\ Len(Output \o data) = Len(Output) + Len(data)
      /\ \A k \in 1 .. Len(Output) : (Output \o data)[k] = Output[k]
      /\ \A k \in 1 .. Len(data) : (Output \o data)[Len(Output) + k] = data[k]
  BY <1>1, Joined
<1>3. Len(Output) \in Nat /\ Len(data) \in Nat  BY <1>1
<1>4. ASSUME NEW k \in 1 .. Len(Output) + Len(data)  PROVE (Output \o data)[k] = stream[k]
  <2>1. CASE k <= Len(Output)
    <3>1. k \in 1 .. Len(Output)  BY <1>3, <2>1
    <3>. QED  BY <1>2, <3>1 DEF Echoed
  <2>2. CASE k > Len(Output)
    <3>1. k - Len(Output) \in 1 .. Len(data) /\ k = Len(Output) + (k - Len(Output))
      BY <1>3, <2>2
    <3>2. PICK j \in 1 .. Len(data) : k = Len(Output) + j  BY <3>1
    <3>. QED  BY <1>2, <3>2
  <2>. QED  BY <1>3, <2>1, <2>2
<1>. QED  BY <1>2, <1>4 DEF Echoed

(* The answer is the message, from its header on.                          *)
LEMMA AnswerIsMessage ==
  ASSUME PeerTypes, ParseTypes, FramedInv, ParseInv, ready_to_handle_message,
         state = "Connected"
  PROVE  /\ Len(read_buffer) = length /\ length \in Nat
         /\ Pos + TLV_HEADER_LENGTH + length = taken /\ Pos \in Nat
         /\ \A k \in 1 .. TLV_HEADER_LENGTH :
              Header(Len(read_buffer))[k] = stream[Pos + k]
         /\ \A k \in 1 .. length : read_buffer[k] = stream[Pos + TLV_HEADER_LENGTH + k]
         /\ Len(Answer) = TLV_HEADER_LENGTH + length
         /\ \A k \in 1 .. Len(Answer) : Answer[k] = stream[Pos + k]
<1> DEFINE H == TLV_HEADER_LENGTH
<1>1. /\ Pos + H + length = taken /\ read_body_length = length
      /\ \A k \in 1 .. H : stream[Pos + k] = <<"len", length, k>>
  BY WholeMessage
<1>2. length \in Nat /\ H \in Nat /\ Pos \in Nat  BY PosTyped, ConstantTypes DEF ParseTypes
<1>3. Len(read_buffer) = length
  BY ConstantTypes DEF ParseInv, ParseTypes
<1>4. /\ Header(length) \in Seq(Bytes) /\ Len(Header(length)) = H
      /\ \A k \in 1 .. H : Header(length)[k] = <<"len", length, k>>
  BY <1>2, HeaderTyped
<1>5. \A k \in 1 .. H : Header(length)[k] = stream[Pos + k]  BY <1>1, <1>4
<1>6. \A k \in 1 .. length : read_buffer[k] = stream[Pos + H + k]
  BY <1>1 DEF ParseInv
<1>7. read_buffer \in Seq(Bytes) /\ Answer = Header(length) \o read_buffer
  BY <1>3 DEF ParseTypes, Answer
<1>8. /\ Len(Header(length) \o read_buffer) = Len(Header(length)) + Len(read_buffer)
      /\ \A k \in 1 .. Len(Header(length)) :
           (Header(length) \o read_buffer)[k] = Header(length)[k]
      /\ \A k \in 1 .. Len(read_buffer) :
           (Header(length) \o read_buffer)[Len(Header(length)) + k] = read_buffer[k]
  <2>1. Header(length) \in Seq(Bytes) /\ read_buffer \in Seq(Bytes)  BY <1>4, <1>7
  <2>. QED  BY <2>1, Joined
<1>9. /\ Len(Answer) = H + length
      /\ \A k \in 1 .. H : Answer[k] = Header(length)[k]
      /\ \A k \in 1 .. length : Answer[H + k] = read_buffer[k]
  BY <1>3, <1>4, <1>7, <1>8
<1>10. ASSUME NEW k \in 1 .. H + length  PROVE Answer[k] = stream[Pos + k]
  <2>1. CASE k <= H
    <3>1. k \in 1 .. H  BY <1>2, <2>1
    <3>. QED  BY <1>5, <1>9, <3>1
  <2>2. CASE k > H
    <3>1. k - H \in 1 .. length /\ k = H + (k - H)  BY <1>2, <2>2
    <3>2. PICK j \in 1 .. length : k = H + j  BY <3>1
    <3>3. Answer[k] = stream[Pos + H + j]  BY <1>6, <1>9, <3>2
    <3>4. Pos + H + j = Pos + k  BY <1>2, <3>2
    <3>. QED  BY <3>3, <3>4
  <2>. QED  BY <1>2, <2>1, <2>2
<1>. QED  BY <1>1, <1>2, <1>3, <1>5, <1>6, <1>9, <1>10

-----------------------------------------------------------------------------
(* Every step keeps the answers in step with what was read.                *)

LEMMA ReadKeepsPos ==
  ASSUME PeerTypes, ParseTypes, ParseInv, Read  PROVE Pos' = Pos
<1>0. Pos' = taken' - Len(header') - read_body_length'  BY DEF Pos
<1>1. CASE ReadHeader
  <2>1. PICK n \in Nat \ {0} : taken' = taken + n /\ Len(header') = Len(header) + n
    BY <1>1, ReadsHeader
  <2>2. read_body_length' = read_body_length  BY <1>1 DEF ReadHeader
  <2>. QED  BY <1>0, <2>1, <2>2, PosTyped DEF Pos
<1>2. CASE ReadBody
  <2>1. PICK n \in Nat \ {0} : taken' = taken + n /\ read_body_length' = read_body_length + n
    BY <1>2, ReadsBody
  <2>2. header' = header  BY <1>2 DEF ReadBody
  <2>. QED  BY <1>0, <2>1, <2>2, PosTyped DEF Pos
<1>3. CASE ReadNoRoom \/ ReadAgain \/ ReadEnd
  BY <1>0, <1>3 DEF Pos, ReadNoRoom, ReadAgain, ReadEnd, parseVars
<1>. QED  BY <1>1, <1>2, <1>3 DEF Read

LEMMA HandlingAnswers ==
  ASSUME PeerTypes, ParseTypes, OutTypes, FlagTypes, FramedInv, ParseInv, AnswerInv,
         Echoed, HandleMessage
  PROVE  AnswerInv' /\ Echoed'
<1> DEFINE H == TLV_HEADER_LENGTH
<1>0. /\ taken' = taken /\ stream' = stream /\ peer' = peer /\ read_buffer' = read_buffer
      /\ length' = length /\ pc = "message"
  BY Handling DEF HandleMessage
<1>1. Len(Output) \in Nat /\ H \in Nat /\ taken <= Len(stream)
  BY OutputTyped, PosTyped, ConstantTypes DEF OutTypes
<1>2. CASE /\ ready_to_handle_message /\ header' = <<>> /\ read_body_length' = 0
           /\ state = "Connected"
  <2>1. Pos = Len(Output)  BY <1>0, <1>2 DEF AnswerInv
  <2>2. /\ Len(read_buffer) = length /\ length \in Nat /\ Pos + H + length = taken
        /\ \A k \in 1 .. H : Header(Len(read_buffer))[k] = stream[Pos + k]
        /\ \A k \in 1 .. length : read_buffer[k] = stream[Pos + H + k]
        /\ Len(Answer) = H + length
        /\ \A k \in 1 .. Len(Answer) : Answer[k] = stream[Pos + k]
    BY <1>2, AnswerIsMessage
  <2>3. Pos' = taken  BY <1>0, <1>2, PosTyped DEF Pos
  <2>4. ASSUME pc' # "body", Sent(Answer)  PROVE AnswerInv' /\ Echoed'
    <3>1. CASE Output' = Output \o Answer /\ state' = state
      <4>0. Len(Output) + Len(Answer) <= Len(stream)  BY <1>1, <2>1, <2>2
      <4>1. Echoed' /\ Len(Output') = Len(Output) + Len(Answer)
        BY <1>0, <2>1, <2>2, <3>1, <4>0, AnswerTyped, EchoGrows
      <4>2. Pos' = Len(Output')  BY <1>1, <2>1, <2>2, <2>3, <4>1
      <4>. QED  BY <2>4, <4>1, <4>2 DEF AnswerInv
    <3>2. CASE send_buffer' = send_buffer /\ written' = written /\ state' = "Disconected"
      <4>1. Output' = Output  BY <3>2 DEF Output
      <4>. QED  BY <1>0, <2>4, <3>2, <4>1 DEF AnswerInv, Echoed
    <3>. QED  BY <2>4, <3>1, <3>2 DEF Sent
  <2>5. ASSUME pc' = "body", Sent(Header(Len(read_buffer)))  PROVE AnswerInv' /\ Echoed'
    <3> DEFINE data == Header(Len(read_buffer))
    <3>0. data \in Seq(Bytes) /\ Len(data) = H  BY <2>2, HeaderTyped
    <3>1. CASE Output' = Output \o data /\ state' = state
      <4>1. Len(Output) + Len(data) <= Len(stream)  BY <1>1, <2>1, <2>2, <3>0
      <4>2. \A k \in 1 .. Len(data) : data[k] = stream[Len(Output) + k]
        BY <2>1, <2>2, <3>0
      <4>3. Echoed' /\ Len(Output') = Len(Output) + Len(data)
        <5> HIDE DEF data
        <5>. QED  BY <1>0, <3>0, <3>1, <4>1, <4>2, EchoGrows
      <4>4. Len(Output') = Pos + H  BY <2>1, <3>0, <4>3
      <4>5. taken' = Len(Output') + Len(read_buffer')
        BY <1>0, <1>1, <2>1, <2>2, <4>4
      <4>6. \A k \in 1 .. Len(read_buffer') : read_buffer'[k] = stream'[Len(Output') + k]
        BY <1>0, <2>2, <4>4
      <4>7. state' = "Connected"  BY <1>2, <3>1
      <4>. QED  BY <2>5, <4>3, <4>5, <4>6, <4>7 DEF AnswerInv
    <3>2. CASE /\ Reset /\ send_buffer = <<>> /\ send_buffer' = send_buffer
               /\ written' = written /\ state' = "Disconected"
      <4>1. Output' = Output  BY <3>2 DEF Output
      <4>2. Reset' /\ send_buffer' = <<>>  BY <1>0, <3>2 DEF Reset
      <4>. QED  BY <1>0, <3>2, <4>1, <4>2 DEF AnswerInv, Echoed
    <3>. QED  BY <2>5, <3>1, <3>2 DEF Sent
  <2>. QED  BY <1>2, <2>4, <2>5, Handling
<1>3. CASE /\ ready_to_handle_message /\ state # "Connected" /\ pc' # "body"
           /\ Output' = Output /\ state' = state
  BY <1>0, <1>3 DEF AnswerInv, Echoed
<1>4. CASE /\ ~ready_to_handle_message
           /\ header' = header /\ read_body_length' = read_body_length
           /\ pc' # "body" /\ Output' = Output /\ state' = state
  <2>1. Pos' = Pos  BY <1>0, <1>4 DEF Pos
  <2>. QED  BY <1>0, <1>4, <2>1 DEF AnswerInv, Echoed
<1>. QED  BY <1>2, <1>3, <1>4, Handling

LEMMA BodyAnswers ==
  ASSUME PeerTypes, ParseTypes, OutTypes, FlagTypes, ParseInv, AnswerInv, Echoed, SendBody
  PROVE  AnswerInv' /\ Echoed'
<1>0. /\ taken' = taken /\ stream' = stream /\ peer' = peer /\ read_buffer' = read_buffer
      /\ header' = header /\ read_body_length' = read_body_length
      /\ pc = "body" /\ pc' # "body" /\ SendInternal(read_buffer)
      /\ read_by_peer' = read_by_peer
  BY DEF SendBody, sendUnchanged, peerVars, inVars, parseVars, Continue
<1>1. read_buffer \in Seq(Bytes) /\ Len(Output) \in Nat /\ taken <= Len(stream)
  BY OutputTyped, PosTyped DEF ParseTypes, OutTypes
<1>2. Pos' = Pos  BY <1>0 DEF Pos
<1>3. Pos = taken  BY <1>0, PosTyped DEF ParseInv
<1>4. Sent(read_buffer)  BY <1>0, <1>1, Sending
<1>5. CASE state = "Connected" /\ Output' = Output \o read_buffer
  <2>1. /\ taken = Len(Output) + Len(read_buffer)
        /\ \A k \in 1 .. Len(read_buffer) : read_buffer[k] = stream[Len(Output) + k]
    BY <1>0, <1>5 DEF AnswerInv
  <2>2. Echoed' /\ Len(Output') = Len(Output) + Len(read_buffer)
    BY <1>0, <1>1, <1>5, <2>1, EchoGrows
  <2>. QED  BY <1>0, <1>2, <1>3, <2>1, <2>2 DEF AnswerInv
<1>6. CASE send_buffer' = send_buffer /\ written' = written /\ state' = "Disconected"
  <2>1. Output' = Output  BY <1>6 DEF Output
  <2>. QED  BY <1>0, <1>6, <2>1 DEF AnswerInv, Echoed
<1>7. state = "Connected" \/ (Reset /\ send_buffer = <<>>)
  BY <1>0 DEF FlagTypes, AnswerInv
<1>8. CASE state # "Connected" /\ Reset /\ send_buffer = <<>>
  <2>1. WriteFails  BY <1>0, <1>8 DEF SendInternal, WriteTakes
  <2>. QED  BY <1>6, <2>1 DEF WriteFails, HandleClose, outVars
<1>. QED  BY <1>4, <1>5, <1>6, <1>7, <1>8 DEF Sent

(* Steps that send nothing and keep the place in the stream.               *)
LEMMA AnswersStay ==
  ASSUME PeerTypes, PeerTypes', OutTypes, FlagTypes, AnswerInv, Echoed, Extends,
         Output' = Output, Pos' = Pos, pc # "body", pc' # "body",
         state' = state \/ state' = "Disconected"
  PROVE  AnswerInv' /\ Echoed'
<1>1. Echoed'  BY EchoStays
<1>2. state' = "Connected" => state = "Connected"  BY DEF FlagTypes
<1>. QED  BY <1>1, <1>2 DEF AnswerInv

LEMMA NextAnswers ==
  ASSUME FlagTypes, PeerTypes, ParseTypes, OutTypes, FramedInv, ParseInv, AnswerInv,
         Echoed, [Next]_vars
  PROVE  AnswerInv' /\ Echoed'
<1>0. Extends /\ PeerTypes'  BY NextFramed, NextPeerTypes
<1>1. CASE Read
  <2>1. pc = "read" /\ Output' = Output /\ Pos' = Pos
    <3>1. UNCHANGED <<written, send_buffer>> /\ pc = "read"
      BY <1>1 DEF Read, readUnchanged, outVars
    <3>. QED  BY <1>1, <3>1, ReadKeepsPos DEF Output
  <2>2. pc' # "body" /\ (state' = state \/ state' = "Disconected")
    <3>1. CASE ReadHeader  BY <2>1, <3>1, HeaderEnds
    <3>2. CASE ReadBody  BY <2>1, <3>2 DEF ReadBody
    <3>3. CASE ReadNoRoom \/ ReadAgain \/ ReadEnd
      BY <3>3 DEF ReadNoRoom, ReadAgain, ReadEnd, HandleClose
    <3>. QED  BY <1>1, <3>1, <3>2, <3>3 DEF Read
  <2>. QED  BY <1>0, <2>1, <2>2, AnswersStay
<1>2. CASE HandleMessage  BY <1>2, HandlingAnswers
<1>3. CASE SendBody  BY <1>3, BodyAnswers
<1>4. CASE WriteNonBlocking
  <2>1. Output' = Output /\ (state' = state \/ state' = "Disconected")  BY <1>4, Flushing
  <2>2. UNCHANGED <<parseVars, inVars>> /\ pc = "write" /\ pc' = "epoll"
    BY <1>4 DEF WriteNonBlocking, sendUnchanged
  <2>3. Pos' = Pos  BY <2>2 DEF Pos, parseVars, inVars
  <2>. QED  BY <1>0, <2>1, <2>2, <2>3, AnswersStay
<1>5. CASE EpollWait
  <2>1. /\ UNCHANGED <<parseVars, inVars, written, send_buffer, state>>
        /\ pc = "epoll" /\ pc' # "body"
    BY <1>5 DEF EpollWait
  <2>2. Pos' = Pos /\ Output' = Output  BY <2>1 DEF Pos, Output, parseVars, inVars
  <2>. QED  BY <1>0, <2>1, <2>2, AnswersStay
<1>6. CASE ConnectionDestructor
  <2>1. /\ UNCHANGED <<parseVars, inVars, outVars, send_buffer, state>>
        /\ pc = "epoll" /\ pc' = "epoll"
    BY <1>6 DEF ConnectionDestructor
  <2>2. Pos' = Pos /\ Output' = Output  BY <2>1 DEF Pos, Output, parseVars, inVars, outVars
  <2>. QED  BY <1>0, <2>1, <2>2, AnswersStay
<1>7. CASE \/ Peer \/ UNCHANGED vars
  <2>1. UNCHANGED <<threadVars, taken, written>> /\ (peer' = peer \/ peer # "reset")
    BY <1>7 DEF Peer, PeerSend, PeerShutdown, PeerReset, PeerRead, Deliver, DeliverEnd,
        vars, threadVars, peerVars, inVars, outVars
  <2>2. UNCHANGED <<pc, parseVars, send_buffer, state>>  BY <2>1 DEF threadVars
  <2>3. Pos' = Pos /\ Output' = Output  BY <2>1, <2>2 DEF Pos, Output, parseVars
  <2>4. CASE pc # "body"  BY <1>0, <2>2, <2>3, <2>4, AnswersStay
  <2>5. CASE pc = "body"
    <3>1. Echoed'  BY <1>0, <2>3, EchoStays
    <3>2. CASE state = "Connected"
      <4>1. /\ taken = Len(Output) + Len(read_buffer)
            /\ \A k \in 1 .. Len(read_buffer) : read_buffer[k] = stream[Len(Output) + k]
        BY <2>5, <3>2 DEF AnswerInv
      <4>2. \A k \in 1 .. Len(read_buffer) : Len(Output) + k \in 1 .. Len(stream)
        BY <4>1, OutputTyped, PosTyped DEF OutTypes, ParseTypes
      <4>3. \A k \in 1 .. Len(read_buffer) : read_buffer[k] = stream'[Len(Output) + k]
        BY <1>0, <4>1, <4>2 DEF Extends
      <4>4. UNCHANGED <<taken, read_buffer>>  BY <2>1, <2>2 DEF parseVars
      <4>. QED  BY <2>2, <2>3, <2>5, <3>1, <3>2, <4>1, <4>3, <4>4 DEF AnswerInv
    <3>3. CASE state = "Disconected"
      <4>1. Reset /\ send_buffer = <<>>  BY <2>5, <3>3 DEF AnswerInv
      <4>2. Reset' /\ send_buffer' = <<>>  BY <2>1, <2>2, <4>1 DEF Reset
      <4>. QED  BY <2>2, <2>5, <3>1, <3>3, <4>2 DEF AnswerInv
    <3>. QED  BY <3>2, <3>3 DEF FlagTypes
  <2>. QED  BY <2>4, <2>5
<1>. QED  BY <1>1, <1>2, <1>3, <1>4, <1>5, <1>6, <1>7 DEF Next, Thread

-----------------------------------------------------------------------------
(* What a sleeping thread has left undone: nothing but what an edge will   *)
(* report.                                                                 *)

Watched == writing /\ (edge \/ (nospace /\ Space(written) = 0))

LEMMA SpaceTyped == ASSUME OutTypes PROVE Space(written) \in Nat
BY ConstantTypes DEF OutTypes, Space

(* EPOLL_CTL_MOD reports what is ready now, and watches for the rest.      *)
LEMMA LooksAgain ==
  ASSUME OutTypes', FlagTypes, EnableWrite, read_by_peer' = read_by_peer
  PROVE  /\ Watched'
         /\ Available > 0 \/ EndOfInput => edge'
         /\ edge => edge'
<1>1. (OutTypes => Space(written) \in Nat)'  BY SpaceTyped, PTL
<1>2. Space(written)' = Space(written') /\ Space(written') \in Nat
  BY <1>1 DEF Space
<1>3. CASE Space(written') = 0
  <2>1. writing' /\ nospace' /\ Space(written)' = 0
    BY <1>2, <1>3 DEF EnableWrite, FlagTypes
  <2>. QED  BY <2>1 DEF Watched, EnableWrite, Readiness
<1>4. CASE Space(written') > 0
  <2>1. "OUT" \in Readiness(TRUE, Space(written'))  BY <1>4 DEF Readiness
  <2>2. edge' /\ writing'  BY <2>1 DEF EnableWrite
  <2>. QED  BY <2>2 DEF Watched
<1>. QED  BY <1>2, <1>3, <1>4

LEMMA SendingWatches ==
  ASSUME OutTypes', FlagTypes, NEW data, SendInternal(data), read_by_peer' = read_by_peer,
         peer' = peer
  PROVE  \/ Reset' \/ send_buffer' = <<>> \/ Watched'
         \/ NoWrite /\ UNCHANGED <<send_buffer, writing, edge, nospace>>
<1>1. CASE \E rest : Keep(rest)  BY <1>1, LooksAgain DEF Keep
<1>2. CASE send_buffer = <<>> /\ send_buffer' = send_buffer  BY <1>2
<1>3. CASE WriteFails  BY <1>3 DEF WriteFails, Reset
<1>. QED  BY <1>1, <1>2, <1>3 DEF SendInternal

LEMMA SendingFlushes ==
  ASSUME FlagTypes, OutTypes', FlushInv, NEW data, SendInternal(data),
         UNCHANGED <<read_by_peer, peer, registered, events>>,
         "OUT" \in events => pc' # "epoll"
  PROVE  FlushInv'
<1>1. CASE Reset' \/ send_buffer' = <<>> \/ Watched'
  BY <1>1 DEF FlushInv, Watched
<1>2. CASE NoWrite /\ UNCHANGED <<send_buffer, writing, edge, nospace>>
  <2>1. /\ written' = written /\ killed' = killed /\ send_buffer' = send_buffer
        /\ writing' = writing /\ edge' = edge /\ nospace' = nospace
        /\ Space(written)' = Space(written) /\ Reset' = Reset
    BY <1>2 DEF NoWrite, Space, Reset
  <2>. QED  BY <2>1 DEF FlushInv
<1>. QED  BY <1>1, <1>2, SendingWatches

LEMMA HandlingFlushes ==
  ASSUME FlagTypes, OutTypes, ParseTypes, FlushInv, HandleMessage
  PROVE  FlushInv'
<1>1. /\ OutTypes' /\ read_by_peer' = read_by_peer /\ peer' = peer
      /\ registered' = registered /\ events' = events /\ pc = "message"
  <2>1. OutTypes'  BY Handling
  <2>. QED  BY <2>1 DEF HandleMessage, sendUnchanged, peerVars, channelVars
<1>2. CASE (Continue \/ pc' = "body") /\ \E data : SendInternal(data) \/ Send2(data)
  <2>1. PICK data : SendInternal(data) \/ Send2(data)  BY <1>2
  <2>2. "OUT" \in events => pc' # "epoll"  BY <1>2 DEF Continue
  <2>3. CASE SendInternal(data)  BY <1>1, <2>2, <2>3, SendingFlushes
  <2>4. CASE Send2(data)
    <3>1. Watched'  BY <1>1, <2>4, LooksAgain DEF Send2, Keep
    <3>. QED  BY <3>1 DEF FlushInv, Watched
  <2>. QED  BY <2>1, <2>3, <2>4
<1>3. CASE Continue /\ NoWrite /\ UNCHANGED <<send_buffer, writing, edge, nospace>>
  <2>1. /\ written' = written /\ killed' = killed /\ send_buffer' = send_buffer
        /\ writing' = writing /\ edge' = edge /\ nospace' = nospace
        /\ Space(written)' = Space(written) /\ Reset' = Reset
    BY <1>1, <1>3 DEF NoWrite, Space, Reset
  <2>2. "OUT" \in events => pc' # "epoll" /\ "OUT" \in events'  BY <1>1, <1>3 DEF Continue
  <2>. QED  BY <1>1, <2>1, <2>2 DEF FlushInv
<1>. QED  BY <1>2, <1>3 DEF HandleMessage, OnMessage, Send, SendWithTwoSysCall

LEMMA WritingFlushes ==
  ASSUME FlagTypes, OutTypes, FlushInv, WriteNonBlocking
  PROVE  FlushInv'
<1>1. /\ OutTypes' /\ read_by_peer' = read_by_peer /\ peer' = peer
      /\ registered' = registered /\ send_buffer \in Seq(Bytes)
  <2>1. OutTypes'  BY Flushing
  <2>. QED  BY <2>1 DEF WriteNonBlocking, sendUnchanged, peerVars, channelVars, OutTypes
<1>2. CASE WriteFails  BY <1>1, <1>2 DEF FlushInv, WriteFails, Reset
<1>3. CASE EnableWrite  BY <1>1, <1>3, LooksAgain DEF FlushInv, Watched
<1>4. CASE /\ WriteTakes(send_buffer) /\ Retrieve(Taken(send_buffer))
           /\ nospace' = (nospace \/ Short(send_buffer)) /\ UNCHANGED <<writing, edge>>
  <2>0. Taken(send_buffer) \in 0 .. Len(send_buffer) /\ Len(send_buffer) \in Nat
    BY <1>1, TakenBounds
  <2>1. CASE Short(send_buffer)
    <3>1. Taken(send_buffer) = Space(written)
      <4>1. Space(written) \in Nat  BY SpaceTyped
      <4>2. Taken(send_buffer) < Len(send_buffer)  BY <2>1 DEF Short
      <4>3. Min({Len(send_buffer), Space(written)}) \in {Len(send_buffer), Space(written)}
        BY <2>0, <4>1, MinOfTwo
      <4>. QED  BY <2>0, <4>2, <4>3 DEF Taken
    <3>2. Len(written') = Len(written) + Taken(send_buffer)  BY <1>1, <1>4, Writes
    <3>3. Space(written)' = 0
      BY <1>1, <3>1, <3>2, ConstantTypes DEF Space, OutTypes
    <3>4. nospace'  BY <1>4, <2>1
    <3>5. send_buffer # <<>>  BY <2>0, <2>1 DEF Short
    <3>6. killed' = killed /\ writing' = writing  BY <1>4 DEF WriteTakes
    <3>. QED  BY <1>1, <3>3, <3>4, <3>5, <3>6 DEF FlushInv, Reset
  <2>2. CASE ~Short(send_buffer)
    <3>1. Taken(send_buffer) = Len(send_buffer)  BY <2>0, <2>2 DEF Short
    <3>2. send_buffer' = <<>>  BY <1>1, <1>4, <3>1, SubSeqEmpty DEF Retrieve
    <3>. QED  BY <3>2 DEF FlushInv
  <2>. QED  BY <2>1, <2>2
<1>. QED  BY <1>2, <1>3, <1>4 DEF WriteNonBlocking

LEMMA NextFlush ==
  ASSUME FlagTypes, OutTypes, ParseTypes, FlushInv, [Next]_vars
  PROVE  FlushInv'
<1>1. CASE EpollWait
  <2>1. /\ written' = written /\ read_by_peer' = read_by_peer /\ peer' = peer
        /\ registered' = registered /\ killed' = killed /\ send_buffer' = send_buffer
        /\ writing' = writing /\ pc = "epoll"
    BY <1>1 DEF EpollWait, peerVars
  <2>2. Space(written)' = Space(written) /\ Reset' = Reset /\ Space(written) \in Nat
    BY <2>1, SpaceTyped DEF Space, Reset
  <2>3. writing /\ Space(written) > 0 => "OUT" \in events' /\ pc' # "epoll"
    BY <1>1 DEF EpollWait, Readiness
  <2>4. writing /\ Space(written) = 0 => nospace'  BY <1>1 DEF EpollWait
  <2>. QED  BY <2>1, <2>2, <2>3, <2>4 DEF FlushInv
<1>2. CASE Read
  <2>1. /\ UNCHANGED <<peer, written, read_by_peer, nospace, edge, events, registered>>
        /\ UNCHANGED <<writing, send_buffer, killed>>
    BY <1>2 DEF Read, readUnchanged, peerVars, outVars, channelVars
  <2>2. pc' # "epoll" /\ pc = "read"
    <3>1. pc = "read"  BY <1>2 DEF Read
    <3>2. CASE ReadHeader  BY <3>1, <3>2, HeaderEnds
    <3>3. CASE ReadBody  BY <3>1, <3>3 DEF ReadBody
    <3>4. CASE ReadNoRoom \/ ReadAgain \/ ReadEnd
      BY <3>1, <3>4 DEF ReadNoRoom, ReadAgain, ReadEnd
    <3>. QED  BY <1>2, <3>1, <3>2, <3>3, <3>4 DEF Read
  <2>. QED  BY <2>1, <2>2 DEF FlushInv, Reset, Space
<1>3. CASE HandleMessage  BY <1>3, HandlingFlushes
<1>4. CASE SendBody
  <2>1. OutTypes'  BY <1>4, NextOutTypes DEF Next, Thread
  <2>2. /\ SendInternal(read_buffer)
        /\ "OUT" \in events => pc' # "epoll"
        /\ UNCHANGED <<read_by_peer, peer, registered, events>>
    BY <1>4 DEF SendBody, Continue, sendUnchanged, peerVars, channelVars
  <2>. QED  BY <2>1, <2>2, SendingFlushes
<1>5. CASE WriteNonBlocking  BY <1>5, WritingFlushes
<1>6. CASE ConnectionDestructor  BY <1>6 DEF ConnectionDestructor, FlushInv
<1>7. CASE PeerRead
  <2>1. /\ UNCHANGED <<peer, written, threadVars>>
        /\ edge' = (edge \/ (nospace /\ registered /\ writing))
    BY <1>7 DEF PeerRead, peerVars
  <2>. QED  BY <2>1 DEF FlushInv, Reset, threadVars, channelVars
<1>8. CASE PeerReset \/ Deliver \/ DeliverEnd
  <2>1. UNCHANGED threadVars /\ UNCHANGED outVars /\ edge' = registered
    BY <1>8 DEF PeerReset, Deliver, DeliverEnd
  <2>2. Reset' \/ peer' = peer  BY <1>8 DEF PeerReset, Deliver, DeliverEnd, Reset, peerVars
  <2>. QED  BY <2>1, <2>2 DEF FlushInv, Reset, threadVars, channelVars, outVars
<1>9. CASE PeerSend \/ PeerShutdown \/ UNCHANGED vars
  <2>1. UNCHANGED threadVars /\ UNCHANGED outVars /\ edge' = edge
    BY <1>9 DEF PeerSend, PeerShutdown, vars, threadVars
  <2>2. Reset' = Reset  BY <1>9 DEF PeerSend, PeerShutdown, vars, peerVars, Reset
  <2>. QED  BY <2>1, <2>2 DEF FlushInv, threadVars, channelVars, outVars, Space
<1>. QED  BY <1>1, <1>2, <1>3, <1>4, <1>5, <1>6, <1>7, <1>8, <1>9 DEF Next, Thread, Peer

(* With Send2 the answer looks at the socket again.                        *)
LEMMA HandlingReads ==
  ASSUME FlagTypes, OutTypes, ParseTypes, ReadInv, HandleMessage
  PROVE  ReadInv'
<1>1. /\ OutTypes' /\ read_by_peer' = read_by_peer /\ registered' = registered
      /\ UNCHANGED <<arrived, taken, fin, peer>>
      /\ Available' = Available /\ EndOfInput' = EndOfInput
  <2>1. OutTypes'  BY Handling
  <2>. QED  BY <2>1 DEF HandleMessage, sendUnchanged, peerVars, inVars, channelVars,
      Available, EndOfInput, Reset
<1>2. CASE SendApis # {"Send2"}  BY <1>2 DEF ReadInv
<1>3. CASE state # "Connected"
  <2>1. state' = state  BY <1>3, Handling
  <2>. QED  BY <1>3, <2>1 DEF ReadInv
<1>4. CASE SendApis = {"Send2"} /\ state = "Connected" /\ ready_to_handle_message
  <2>1. PICK data : Send2(data)  BY <1>4 DEF HandleMessage, OnMessage
  <2>2. Available > 0 \/ EndOfInput => edge'  BY <1>1, <2>1, LooksAgain DEF Send2, Keep
  <2>. QED  BY <1>1, <2>2 DEF ReadInv
<1>5. CASE ~ready_to_handle_message
  <2>1. NoWrite /\ edge' = edge /\ pc = "message"  BY <1>5 DEF HandleMessage
  <2>. QED  BY <1>1, <1>5, <2>1 DEF ReadInv, NoWrite
<1>. QED  BY <1>2, <1>3, <1>4, <1>5

LEMMA NextRead ==
  ASSUME FlagTypes, PeerTypes, OutTypes, ParseTypes, ReadInv, [Next]_vars
  PROVE  ReadInv'
<1>0. taken \in Nat /\ arrived \in Nat /\ taken <= arrived  BY DEF PeerTypes
<1>1. CASE EpollWait
  <2>1. /\ UNCHANGED <<arrived, taken, fin, peer>>
        /\ Available > 0 \/ EndOfInput => pc' = "read"
    BY <1>1 DEF EpollWait, peerVars, inVars, Readiness
  <2>2. Available' = Available /\ EndOfInput' = EndOfInput
    BY <2>1 DEF Available, EndOfInput, Reset
  <2>. QED  BY <2>1, <2>2 DEF ReadInv
<1>2. CASE Read
  <2>1. UNCHANGED <<arrived, fin, peer, edge, registered, killed>> /\ pc = "read"
    BY <1>2 DEF Read, readUnchanged, peerVars, channelVars
  <2>2. CASE ReadHeader
    <3>1. pc' = "read" \/ state' = "Disconected"  BY <2>1, <2>2, HeaderEnds
    <3>. QED  BY <3>1 DEF ReadInv
  <2>3. CASE ReadBody
    <3>1. pc' = "read" \/ (pc' = "message" /\ ready_to_handle_message')
      BY <2>1, <2>3 DEF ReadBody
    <3>. QED  BY <3>1 DEF ReadInv
  <2>4. CASE ReadNoRoom
    <3>1. pc' = "message" /\ (ready_to_handle_message' \/ state' = "Disconected")
      BY <2>4 DEF ReadNoRoom, HandleClose
    <3>. QED  BY <3>1 DEF ReadInv
  <2>5. CASE ReadAgain
    <3>1. Available = 0 /\ ~EndOfInput /\ taken' = taken  BY <2>5 DEF ReadAgain
    <3>2. Available' = 0 /\ ~EndOfInput'  BY <2>1, <3>1 DEF Available, EndOfInput, Reset
    <3>. QED  BY <3>2 DEF ReadInv
  <2>6. CASE ReadEnd  BY <2>6 DEF ReadEnd, HandleClose, ReadInv
  <2>. QED  BY <1>2, <2>2, <2>3, <2>4, <2>5, <2>6 DEF Read
<1>3. CASE HandleMessage  BY <1>3, HandlingReads
<1>4. CASE SendBody \/ WriteNonBlocking
  <2>1. UNCHANGED <<arrived, taken, fin, peer, registered>> /\ pc \in {"body", "write"} /\ ~killed
    BY <1>4 DEF SendBody, WriteNonBlocking, sendUnchanged, peerVars, inVars, channelVars
  <2>2. CASE WriteFails  BY <2>2 DEF WriteFails, HandleClose, ReadInv
  <2>3. CASE ~WriteFails
    <3>1. state' = state /\ (edge => edge')
      BY <1>4, <2>3 DEF FlagTypes, SendBody, WriteNonBlocking, SendInternal, WriteTakes, NoWrite, Keep,
          EnableWrite
    <3>2. Available' = Available /\ EndOfInput' = EndOfInput
      BY <2>1 DEF Available, EndOfInput, Reset
    <3>. QED  BY <2>1, <3>1, <3>2 DEF ReadInv
  <2>. QED  BY <2>2, <2>3
<1>5. CASE ConnectionDestructor  BY <1>5 DEF ConnectionDestructor, ReadInv
<1>6. CASE PeerReset \/ Deliver \/ DeliverEnd
  <2>1. UNCHANGED threadVars /\ edge' = registered
    BY <1>6 DEF PeerReset, Deliver, DeliverEnd
  <2>. QED  BY <2>1 DEF ReadInv, threadVars, channelVars
<1>7. CASE PeerSend \/ PeerShutdown \/ PeerRead \/ UNCHANGED vars
  <2>1. UNCHANGED <<threadVars, inVars>> /\ (edge => edge')
    BY <1>7 DEF PeerSend, PeerShutdown, PeerRead, vars, threadVars, FlagTypes
  <2>2. Reset' = Reset
    BY <1>7 DEF PeerSend, PeerShutdown, PeerRead, vars, peerVars, Reset
  <2>3. Available' = Available /\ EndOfInput' = EndOfInput
    BY <2>1, <2>2 DEF Available, EndOfInput, inVars
  <2>. QED  BY <2>1, <2>3 DEF ReadInv, threadVars, channelVars, parseVars
<1>. QED  BY <1>1, <1>2, <1>3, <1>4, <1>5, <1>6, <1>7 DEF Next, Thread, Peer

LEMMA NextPart ==
  ASSUME FlagTypes, PeerTypes, OutTypes, ParseTypes, ParseInv, PartInv, [Next]_vars
  PROVE  PartInv'
<1>1. CASE Read
  <2>0. pc = "read" /\ ~ready_to_handle_message  BY <1>1 DEF Read, ParseInv
  <2>1. CASE ReadHeader
    <3>1. pc' = "read" \/ state' = "Disconected"  BY <2>0, <2>1, HeaderEnds
    <3>. QED  BY <3>1 DEF PartInv
  <2>2. CASE ReadBody
    <3>1. pc' = "read" \/ ready_to_handle_message'  BY <2>0, <2>2 DEF ReadBody
    <3>. QED  BY <3>1 DEF PartInv
  <2>3. CASE ReadNoRoom  BY <2>3 DEF ReadNoRoom, HandleClose, PartInv
  <2>4. CASE ReadAgain
    <3>1. UNCHANGED parseVars /\ state' = state /\ Wanted  BY <2>4 DEF ReadAgain
    <3>2. ASSUME state = "Connected", Len(header) = TLV_HEADER_LENGTH
          PROVE  read_body_length < length
      <4>1. BodyRoom > 0  BY <3>1, <3>2, ConstantTypes DEF Wanted
      <4>2. Len(read_buffer) = length  BY <3>2 DEF ParseInv
      <4>. QED  BY <4>1, <4>2 DEF BodyRoom, ParseTypes
    <3>. QED  BY <3>1, <3>2 DEF PartInv, parseVars
  <2>5. CASE ReadEnd  BY <2>5 DEF ReadEnd, HandleClose, PartInv
  <2>. QED  BY <1>1, <2>1, <2>2, <2>3, <2>4, <2>5 DEF Read
<1>2. CASE HandleMessage
  <2>1. CASE ready_to_handle_message
    <3>1. Len(header') = 0  BY <1>2, <2>1 DEF HandleMessage, NextMessage
    <3>. QED  BY <3>1, ConstantTypes DEF PartInv
  <2>2. CASE ~ready_to_handle_message
    <3>1. /\ UNCHANGED <<length, read_body_length, header, ready_to_handle_message, state>>
          /\ pc = "message"
      BY <1>2, <2>2 DEF HandleMessage, NoWrite
    <3>. QED  BY <2>2, <3>1 DEF PartInv
  <2>. QED  BY <2>1, <2>2
<1>3. CASE EpollWait \/ SendBody \/ WriteNonBlocking
  <2>1. CASE ready_to_handle_message
    <3>1. pc = "message"  BY <2>1 DEF ParseInv
    <3>. QED  BY <1>3, <3>1 DEF EpollWait, SendBody, WriteNonBlocking
  <2>2. CASE ~ready_to_handle_message
    <3>1. /\ UNCHANGED parseVars /\ pc # "read"
          /\ state' = state \/ state' = "Disconected"
      BY <1>3 DEF EpollWait, SendBody, WriteNonBlocking, SendInternal, NoWrite, WriteTakes,
          WriteFails, HandleClose
    <3>. QED  BY <2>2, <3>1 DEF PartInv, parseVars
  <2>. QED  BY <2>1, <2>2
<1>4. CASE ConnectionDestructor \/ Peer \/ UNCHANGED vars
  <2>1. UNCHANGED <<parseVars, pc, state>>
    BY <1>4 DEF ConnectionDestructor, Peer, PeerSend, PeerShutdown, PeerReset, PeerRead,
        Deliver, DeliverEnd, vars, threadVars
  <2>. QED  BY <2>1 DEF PartInv, parseVars
<1>. QED  BY <1>1, <1>2, <1>3, <1>4 DEF Next, Thread

-----------------------------------------------------------------------------
(* What is left when the channel has left epoll: nothing that the kernel   *)
(* had room for.                                                           *)

LEMMA NextGone == ASSUME FlagTypes, GoneInv, [Next]_vars PROVE GoneInv'
<1>1. CASE EpollWait
  BY <1>1 DEF EpollWait, GoneInv
<1>2. CASE Read \/ HandleMessage \/ SendBody \/ WriteNonBlocking
  <2>1. registered' = registered /\ pc # "epoll"
    BY <1>2 DEF Read, HandleMessage, SendBody, WriteNonBlocking, readUnchanged, sendUnchanged,
        channelVars
  <2>. QED  BY <2>1 DEF GoneInv
<1>3. CASE ConnectionDestructor
  BY <1>3 DEF ConnectionDestructor, GoneInv
<1>4. CASE Peer \/ UNCHANGED vars
  <2>1. UNCHANGED <<pc, registered, state>>
    BY <1>4 DEF Peer, PeerSend, PeerShutdown, PeerReset, PeerRead, Deliver, DeliverEnd, vars,
        threadVars, channelVars
  <2>2. edge' = edge \/ edge' = registered \/ edge' = (edge \/ (nospace /\ registered /\ writing))
    BY <1>4 DEF Peer, PeerSend, PeerShutdown, PeerReset, PeerRead, Deliver, DeliverEnd, vars
  <2>. QED  BY <2>1, <2>2 DEF GoneInv, FlagTypes
<1>. QED  BY <1>1, <1>2, <1>3, <1>4 DEF Next, Thread

LEMMA NextHeaders ==
  ASSUME PeerTypes, HeaderInv, [Next]_vars
  PROVE  HeaderInv'
<1>0. Len(stream) \in Nat /\ Len(sent) \in Nat /\ sent \in Seq(Lengths)  BY DEF PeerTypes
<1>1. CASE PeerSend
  <2> DEFINE L == Len(stream)
             H == TLV_HEADER_LENGTH
  <2>1. PICK n \in Lengths :
          /\ sent' = Append(sent, n) /\ Len(stream') = L + (H + n)
          /\ \A k \in 1 .. L : stream'[k] = stream[k]
          /\ \A k \in 1 .. H : stream'[L + k] = <<"len", n, k>>
          /\ \A k \in 1 .. n : stream'[L + (H + k)] = <<"body", Len(sent) + 1, k>>
    BY <1>1, SendAppends
  <2>2. /\ \A j \in DOMAIN sent : j \in DOMAIN sent' /\ sent'[j] = sent[j]
        /\ Len(sent) + 1 \in DOMAIN sent' /\ sent'[Len(sent) + 1] = n
    BY <1>0, <2>1
  <2>3. n \in Nat /\ H \in Nat /\ L \in Nat  BY <1>0, <2>1, ConstantTypes
  <2>4. ASSUME NEW p \in 1 .. Len(stream'), stream'[p][1] = "len"
        PROVE  \E j \in DOMAIN sent' : stream'[p][2] = sent'[j]
    <3>0. p \in 1 .. L + (H + n)  BY <2>1
    <3> HIDE DEF L, H
    <3>1. CASE p <= L
      <4>1. p \in 1 .. Len(stream) /\ stream'[p] = stream[p]
        BY <2>1, <2>3, <3>0, <3>1 DEF L
      <4>2. PICK j \in DOMAIN sent : stream[p][2] = sent[j]
        BY <2>4, <4>1 DEF HeaderInv
      <4>. QED  BY <2>2, <4>1, <4>2
    <3>2. CASE p > L /\ p <= L + H
      <4>1. PICK k \in 1 .. H : p = L + k
        <5>1. p - L \in 1 .. H /\ p = L + (p - L)  BY <2>3, <3>0, <3>2
        <5>. QED  BY <5>1
      <4>2. stream'[p] = <<"len", n, k>>  BY <2>1, <4>1
      <4>. QED  BY <2>2, <4>2
    <3>3. CASE p > L + H
      <4>1. PICK k \in 1 .. n : p = L + (H + k)
        <5>1. p - (L + H) \in 1 .. n /\ p = L + (H + (p - (L + H)))  BY <2>3, <3>0, <3>3
        <5>. QED  BY <5>1
      <4>2. stream'[p] = <<"body", Len(sent) + 1, k>>  BY <2>1, <4>1
      <4>. QED  BY <2>4, <4>2
    <3>. QED  BY <2>3, <3>0, <3>1, <3>2, <3>3
  <2>. QED  BY <2>4 DEF HeaderInv
<1>2. CASE stream' = stream /\ sent' = sent  BY <1>2 DEF HeaderInv
<1>3. CASE ~PeerSend
  <2>1. stream' = stream /\ sent' = sent
    BY <1>3 DEF Next, Thread, EpollWait, Read, HandleMessage, SendBody, WriteNonBlocking,
        ConnectionDestructor, Peer, PeerShutdown, PeerReset, PeerRead, Deliver,
        DeliverEnd, vars, peerVars, readUnchanged, sendUnchanged
  <2>. QED  BY <1>2, <2>1
<1>. QED  BY <1>1, <1>3

(* What hinders an answer does not go away.                                *)
LEMMA UnhinderedBefore ==
  ASSUME PeerTypes, PeerTypes', FramedInv, [Next]_vars
  PROVE  /\ Unhindered' => Unhindered
         /\ Reset => Reset'
         /\ peer # "open" => peer' # "open"
<1>0. Extends  BY NextFramed
<1>1. (Reset => Reset') /\ (peer # "open" => peer' # "open")
  BY DEF Next, Thread, EpollWait, Read, HandleMessage, SendBody, WriteNonBlocking,
      ConnectionDestructor, Peer, PeerSend, PeerShutdown, PeerReset, PeerRead, Deliver,
      DeliverEnd, vars, peerVars, readUnchanged, sendUnchanged, Reset
<1>2. sent' = sent \/ \E n \in Lengths : sent' = Append(sent, n)
  BY DEF Next, Thread, EpollWait, Read, HandleMessage, SendBody, WriteNonBlocking,
      ConnectionDestructor, Peer, PeerSend, PeerShutdown, PeerReset, PeerRead, Deliver,
      DeliverEnd, vars, peerVars, readUnchanged, sendUnchanged
<1>3. \A j \in DOMAIN sent : j \in DOMAIN sent' /\ sent'[j] = sent[j]
  <2>1. sent \in Seq(Lengths)  BY DEF PeerTypes
  <2>. QED  BY <1>2, <2>1
<1>4. Len(stream) \in Nat /\ Len(stream') \in Nat  BY DEF PeerTypes
<1>5. AllAllowed' => AllAllowed  BY <1>3 DEF AllAllowed
<1>6. Len(stream') <= SendSpace => Len(stream) <= SendSpace
  BY <1>0, <1>4, ConstantTypes DEF Extends
<1>. QED  BY <1>1, <1>5, <1>6 DEF Unhindered

LEMMA NextFin ==
  ASSUME FlagTypes, PeerTypes, FinInv, [Next]_vars
  PROVE  FinInv'
<1>1. killed' => Reset'
  <2>1. CASE Peer \/ UNCHANGED vars
    <3>1. killed' = killed /\ (Reset => Reset')
      BY <2>1 DEF Peer, PeerSend, PeerShutdown, PeerReset, PeerRead, Deliver, DeliverEnd, vars,
          threadVars, peerVars, Reset
    <3>. QED  BY <3>1 DEF FinInv
  <2>2. CASE Thread
    <3>1. peer' = peer
      BY <2>2 DEF Thread, EpollWait, Read, HandleMessage, SendBody, WriteNonBlocking,
          ConnectionDestructor, peerVars, readUnchanged, sendUnchanged
    <3>2. killed' = killed \/ Reset
      BY <2>2 DEF Thread, EpollWait, Read, readUnchanged, HandleMessage, OnMessage, Send, Send2,
          SendWithTwoSysCall, SendBody, SendInternal, NoWrite, WriteTakes, WriteFails,
          WriteNonBlocking, ConnectionDestructor
    <3>. QED  BY <3>1, <3>2 DEF FinInv, Reset
  <2>. QED  BY <2>1, <2>2 DEF Next
<1>2. fin' => peer' # "open" /\ arrived' = Len(stream')
  <2>1. CASE Thread
    <3>1. UNCHANGED <<fin, arrived, peer, stream>>
      BY <2>1 DEF Thread, EpollWait, Read, HandleMessage, SendBody, WriteNonBlocking,
          ConnectionDestructor, peerVars, inVars, readUnchanged, sendUnchanged
    <3>. QED  BY <3>1 DEF FinInv
  <2>2. CASE PeerSend
    <3>1. fin' = fin /\ peer = "open"  BY <2>2 DEF PeerSend, inVars
    <3>. QED  BY <3>1 DEF FinInv
  <2>3. CASE Deliver
    <3>1. PICK n \in 1 .. Len(stream) - arrived : arrived' = arrived + n  BY <2>3 DEF Deliver
    <3>2. fin' = fin /\ stream' = stream /\ peer' = peer  BY <2>3 DEF Deliver, peerVars
    <3>3. ~fin  BY <3>1 DEF FinInv, PeerTypes
    <3>. QED  BY <3>2, <3>3
  <2>4. CASE DeliverEnd
    BY <2>4 DEF DeliverEnd, peerVars
  <2>5. CASE PeerShutdown \/ PeerReset \/ PeerRead \/ UNCHANGED vars
    <3>1. UNCHANGED <<fin, arrived, stream>> /\ (peer' = peer \/ peer' # "open")
      BY <2>5 DEF PeerShutdown, PeerReset, PeerRead, vars, peerVars, inVars
    <3>. QED  BY <3>1 DEF FinInv
  <2>. QED  BY <2>1, <2>2, <2>3, <2>4, <2>5 DEF Next, Peer
<1>. QED  BY <1>1, <1>2 DEF FinInv

(* A message of the stream that is short enough.                           *)
LEMMA AllowedAt ==
  ASSUME PeerTypes, FramedInv, HeaderInv, Unhindered, NEW p \in Heads, p # Len(stream)
  PROVE  \E n \in Lengths :
           /\ n <= MAX_TLV_LENGTH /\ p + TLV_HEADER_LENGTH + n <= Len(stream)
           /\ stream[p + 1] = <<"len", n, 1>>
<1>0. Len(stream) \in Nat /\ p \in 0 .. Len(stream)  BY DEF PeerTypes, Heads
<1>1. PICK n \in Lengths :
        /\ p + TLV_HEADER_LENGTH + n \in Heads
        /\ \A k \in 1 .. TLV_HEADER_LENGTH : stream[p + k] = <<"len", n, k>>
  BY DEF FramedInv
<1>2. stream[p + 1] = <<"len", n, 1>>  BY <1>1, ConstantTypes
<1>3. p + TLV_HEADER_LENGTH + n <= Len(stream)  BY <1>0, <1>1 DEF Heads
<1>4. p + 1 \in 1 .. Len(stream)  BY <1>0
<1>5. PICK j \in DOMAIN sent : stream[p + 1][2] = sent[j]  BY <1>2, <1>4 DEF HeaderInv
<1>6. n <= MAX_TLV_LENGTH  BY <1>2, <1>5 DEF Unhindered, AllAllowed
<1>. QED  BY <1>2, <1>3, <1>6

(* Who finds the end of the stream has answered all of it.                 *)
LEMMA EndAnswered ==
  ASSUME PeerTypes, ParseTypes, OutTypes, FramedInv, ParseInv, AnswerInv, Echoed, HeaderInv,
         FinInv, Unhindered, state = "Connected", pc = "read", ReadEnd
  PROVE  fin /\ Output = stream
<1>1. Wanted /\ Available = 0 /\ fin  BY DEF ReadEnd, EndOfInput, Unhindered
<1>2. taken = Len(stream)  BY <1>1 DEF FinInv, Available, PeerTypes
<1>3. /\ Pos = Len(Output) /\ Pos \in Nat /\ Len(stream) \in Nat
      /\ Len(stream) = Pos + Len(header) + read_body_length
      /\ Len(header) \in Nat /\ read_body_length \in Nat
      /\ Len(header) <= TLV_HEADER_LENGTH
  BY <1>2, PosTyped DEF AnswerInv, ParseTypes
<1>4. ASSUME Pos # Len(stream)  PROVE FALSE
  <2>0. Pos \in Heads  BY DEF ParseInv
  <2>1. PICK n \in Lengths :
          /\ n <= MAX_TLV_LENGTH /\ Pos + TLV_HEADER_LENGTH + n <= Len(stream)
          /\ stream[Pos + 1] = <<"len", n, 1>>
    BY <1>4, <2>0, AllowedAt
  <2>2. n \in Nat  BY ConstantTypes
  <2>3. TLV_HEADER_LENGTH + n <= Len(header) + read_body_length
    BY <1>3, <2>1, <2>2, ConstantTypes
  <2>4. CASE Len(header) < TLV_HEADER_LENGTH
    <3>1. read_body_length = 0  BY <2>4 DEF ParseInv
    <3>. QED  BY <1>3, <2>2, <2>3, <2>4, <3>1, ConstantTypes
  <2>5. CASE Len(header) = TLV_HEADER_LENGTH
    <3>1. length = header[1][2] /\ header[1] = stream[Pos + 1]
      BY <2>5, ConstantTypes DEF ParseInv
    <3>2. length = n  BY <2>1, <3>1
    <3>3. Len(read_buffer) = length
      BY <2>1, <2>2, <2>5, <3>2, ConstantTypes DEF ParseInv
    <3>4. read_body_length < n  BY <1>1, <1>3, <2>2, <2>5, <3>2, <3>3 DEF Wanted, BodyRoom
    <3>. QED  BY <1>3, <2>2, <2>3, <2>5, <3>4, ConstantTypes
  <2>. QED  BY <1>3, <2>4, <2>5, ConstantTypes
<1>5. Output \in Seq(Bytes) /\ stream \in Seq(Bytes)  BY OutputTyped DEF PeerTypes
<1>. QED  BY <1>1, <1>3, <1>4, <1>5, SeqEqual DEF Echoed

(* Nothing but the end closes it.                                          *)
LEMMA OnlyTheEnd ==
  ASSUME PeerTypes, ParseTypes, OutTypes, FramedInv, ParseInv, ParseInv', AnswerInv, Echoed,
         HeaderInv, FinInv, PeerTypes', ParseTypes',
         Unhindered, state = "Connected", Read, state' # state
  PROVE  ReadEnd
<1>0. pc = "read" /\ stream' = stream /\ Pos' = Pos
  BY ReadKeepsPos DEF Read, readUnchanged, peerVars
<1>1. ~ReadHeader
  <2> SUFFICES ASSUME ReadHeader  PROVE FALSE
    OBVIOUS
  <2>1. /\ Len(header') = TLV_HEADER_LENGTH /\ length' = header'[1][2] /\ TooLong(length')
    BY HeaderEnds
  <2>2. 1 \in 1 .. Len(header')  BY <2>1, ConstantTypes
  <2>3. header'[1] = stream[Pos + 1]  BY <1>0, <2>2 DEF ParseInv
  <2>4. Pos \in Heads  BY DEF ParseInv
  <2>5. Pos # Len(stream)
    <3>1. PICK n \in Nat \ {0} : taken' = taken + n  BY ReadsHeader
    <3>2. taken' <= Len(stream)  BY <1>0 DEF PeerTypes
    <3>. QED  BY <3>1, <3>2, PosTyped
  <2>6. PICK n \in Lengths : n <= MAX_TLV_LENGTH /\ stream[Pos + 1] = <<"len", n, 1>>
    BY <2>4, <2>5, AllowedAt
  <2>7. length' = n /\ n \in Nat  BY <2>1, <2>3, <2>6, ConstantTypes
  <2>. QED  BY <2>1, <2>6, <2>7, ConstantTypes DEF TooLong
<1>2. ~ReadNoRoom
  <2> SUFFICES ASSUME ReadNoRoom  PROVE FALSE
    OBVIOUS
  <2>1. Len(header) = TLV_HEADER_LENGTH /\ BodyRoom = 0 /\ read_body_length # length
    BY DEF ReadNoRoom
  <2>2. Len(read_buffer) = length  BY <2>1 DEF ParseInv
  <2>. QED  BY <2>1, <2>2 DEF BodyRoom, ParseTypes
<1>3. ~ReadBody /\ ~ReadAgain  BY DEF ReadBody, ReadAgain
<1>. QED  BY <1>1, <1>2, <1>3 DEF Read

(* The write callback has room for all that is left.                       *)
LEMMA EndWritten ==
  ASSUME PeerTypes, OutTypes, Unhindered, Output = stream, WriteNonBlocking
  PROVE  send_buffer' = <<>>
<1>1. WriteTakes(send_buffer) /\ Retrieve(Taken(send_buffer))
  BY DEF WriteNonBlocking, WriteFails, Unhindered
<1>2. /\ Len(send_buffer) \in Nat /\ Len(written) \in Nat /\ read_by_peer \in Nat
      /\ send_buffer \in Seq(Bytes)
      /\ Space(written) \in Nat /\ Space(written) = SendSpace - (Len(written) - read_by_peer)
  BY SpaceTyped DEF OutTypes, Space
<1>3. Len(send_buffer) <= Space(written)
  <2>1. Len(written) + Len(send_buffer) <= SendSpace  BY OutputTyped DEF Unhindered
  <2>. QED  BY <1>2, <2>1, ConstantTypes
<1>4. Taken(send_buffer) = Len(send_buffer)
  <2>1. Taken(send_buffer) \in {Len(send_buffer), Space(written)}
    BY <1>2, MinOfTwo DEF Taken
  <2>2. Taken(send_buffer) \in 0 .. Len(send_buffer)  BY <1>2, TakenBounds
  <2>. QED  BY <1>2, <1>3, <2>1, <2>2
<1>. QED  BY <1>1, <1>2, <1>4, SubSeqEmpty DEF Retrieve

LEMMA NextEnd ==
  ASSUME FlagTypes, PeerTypes, ParseTypes, OutTypes, PeerTypes', ParseTypes',
         FramedInv, ParseInv, ParseInv', AnswerInv, Echoed, FlushInv, GoneInv,
         HeaderInv, FinInv, EndInv, [Next]_vars
  PROVE  EndInv'
<1> DEFINE Reported == send_buffer # <<>> /\ pc = "read" => "OUT" \in events
           Over == state = "Disconected" =>
                     /\ fin /\ Output = stream
                     /\ send_buffer # <<>> => /\ pc \in {"read", "message", "write"}
                                              /\ "OUT" \in events
<1> SUFFICES ASSUME Unhindered'  PROVE Reported' /\ Over'
  BY DEF EndInv
<1>0. /\ Unhindered /\ ~Reset /\ ~Reset' /\ Reported /\ Over
      /\ peer # "open" => peer' # "open"
  BY UnhinderedBefore DEF EndInv, Unhindered
<1>1. CASE Read
  <2>1. /\ UNCHANGED <<send_buffer, events, fin, stream, written>> /\ pc = "read"
        /\ Output' = Output
    BY <1>1 DEF Read, readUnchanged, peerVars, channelVars, outVars, Output
  <2>2. pc' \in {"read", "message"}
    <3>1. CASE ReadHeader  BY <2>1, <3>1, HeaderEnds
    <3>2. CASE ~ReadHeader
      BY <1>1, <2>1, <3>2 DEF Read, ReadBody, ReadNoRoom, ReadAgain, ReadEnd
    <3>. QED  BY <3>1, <3>2
  <2>3. ASSUME state = "Connected", state' = "Disconected"  PROVE fin /\ Output = stream
    <3>1. ReadEnd  BY <1>0, <1>1, <2>3, OnlyTheEnd
    <3>. QED  BY <1>0, <2>1, <2>3, <3>1, EndAnswered
  <2>. QED  BY <1>0, <2>1, <2>2, <2>3 DEF FlagTypes
<1>2. CASE HandleMessage
  <2>1. /\ UNCHANGED <<events, fin, stream, peer>> /\ pc = "message" /\ pc' # "read"
    BY <1>2, Handling DEF HandleMessage, sendUnchanged, peerVars, inVars, channelVars
  <2>2. CASE state = "Connected"
    <3>1. state' = "Connected"
      BY <1>0, <1>2, <2>2 DEF HandleMessage, OnMessage, Send, Send2, SendWithTwoSysCall,
          SendInternal, NoWrite, WriteTakes, WriteFails
    <3>. QED  BY <2>1, <3>1
  <2>3. CASE state # "Connected"
    <3>1. Continue /\ NoWrite /\ send_buffer' = send_buffer
      BY <1>2, <2>3 DEF HandleMessage, OnMessage
    <3>2. state' = state /\ Output' = Output  BY <3>1 DEF NoWrite, Output
    <3>3. "OUT" \in events => pc' = "write"  BY <3>1 DEF Continue
    <3>. QED  BY <1>0, <2>1, <2>3, <3>1, <3>2, <3>3
  <2>. QED  BY <2>2, <2>3
<1>3. CASE SendBody
  <2>1. pc = "body" /\ SendInternal(read_buffer) /\ Continue  BY <1>3 DEF SendBody
  <2>2. state = "Connected"  BY <1>0, <2>1 DEF AnswerInv, FlagTypes
  <2>3. state' = "Connected"
    BY <1>0, <2>1, <2>2 DEF SendInternal, NoWrite, WriteTakes, WriteFails
  <2>4. pc' # "read"  BY <2>1 DEF Continue
  <2>. QED  BY <2>3, <2>4
<1>4. CASE WriteNonBlocking
  <2>1. /\ UNCHANGED <<fin, stream>> /\ pc' = "epoll" /\ Output' = Output
    BY <1>4, Flushing DEF WriteNonBlocking, sendUnchanged, peerVars, inVars
  <2>2. state' = state
    BY <1>0, <1>4 DEF WriteNonBlocking, WriteTakes, WriteFails
  <2>3. state = "Disconected" => send_buffer' = <<>>  BY <1>0, <1>4, EndWritten
  <2>. QED  BY <1>0, <2>1, <2>2, <2>3
<1>5. CASE EpollWait
  <2>1. /\ UNCHANGED <<fin, stream, written, read_by_peer, send_buffer, state>>
        /\ pc = "epoll" /\ edge /\ ~killed /\ Output' = Output
    BY <1>5 DEF EpollWait, peerVars, inVars, Output
  <2>2. ASSUME send_buffer # <<>>  PROVE "OUT" \in events'
    <3>1. registered  BY <2>1 DEF GoneInv, FlagTypes
    <3>2. writing  BY <1>0, <2>1, <2>2, <3>1 DEF FlushInv
    <3>3. Space(written) > 0
      <4>1. /\ Len(written) + Len(send_buffer) <= SendSpace
        <5>1. Len(Output) <= SendSpace
          BY <1>0, OutputTyped, ConstantTypes DEF Echoed, Unhindered, PeerTypes, OutTypes
        <5>. QED  BY <5>1, OutputTyped
      <4>2. /\ Len(send_buffer) \in Nat \ {0} /\ Len(written) \in Nat /\ read_by_peer \in Nat
        BY <2>2, EmptySeq DEF OutTypes
      <4>. QED  BY <4>1, <4>2, ConstantTypes DEF Space
    <3>. QED  BY <1>5, <3>2, <3>3 DEF EpollWait, Readiness
  <2>. QED  BY <1>0, <2>1, <2>2
<1>6. CASE ConnectionDestructor \/ UNCHANGED vars
  <2>1. UNCHANGED <<send_buffer, pc, events, state, fin, written, stream>> /\ Output' = Output
    BY <1>6 DEF ConnectionDestructor, vars, peerVars, inVars, outVars, channelVars, Output
  <2>. QED  BY <1>0, <2>1
<1>7. CASE Peer
  <2>1. /\ UNCHANGED <<send_buffer, pc, events, state, written>> /\ Output' = Output
        /\ fin => fin'
    BY <1>7 DEF Peer, PeerSend, PeerShutdown, PeerReset, PeerRead, Deliver, DeliverEnd,
        threadVars, channelVars, outVars, inVars, Output
  <2>2. stream' = stream \/ peer = "open"
    BY <1>7 DEF Peer, PeerSend, PeerShutdown, PeerReset, PeerRead, Deliver, DeliverEnd,
        peerVars
  <2>3. state = "Disconected" => stream' = stream  BY <1>0, <2>2 DEF FinInv
  <2>. QED  BY <1>0, <2>1, <2>3
<1>. QED  BY <1>1, <1>2, <1>3, <1>4, <1>5, <1>6, <1>7 DEF Next, Thread

-----------------------------------------------------------------------------
(* The invariant.                                                          *)

LEMMA InitConnection == Init => ConnectionInv
<1> SUFFICES ASSUME Init  PROVE ConnectionInv
  OBVIOUS
<1> USE DEF Init
<1>1. FlagTypes  BY DEF FlagTypes
<1>2. PeerTypes /\ OutTypes /\ ParseTypes
  BY ConstantTypes DEF PeerTypes, OutTypes, ParseTypes
<1>3. TypeOK  BY <1>1, <1>2, TypesOf
<1>4. Len(stream) = 0 /\ Heads = {0}
  <2>1. stream = <<>> /\ Len(stream) = 0  OBVIOUS
  <2>2. \A p \in 0 .. 0 : p = 0  OBVIOUS
  <2>. QED  BY <2>1, <2>2 DEF Heads
<1>5. FramedInv  BY <1>4 DEF FramedInv
<1>6. Pos = 0 /\ Len(header) = 0
  <2>1. taken = 0 /\ header = <<>> /\ read_body_length = 0  OBVIOUS
  <2> HIDE DEF Init
  <2>2. Len(header) = 0  BY <2>1
  <2>3. Pos = 0 - 0 - 0  BY <2>1, <2>2 DEF Pos
  <2>. QED  BY <2>2, <2>3
<1>7. ParseInv  BY <1>4, <1>6, ConstantTypes DEF ParseInv
<1>8. Output = <<>> /\ Len(Output) = 0  BY DEF Output
<1>9. AnswerInv  BY <1>6, <1>8 DEF AnswerInv
<1>10. Echoed  BY <1>4, <1>8 DEF Echoed
<1>11. EchoInOrder  BY <1>3, <1>10, EchoElements
<1>. QED  BY <1>3, <1>5, <1>7, <1>9, <1>11 DEF ConnectionInv

LEMMA Invariance == Spec => []ConnectionInv
<1>1. ConnectionInv /\ [Next]_vars => ConnectionInv'
  <2> SUFFICES ASSUME ConnectionInv, [Next]_vars  PROVE ConnectionInv'
    OBVIOUS
  <2>1. /\ FlagTypes /\ PeerTypes /\ ParseTypes /\ OutTypes
        /\ TypeOK /\ FramedInv /\ ParseInv /\ AnswerInv /\ Echoed
    BY TypesOf, EchoElements DEF ConnectionInv
  <2>2. TypeOK'  BY <2>1, NextTypes
  <2>3. FramedInv' /\ ParseInv'  BY <2>1, NextFramed, NextParse
  <2>4. AnswerInv' /\ Echoed'  BY <2>1, NextAnswers
  <2>5. (TypeOK => (EchoInOrder <=> Echoed))'  BY EchoElements, PTL
  <2>6. EchoInOrder'  BY <2>2, <2>4, <2>5
  <2>. QED  BY <2>2, <2>3, <2>4, <2>6 DEF ConnectionInv
<1>. QED  BY <1>1, InitConnection, PTL DEF Spec

LEMMA RestInvariance == Spec => []RestInv
<1>1. Init => RestInv
  BY ConstantTypes DEF Init, RestInv, FlushInv, ReadInv, PartInv, Available, EndOfInput, Reset
<1>2. ConnectionInv /\ RestInv /\ [Next]_vars => RestInv'
  <2> SUFFICES ASSUME ConnectionInv, RestInv, [Next]_vars  PROVE RestInv'
    OBVIOUS
  <2>1. FlagTypes /\ PeerTypes /\ ParseTypes /\ OutTypes /\ ParseInv
    BY TypesOf DEF ConnectionInv
  <2>. QED  BY <2>1, NextFlush, NextRead, NextPart DEF RestInv
<1>. QED  BY <1>1, <1>2, Invariance, PTL DEF Spec

LEMMA EndInvariance == Spec => [](GoneInv /\ EndingInv)
<1>1. Init => GoneInv /\ EndingInv
  <2> SUFFICES ASSUME Init  PROVE GoneInv /\ EndingInv
    OBVIOUS
  <2>1. GoneInv /\ FinInv /\ EndInv  BY DEF Init, GoneInv, FinInv, EndInv
  <2>2. Len(stream) = 0  BY DEF Init
  <2>3. HeaderInv  BY <2>2 DEF HeaderInv
  <2>. QED  BY <2>1, <2>3 DEF EndingInv
<1>2. ConnectionInv /\ ConnectionInv' /\ RestInv /\ GoneInv /\ EndingInv /\ [Next]_vars
        => GoneInv' /\ EndingInv'
  <2> SUFFICES ASSUME ConnectionInv, ConnectionInv', RestInv, GoneInv, EndingInv, [Next]_vars
               PROVE  GoneInv' /\ EndingInv'
    OBVIOUS
  <2>1. /\ FlagTypes /\ PeerTypes /\ ParseTypes /\ OutTypes
        /\ FramedInv /\ ParseInv /\ AnswerInv /\ Echoed /\ FlushInv
    BY TypesOf, EchoElements DEF ConnectionInv, RestInv
  <2>2. PeerTypes' /\ ParseTypes' /\ ParseInv'
    <3>1. TypeOK' /\ ParseInv'  BY DEF ConnectionInv
    <3>2. (TypeOK => PeerTypes /\ ParseTypes)'  BY TypesOf, PTL
    <3>. QED  BY <3>1, <3>2
  <2>3. HeaderInv /\ FinInv /\ EndInv  BY DEF EndingInv
  <2>4. GoneInv' /\ HeaderInv' /\ FinInv'  BY <2>1, <2>3, NextGone, NextHeaders, NextFin
  <2>5. EndInv'  BY <2>1, <2>2, <2>3, NextEnd
  <2>. QED  BY <2>4, <2>5 DEF EndingInv
<1>. QED  BY <1>1, <1>2, Invariance, RestInvariance, PTL DEF Spec

-----------------------------------------------------------------------------
(* The refinement of EchoService.                                          *)

(* What a step may write.                                                  *)
Writing ==
  /\ pc # "epoll" /\ ~killed /\ killed' = killed
  /\ \E bytes \in Seq(Bytes) : written' = written \o bytes

LEMMA TakesWrites ==
  ASSUME OutTypes, NEW data \in Seq(Bytes), WriteTakes(data), pc # "epoll", ~killed
  PROVE  Writing
<1>1. Taken(data) \in 0 .. Len(data)  BY TakenBounds
<1>2. SubSeq(data, 1, Taken(data)) \in Seq(Bytes)  BY <1>1, SplitAt
<1>. QED  BY <1>2 DEF Writing, WriteTakes

LEMMA SendWrites ==
  ASSUME OutTypes, NEW data \in Seq(Bytes), SendInternal(data), pc # "epoll", ~killed
  PROVE  Writing \/ written' = written
<1>1. CASE WriteTakes(data)  BY <1>1, TakesWrites
<1>2. CASE ~WriteTakes(data)  BY <1>2 DEF SendInternal, NoWrite, WriteFails
<1>. QED  BY <1>1, <1>2

LEMMA StepWrites ==
  ASSUME FlagTypes, OutTypes, ParseTypes, [Next]_vars
  PROVE  Writing \/ written' = written
<1>1. CASE HandleMessage
  <2>1. pc # "epoll" /\ ~killed  BY <1>1 DEF HandleMessage
  <2>2. Answer \in Seq(Bytes) /\ Header(Len(read_buffer)) \in Seq(Bytes)  BY AnswerTyped
  <2>3. CASE \E data \in Seq(Bytes) : SendInternal(data)  BY <2>1, <2>3, SendWrites
  <2>4. CASE NoWrite  BY <2>4 DEF NoWrite
  <2>. QED
    BY <1>1, <2>2, <2>3, <2>4 DEF HandleMessage, OnMessage, Send2, Send, SendWithTwoSysCall,
        Answer
<1>2. CASE SendBody
  <2>1. read_buffer \in Seq(Bytes)  BY DEF ParseTypes
  <2>. QED  BY <1>2, <2>1, SendWrites DEF SendBody
<1>3. CASE WriteNonBlocking
  <2>1. send_buffer \in Seq(Bytes) /\ pc # "epoll" /\ ~killed
    BY <1>3 DEF OutTypes, WriteNonBlocking
  <2>2. CASE WriteTakes(send_buffer)  BY <2>1, <2>2, TakesWrites
  <2>3. CASE WriteFails  BY <2>3 DEF WriteFails
  <2>. QED  BY <1>3, <2>2, <2>3 DEF WriteNonBlocking
<1>4. CASE EpollWait \/ Read \/ ConnectionDestructor \/ Peer \/ UNCHANGED vars
  BY <1>4 DEF EpollWait, Read, readUnchanged, ConnectionDestructor, Peer, PeerSend,
      PeerShutdown, PeerReset, PeerRead, Deliver, DeliverEnd, vars, outVars
<1>. QED  BY <1>1, <1>2, <1>3, <1>4 DEF Next, Thread

(* Nothing that is over begins again.                                      *)
LEMMA StepEnds ==
  ASSUME FlagTypes, [Next]_vars
  PROVE  /\ killed => killed'
         /\ ~registered => ~registered'
         /\ registered' = registered \/ pc = "epoll"
         /\ stream' = stream \/ PeerSend
<1>1. killed' = killed \/ ~killed
  BY DEF Next, Thread, EpollWait, Read, HandleMessage, SendBody, WriteNonBlocking,
      ConnectionDestructor, Peer, PeerSend, PeerShutdown, PeerReset, PeerRead, Deliver,
      DeliverEnd, vars, threadVars
<1>2. registered' = registered \/ (pc = "epoll" /\ registered' = FALSE)
  BY DEF Next, Thread, EpollWait, Read, HandleMessage, SendBody, WriteNonBlocking,
      ConnectionDestructor, Peer, PeerSend, PeerShutdown, PeerReset, PeerRead, Deliver,
      DeliverEnd, vars, threadVars, channelVars, readUnchanged, sendUnchanged
<1>3. stream' = stream \/ PeerSend
  BY DEF Next, Thread, EpollWait, Read, HandleMessage, SendBody, WriteNonBlocking,
      ConnectionDestructor, Peer, PeerShutdown, PeerReset, PeerRead, Deliver,
      DeliverEnd, vars, peerVars, readUnchanged, sendUnchanged
<1>. QED  BY <1>1, <1>2, <1>3 DEF FlagTypes

-----------------------------------------------------------------------------
(* No length, index or flag of a connection leaves its type: read_buffer   *)
(* is never longer than MAX_TLV_LENGTH, and the indices stay inside the    *)
(* buffers (connection.cpp:228-301).                                       *)
THEOREM ConnectionTypeCorrect == Spec => []TypeOK
<1>1. ConnectionInv => TypeOK  BY DEF ConnectionInv
<1>. QED  BY <1>1, Invariance, PTL

(***************************************************************************)
(* What the server has written or will write is an initial part of what    *)
(* the peer sent, byte for byte, for any lengths of messages, however the  *)
(* network cuts the stream and the kernel cuts the writes, and whichever   *)
(* function sends (connection.cpp:103-216, 228-319).                       *)
(***************************************************************************)
THEOREM AnswersAreTheRequests == Spec => []EchoInOrder
<1>1. ConnectionInv => EchoInOrder  BY DEF ConnectionInv
<1>. QED  BY <1>1, Invariance, PTL

(***************************************************************************)
(* While the connection is open, the bytes taken are the whole messages    *)
(* answered and the part of the next one in header and read_buffer         *)
(* (connection.cpp:79-90, 228-301).                                        *)
(***************************************************************************)
THEOREM ReadsInStep == Spec => []InStep
<1>1. ConnectionInv => InStep
  <2> SUFFICES ASSUME ConnectionInv, state = "Connected", pc # "body"
               PROVE  taken = Len(written) + Len(send_buffer) + Len(header) + read_body_length
    BY DEF InStep
  <2>1. PeerTypes /\ ParseTypes /\ OutTypes /\ ParseInv /\ Pos = Len(Output)
    BY TypesOf DEF ConnectionInv, AnswerInv
  <2>2. Len(Output) = Len(written) + Len(send_buffer)  BY <2>1, OutputTyped
  <2>3. Len(written) \in Nat /\ Len(send_buffer) \in Nat  BY <2>1 DEF OutTypes
  <2>. QED  BY <2>1, <2>2, <2>3, PosTyped
<1>. QED  BY <1>1, Invariance, PTL

(***************************************************************************)
(* No edge is lost.  For any messages, cuts of the network and room of the *)
(* kernel, and whichever function answers, a thread that sleeps on a       *)
(* connection has unsent bytes only when the kernel has no space and       *)
(* watches for it; when Send2 answers, as in the echo server, it has       *)
(* neither unread bytes nor an unseen end, and no message that arrived     *)
(* whole is without its answer.  And a peer that shuts down its side and   *)
(* waits has all answers the kernel had room for when the channel leaves   *)
(* epoll (connection.cpp:103-216, 228-319, channel.cpp:30-39).             *)
(***************************************************************************)
THEOREM NothingLeftAtRest == Spec => []AnsweredAtRest
<1>1. RestInv => FlushedAtRest  BY DEF RestInv, FlushInv, FlushedAtRest, Asleep
<1>2. ConnectionInv /\ RestInv /\ SendApis = {"Send2"} => ReadAtRest
  <2> SUFFICES ASSUME ConnectionInv, RestInv, SendApis = {"Send2"}, Asleep, state = "Connected"
               PROVE  /\ Available = 0 /\ ~EndOfInput
                      /\ Len(Output) < Len(stream) => ~MessageWaits
    BY DEF ReadAtRest
  <2>1. /\ PeerTypes /\ ParseTypes /\ OutTypes /\ FlagTypes /\ ParseInv
        /\ pc = "epoll" /\ ~edge
    BY TypesOf DEF ConnectionInv, Asleep
  <2>2. ~(Available > 0 \/ EndOfInput) /\ ~ready_to_handle_message
    BY <2>1 DEF RestInv, ReadInv, Asleep, ParseInv
  <2>3. /\ taken \in Nat /\ arrived \in Nat /\ taken <= arrived
        /\ Len(header) \in Nat /\ Len(header) <= TLV_HEADER_LENGTH
        /\ read_body_length \in Nat /\ length \in Nat /\ header \in Seq(Bytes)
        /\ stream \in Seq(Bytes)
    BY <2>1 DEF PeerTypes, ParseTypes
  <2>4. Available = 0 /\ taken = arrived  BY <2>2, <2>3 DEF Available
  <2>5. /\ Len(Output) = taken - Len(header) - read_body_length /\ Len(Output) \in Nat
        /\ Pos = Len(Output)
    BY <2>1, PosTyped DEF ConnectionInv, AnswerInv, Pos
  <2>6. ASSUME Len(Output) < Len(stream), MessageWaits  PROVE FALSE
    <3> DEFINE n == stream[Len(Output) + 1][2]
    <3>1. n \in Nat
      <4>1. stream[Len(Output) + 1] \in Bytes  BY <2>3, <2>5, <2>6
      <4>. QED  BY <4>1 DEF Bytes
    <3>2. TLV_HEADER_LENGTH + n <= Len(header) + read_body_length
      <4>1. Len(Output) + TLV_HEADER_LENGTH + n <= taken  BY <2>4, <2>6 DEF MessageWaits
      <4> HIDE DEF n
      <4>. QED  BY <2>3, <2>5, <3>1, <4>1, ConstantTypes
    <3>3. CASE Len(header) < TLV_HEADER_LENGTH
      <4>1. read_body_length = 0  BY <2>1, <3>3 DEF ParseInv
      <4> HIDE DEF n
      <4>. QED  BY <2>3, <3>1, <3>2, <3>3, <4>1, ConstantTypes
    <3>4. CASE Len(header) = TLV_HEADER_LENGTH
      <4>1. length = header[1][2] /\ read_body_length < length
        BY <2>1, <2>2, <3>4 DEF ParseInv, RestInv, PartInv
      <4>2. 1 \in 1 .. Len(header)  BY <3>4, ConstantTypes
      <4>3. header[1] = stream[Pos + 1]  BY <2>1, <4>2 DEF ParseInv
      <4>4. length = n  BY <2>5, <4>1, <4>3
      <4> HIDE DEF n
      <4>. QED  BY <2>3, <3>1, <3>2, <3>4, <4>1, <4>4, ConstantTypes
    <3>. QED  BY <2>3, <3>3, <3>4, ConstantTypes
  <2>. QED  BY <2>2, <2>4, <2>6
<1>3. ConnectionInv /\ GoneInv /\ EndingInv => AnsweredAtEnd
  <2> SUFFICES ASSUME ConnectionInv, GoneInv, EndingInv, ~registered, Unhindered
               PROVE  written = stream
    BY DEF AnsweredAtEnd
  <2>1. send_buffer = <<>> /\ Output = stream
    BY DEF GoneInv, EndingInv, EndInv
  <2>2. written \in Seq(Bytes)  BY TypesOf DEF ConnectionInv, OutTypes
  <2>3. written \o <<>> = written  BY <2>2
  <2>. QED  BY <2>1, <2>3 DEF Output
<1>. QED  BY <1>1, <1>2, <1>3, Invariance, RestInvariance, EndInvariance, PTL DEF AnsweredAtRest

(***************************************************************************)
(* The connection implements EchoService, for any messages, cuts of the    *)
(* network and room of the kernel, and whichever function answers: what it *)
(* writes only grows, along the stream, and stops when it hangs up         *)
(* (channel.cpp:30-39, connection.cpp:46-77, 103-216, 228-319).            *)
(***************************************************************************)
THEOREM ConnectionImplementsEcho == Spec => ImplementsEcho
<1>1. Init => Service!Init
  BY DEF Init, Service!Init
<1>2. ASSUME ConnectionInv, ConnectionInv', GoneInv, [Next]_vars
      PROVE  [Service!Next]_(Service!vars)
  <2>1. /\ FlagTypes /\ PeerTypes /\ OutTypes /\ ParseTypes
        /\ FlagTypes' /\ OutTypes' /\ Echoed'
    <3>1. FlagTypes /\ PeerTypes /\ OutTypes /\ ParseTypes /\ TypeOK' /\ EchoInOrder'
      BY <1>2, TypesOf DEF ConnectionInv
    <3>2. (TypeOK => (EchoInOrder <=> Echoed) /\ FlagTypes /\ OutTypes)'
      BY EchoElements, TypesOf, PTL
    <3>. QED  BY <3>1, <3>2
  <2>2. /\ killed => killed'
        /\ ~registered => ~registered'
        /\ registered' = registered \/ pc = "epoll"
        /\ stream' = stream \/ PeerSend
        /\ Writing \/ written' = written
    BY <1>2, <2>1, StepEnds, StepWrites
  <2>3. CASE PeerSend
    <3>1. PICK n \in Lengths : stream' = stream \o (Header(n) \o Body(Len(sent) + 1, n))
      BY <2>3 DEF PeerSend
    <3>2. Len(sent) + 1 \in 1 .. MaxMessages
      BY <2>1, <2>3, ConstantTypes DEF PeerTypes, PeerSend
    <3>3. Header(n) \o Body(Len(sent) + 1, n) \in Packets
      BY <3>2 DEF Packets
    <3>4. UNCHANGED <<written, killed, registered>>
      BY <2>3 DEF PeerSend, outVars, threadVars, channelVars
    <3>. QED  BY <3>1, <3>3, <3>4 DEF Service!Ask, Service!Next
  <2>4. CASE stream' = stream /\ Writing
    <3>1. PICK bytes \in Seq(Bytes) : written' = written \o bytes  BY <2>4 DEF Writing
    <3>2. /\ written \in Seq(Bytes) /\ written' \in Seq(Bytes) /\ stream \in Seq(Bytes)
          /\ stream' = stream
      BY <2>1, <2>4, <3>1 DEF OutTypes, PeerTypes
    <3>3. IsPrefix(written, written')
      <4>1. Len(written) <= Len(written') /\ \A k \in 1 .. Len(written) : written[k] = written'[k]
        BY <3>1, <3>2, Joined
      <4>. QED  BY <3>2, <4>1, PrefixElements
    <3>4. IsPrefix(written', stream)
      <4>1. send_buffer' \in Seq(Bytes) /\ Output' = written' \o send_buffer'
        BY <2>1 DEF OutTypes, Output
      <4>2. /\ Len(Output') = Len(written') + Len(send_buffer')
            /\ \A k \in 1 .. Len(written') : Output'[k] = written'[k]
        BY <3>2, <4>1, Joined
      <4>3. Len(written') \in Nat /\ Len(send_buffer') \in Nat  BY <3>2, <4>1
      <4>4. Len(written') <= Len(stream) /\ \A k \in 1 .. Len(written') : written'[k] = stream[k]
        BY <2>1, <3>2, <4>2, <4>3 DEF Echoed
      <4>. QED  BY <3>2, <4>4, PrefixElements
    <3>5. ~killed /\ registered /\ killed' = killed /\ registered' = registered
      BY <1>2, <2>1, <2>2, <2>4 DEF Writing, GoneInv, FlagTypes
    <3>6. Service!IsPrefix(written, written') /\ Service!IsPrefix(written', stream)
      BY <3>3, <3>4 DEF IsPrefix, Service!IsPrefix
    <3>. QED  BY <2>4, <3>5, <3>6 DEF Service!Answer, Service!Next
  <2>5. CASE stream' = stream /\ written' = written
    <3>1. CASE (killed' \/ ~registered') <=> (killed \/ ~registered)
      BY <2>1, <2>5, <3>1 DEF Service!vars, FlagTypes
    <3>2. CASE ~(killed \/ ~registered) /\ (killed' \/ ~registered')
      BY <2>1, <2>5, <3>2 DEF Service!HangUp, Service!Next, FlagTypes
    <3>. QED  BY <2>1, <2>2, <3>1, <3>2 DEF FlagTypes
  <2>. QED  BY <2>2, <2>3, <2>4, <2>5
<1>3. ConnectionInv /\ ConnectionInv' /\ GoneInv /\ [Next]_vars => [Service!Next]_(Service!vars)
  BY <1>2
<1>. QED  BY <1>1, <1>3, Invariance, EndInvariance, PTL DEF Spec, ImplementsEcho, Service!Spec

-----------------------------------------------------------------------------
(* The refinement of ByteQueue.                                            *)

LEMMA SendPuts ==
  ASSUME OutTypes, NEW data \in Seq(Bytes), SendInternal(data)
  PROVE  send_buffer' = send_buffer \/ \E message \in Seq(Bytes) : SendBuffer!Put(message)
<1>1. CASE Keep(data)  BY <1>1 DEF Keep, SendBuffer!Put
<1>2. CASE Keep(SubSeq(data, Taken(data) + 1, Len(data)))
  <2>1. SubSeq(data, Taken(data) + 1, Len(data)) \in Seq(Bytes)  BY TakenBounds, SplitAt
  <2>. QED  BY <1>2, <2>1 DEF Keep, SendBuffer!Put
<1>3. CASE send_buffer' = send_buffer  BY <1>3
<1>. QED  BY <1>1, <1>2, <1>3 DEF SendInternal, WriteFails

(***************************************************************************)
(* The connection uses its send buffer only as a first-in first-out queue  *)
(* of bytes, which is what Buffer implements, whichever function answers   *)
(* and however the kernel cuts the writes (connection.cpp:103-216,         *)
(* 303-319, buffer.h).                                                     *)
(***************************************************************************)
THEOREM SendBufferIsByteQueue == Spec => UsesByteQueue
<1>1. Init => SendBuffer!Init  BY DEF Init, SendBuffer!Init
<1>2. ConnectionInv /\ [Next]_vars => [SendBuffer!Next]_send_buffer
  <2> SUFFICES ASSUME ConnectionInv, [Next]_vars, send_buffer' # send_buffer
               PROVE  SendBuffer!Next
    OBVIOUS
  <2>1. FlagTypes /\ OutTypes /\ ParseTypes  BY TypesOf DEF ConnectionInv
  <2>2. CASE HandleMessage
    <3>1. /\ Answer \in Seq(Bytes) /\ Header(Len(read_buffer)) \in Seq(Bytes)
      BY <2>1, AnswerTyped
    <3>2. PICK data \in Seq(Bytes) : SendInternal(data) \/ Keep(data)
      BY <2>2, <3>1 DEF HandleMessage, OnMessage, Send, Send2, SendWithTwoSysCall, Answer
    <3>3. CASE Keep(data)  BY <3>3 DEF Keep, SendBuffer!Put, SendBuffer!Next
    <3>4. CASE SendInternal(data)  BY <2>1, <3>4, SendPuts DEF SendBuffer!Next
    <3>. QED  BY <3>2, <3>3, <3>4
  <2>3. CASE SendBody
    <3>1. read_buffer \in Seq(Bytes) /\ SendInternal(read_buffer)
      BY <2>1, <2>3 DEF SendBody, ParseTypes
    <3>. QED  BY <2>1, <3>1, SendPuts DEF SendBuffer!Next
  <2>4. CASE WriteNonBlocking
    <3>1. Retrieve(Taken(send_buffer))  BY <2>4 DEF WriteNonBlocking, WriteFails
    <3>2. Taken(send_buffer) \in 0 .. Len(send_buffer) /\ Len(send_buffer) \in Nat
      BY <2>1, TakenBounds DEF OutTypes
    <3>3. CASE Taken(send_buffer) < Len(send_buffer)
      BY <3>1, <3>2, <3>3 DEF Retrieve, SendBuffer!TakeSome, SendBuffer!Next
    <3>4. CASE Taken(send_buffer) = Len(send_buffer)
      <4>1. send_buffer' = <<>>  BY <2>1, <3>1, <3>4, SubSeqEmpty DEF Retrieve, OutTypes
      <4>. QED  BY <4>1 DEF SendBuffer!TakeAll, SendBuffer!Next
    <3>. QED  BY <3>2, <3>3, <3>4
  <2>. QED
    BY <2>2, <2>3, <2>4 DEF Next, Thread, EpollWait, Read, readUnchanged, ConnectionDestructor,
        Peer, PeerSend, PeerShutdown, PeerReset, PeerRead, Deliver, DeliverEnd, vars,
        threadVars
<1>. QED  BY <1>1, <1>2, Invariance, PTL DEF Spec, UsesByteQueue, SendBuffer!Spec
=============================================================================
