---------------------------- MODULE ClientsProofs ----------------------------
(***************************************************************************)
(* The load generators count right, for any number of threads, requests    *)
(* and sizes; no thread waits in vain and every step leads towards the     *)
(* end; and their server does exactly what EchoService may do.             *)
(***************************************************************************)
EXTENDS Clients, FiniteSetTheorems, SequenceTheorems, TLAPS

(* The types of everything but the two counters, whose bounds follow from  *)
(* CountInv.                                                               *)
Types ==
  /\ program \in {"client", "client_longconn"}
  /\ main \in {"join", "reported", "SIGFPE", "SIGPIPE"}
  /\ pc \in [Threads -> {"enter", "round", "socket", "connect", "write", "read", "done"}]
  /\ i \in [Threads -> 0 .. REQUESTS_PER_THREAD]
  /\ MESSAGE_SIZE \in [Threads -> Sizes \cup {0}]
  /\ sock \in [Threads -> {"none", "created", "open", "hungup"}]
  /\ asked \in [Threads -> Seq(Bytes)]
  /\ arrived \in [Threads -> Nat] /\ taken \in [Threads -> Nat]
  /\ \A t \in Threads :
       taken[t] \in 0 .. arrived[t] /\ arrived[t] \in 0 .. Len(asked[t])

LEMMA TypesOf ==
  TypeOK <=> /\ Types
             /\ total_requests \in 0 .. REQUESTS_PER_THREAD * Cardinality(Threads)
             /\ successful_requests \in 0 .. REQUESTS_PER_THREAD * Cardinality(Threads)
BY DEF TypeOK, Types

-----------------------------------------------------------------------------
(* Packets.                                                                *)

LEMMA PacketTyped ==
  ASSUME Types, NEW t \in Threads
  PROVE  /\ PacketLength(t) \in Nat \ {0}
         /\ Packet(t) \in Seq(Bytes) /\ Len(Packet(t)) = PacketLength(t)
         /\ \A k \in 1 .. PacketLength(t) : Packet(t)[k] = <<i[t], k>>
<1>1. PacketLength(t) \in Nat \ {0}
  <2>1. MESSAGE_SIZE[t] \in Sizes \cup {0}  BY DEF Types
  <2>2. Sizes \subseteq Nat  BY ClientsAssumption
  <2>3. TLV_HEADER_LENGTH \in Nat \ {0}  BY ClientsAssumption
  <2>4. MESSAGE_SIZE[t] \in Nat
    <3>1. CASE MESSAGE_SIZE[t] \in Sizes  BY <2>2, <3>1
    <3>2. CASE MESSAGE_SIZE[t] = 0  BY <3>2
    <3>. QED  BY <2>1, <3>1, <3>2
  <2>. QED  BY <2>3, <2>4 DEF PacketLength
<1>2. \A k \in 1 .. PacketLength(t) : <<i[t], k>> \in Bytes
  <2>1. i[t] \in Nat  BY ClientsAssumption DEF Types
  <2>. QED  BY <1>1, <2>1 DEF Bytes
<1>3. Packet(t) \in [1 .. PacketLength(t) -> Bytes]
  BY <1>2 DEF Packet
<1>4. Packet(t) \in Seq(Bytes) /\ Len(Packet(t)) = PacketLength(t)
  BY <1>1, <1>3
<1>5. \A k \in 1 .. PacketLength(t) : Packet(t)[k] = <<i[t], k>>
  BY DEF Packet
<1>. QED  BY <1>1, <1>4, <1>5

(* The last bytes of a sequence.                                           *)
LEMMA LastBytes ==
  ASSUME NEW S, NEW s \in Seq(S), NEW a \in Nat, NEW n \in Nat, Len(s) = a + n
  PROVE  /\ SubSeq(s, a + 1, a + n) \in Seq(S)
         /\ Len(SubSeq(s, a + 1, a + n)) = n
         /\ \A k \in 1 .. n : SubSeq(s, a + 1, a + n)[k] = s[a + k]
<1>1. \A k \in a + 1 .. a + n : s[k] \in S  OBVIOUS
<1>. QED  BY <1>1

LEMMA JoinedBytes ==
  ASSUME NEW S, NEW s \in Seq(S), NEW p \in Seq(S)
  PROVE  /\ s \o p \in Seq(S) /\ Len(s \o p) = Len(s) + Len(p)
         /\ \A k \in 1 .. Len(p) : (s \o p)[Len(s) + k] = p[k]
OBVIOUS

(* The answer to an unanswered packet is the packet.                       *)
LEMMA AnswerIsPacket ==
  ASSUME Types, NEW t \in Threads, Unanswered(t)
  PROVE  SubSeq(asked[t], taken[t] + 1, taken[t] + PacketLength(t)) = Packet(t)
<1> DEFINE n == PacketLength(t)
           s == asked[t]
           a == taken[t]
<1>1. n \in Nat \ {0} /\ Packet(t) \in Seq(Bytes) /\ Len(Packet(t)) = n
  BY PacketTyped
<1>2. s \in Seq(Bytes) /\ a \in Nat /\ Len(s) = a + n
  BY DEF Types, Unanswered
<1>3. /\ SubSeq(s, a + 1, a + n) \in Seq(Bytes)
      /\ Len(SubSeq(s, a + 1, a + n)) = n
      /\ \A k \in 1 .. n : SubSeq(s, a + 1, a + n)[k] = s[a + k]
  <2> HIDE DEF n, s, a
  <2>. QED  BY <1>1, <1>2, LastBytes
<1>4. \A k \in 1 .. n : SubSeq(s, a + 1, a + n)[k] = Packet(t)[k]
  BY <1>3, PacketTyped DEF Unanswered
<1>. QED  BY <1>1, <1>3, <1>4, SeqEqual

-----------------------------------------------------------------------------
(* A step of a thread or of its connection leaves the others alone.        *)
ThreadStep(t) == client_thread(t) \/ Answer(t) \/ HangUp(t)

LEMMA OthersUnchanged ==
  ASSUME Types, NEW t \in Threads, ThreadStep(t), NEW u \in Threads \ {t}
  PROVE  /\ pc'[u] = pc[u] /\ i'[u] = i[u] /\ MESSAGE_SIZE'[u] = MESSAGE_SIZE[u]
         /\ sock'[u] = sock[u] /\ asked'[u] = asked[u]
         /\ arrived'[u] = arrived[u] /\ taken'[u] = taken[u]
BY DEF Types, ThreadStep, client_thread, Answer, HangUp, Enter, Round, EndRounds,
       Socket, Connect, ConnectFails, Write, WriteFails, WriteKills, ReadAnswer,
       ReadShort, ReadEnd, Goto, Close, Fail, connVars, roundVars

LEMMA ProgramStays == [Next]_vars => program' = program
BY DEF Next, vars, client_thread, Answer, HangUp, Enter, Round, EndRounds,
       Socket, Connect, ConnectFails, Write, WriteFails, WriteKills, ReadAnswer,
       ReadShort, ReadEnd, Report

LEMMA NextTypes == ASSUME ClientsInv, [Next]_vars PROVE Types'
<1> USE ClientsAssumption DEF ClientsInv, TypeOK, Types
<1>1. ASSUME NEW t \in Threads, ThreadStep(t)  PROVE Types'
  <2>1. CASE Answer(t)  BY <2>1 DEF Answer, roundVars, counters
  <2>2. CASE HangUp(t)  BY <2>2 DEF HangUp, roundVars, counters
  <2>3. CASE Enter(t)  BY <2>3 DEF Enter, Goto, roundVars, connVars
  <2>4. CASE Round(t)
    <3>1. i'[t] \in 0 .. REQUESTS_PER_THREAD  BY <2>4 DEF Round, GoesOn
    <3>. QED  BY <2>4, <3>1 DEF Round, Goto, connVars
  <2>5. CASE EndRounds(t)  BY <2>5 DEF EndRounds, Goto, Close, roundVars, connVars
  <2>6. CASE Socket(t)  BY <2>6 DEF Socket, Goto, Fail, roundVars
  <2>7. CASE Connect(t)
    <3>1. <<>> \in Seq(Bytes) /\ Len(<<>>) = 0  OBVIOUS
    <3>. QED  BY <2>7, <3>1 DEF Connect, Goto, roundVars
  <2>8. CASE ConnectFails(t)  BY <2>8 DEF ConnectFails, Close, Goto, Fail, roundVars
  <2>9. CASE Write(t)
    <3>1. Packet(t) \in Seq(Bytes)  BY PacketTyped
    <3>2. asked'[t] = asked[t] \o Packet(t)  BY <2>9 DEF Write
    <3>3. asked'[t] \in Seq(Bytes) /\ Len(asked'[t]) >= Len(asked[t])
      BY <3>1, <3>2
    <3>. QED  BY <2>9, <3>3 DEF Write, Goto, roundVars
  <2>10. CASE WriteFails(t)  BY <2>10 DEF WriteFails, Close, Goto, Fail, roundVars
  <2>11. CASE WriteKills(t)  BY <2>11 DEF WriteKills, roundVars, connVars
  <2>12. CASE ReadAnswer(t)
    <3>1. taken'[t] \in 0 .. arrived[t]  
      <4>1. PacketLength(t) \in Nat  BY PacketTyped
      <4>2. /\ taken'[t] = taken[t] + PacketLength(t)
            /\ PacketLength(t) <= arrived[t] - taken[t]
        BY <2>12, <4>1 DEF ReadAnswer, BytesReceived
      <4>3. taken[t] \in Nat /\ arrived[t] \in Nat  OBVIOUS
      <4>. QED  BY <4>1, <4>2, <4>3
    <3>. QED  BY <2>12, <3>1 DEF ReadAnswer, Goto, roundVars
  <2>13. CASE ReadShort(t)  BY <2>13 DEF ReadShort, Close, Goto, Fail, roundVars
  <2>14. CASE ReadEnd(t)  BY <2>14 DEF ReadEnd, Close, Goto, Fail, roundVars
  <2>. QED
    BY <1>1, <2>1, <2>2, <2>3, <2>4, <2>5, <2>6, <2>7, <2>8, <2>9, <2>10, <2>11,
       <2>12, <2>13, <2>14 DEF ThreadStep, client_thread
<1>2. CASE Report  BY <1>2 DEF Report, roundVars, connVars
<1>3. CASE UNCHANGED vars  BY <1>3 DEF vars, roundVars, connVars
<1>. QED  BY <1>1, <1>2, <1>3 DEF Next, ThreadStep

LEMMA NextPlace == ASSUME ClientsInv, [Next]_vars PROVE PlaceInv'
<1> USE ClientsAssumption DEF ClientsInv
<1>0. Types /\ program' = program /\ (Long' <=> Long)
  BY TypesOf, ProgramStays DEF Long
<1>1. ASSUME NEW t \in Threads, ThreadStep(t)  PROVE InPlace(t)'
  <2> USE DEF PlaceInv, InPlace, InRequest, Types
  <2>1. CASE Answer(t) \/ HangUp(t)
    BY <1>0, <2>1 DEF Answer, HangUp, roundVars, Unanswered, PacketLength
  <2>2. CASE Enter(t)  BY <1>0, <2>2 DEF Enter, At, Goto, roundVars, connVars
  <2>3. CASE Round(t)
    BY <1>0, <2>3 DEF Round, At, Goto, connVars
  <2>4. CASE EndRounds(t)
    BY <1>0, <2>4 DEF EndRounds, At, Goto, Close, GoesOn, roundVars, connVars
  <2>5. CASE Socket(t)  BY <1>0, <2>5 DEF Socket, At, Goto, Fail, roundVars
  <2>6. CASE Connect(t)
    <3>1. asked'[t] = <<>> /\ taken'[t] = 0 /\ Len(<<>>) = 0
      BY <1>0, <2>6 DEF Connect
    <3>. QED  BY <1>0, <2>6, <3>1 DEF Connect, At, Goto, roundVars
  <2>7. CASE ConnectFails(t)
    BY <1>0, <2>7 DEF ConnectFails, At, Goto, Fail, Close, roundVars
  <2>8. CASE Write(t)
    <3> DEFINE n == PacketLength(t)
    <3>1. /\ n \in Nat \ {0} /\ Packet(t) \in Seq(Bytes) /\ Len(Packet(t)) = n
          /\ \A k \in 1 .. n : Packet(t)[k] = <<i[t], k>>
      BY <1>0, PacketTyped
    <3>2. asked'[t] = asked[t] \o Packet(t) /\ taken[t] = Len(asked[t])
      BY <1>0, <2>8 DEF Write, At
    <3>3. asked[t] \in Seq(Bytes)  BY <1>0
    <3> DEFINE s == asked[t]
           p == Packet(t)
    <3> HIDE DEF n, s, p
    <3>4. /\ Len(asked'[t]) = Len(asked[t]) + n
          /\ \A k \in 1 .. n : asked'[t][Len(asked[t]) + k] = Packet(t)[k]
      <4>1. s \in Seq(Bytes) /\ p \in Seq(Bytes)  BY <3>1, <3>3 DEF s, p
      <4>2. /\ Len(s \o p) = Len(s) + Len(p)
            /\ \A k \in 1 .. Len(p) : (s \o p)[Len(s) + k] = p[k]
        BY <4>1, JoinedBytes
      <4>3. Len(p) = n /\ asked'[t] = s \o p  BY <3>1, <3>2 DEF s, p
      <4>4. Len(s \o p) = Len(s) + n /\ \A k \in 1 .. n : (s \o p)[Len(s) + k] = p[k]
        BY <4>2, <4>3
      <4>. QED  BY <4>3, <4>4 DEF s, p
    <3>5. UNCHANGED <<taken, sock, MESSAGE_SIZE, i>> /\ n' = n
      BY <2>8 DEF Write, roundVars, n, PacketLength
    <3>6. Unanswered(t)'
      <4>1. taken'[t] + n' = Len(asked'[t])  BY <3>2, <3>4, <3>5
      <4>2. \A k \in 1 .. n' : asked'[t][taken'[t] + k] = <<i'[t], k>>
        BY <3>1, <3>2, <3>4, <3>5
      <4>. QED  BY <4>1, <4>2 DEF Unanswered, n
    <3>7. pc'[t] = "read" /\ pc[t] = "write"
      BY <1>0, <2>8 DEF Write, At, Goto
    <3>. QED  BY <1>0, <3>5, <3>6, <3>7
  <2>9. CASE WriteFails(t) \/ ReadShort(t) \/ ReadEnd(t)
    <3>1. pc'[t] = IF Long THEN "done" ELSE "round"
      BY <1>0, <2>9 DEF WriteFails, ReadShort, ReadEnd, Goto, Fail
    <3>2. sock'[t] = "none"
      BY <1>0, <2>9 DEF WriteFails, ReadShort, ReadEnd, Close
    <3>. QED  BY <1>0, <3>1, <3>2
  <2>10. CASE WriteKills(t)
    BY <1>0, <2>10 DEF WriteKills, roundVars, connVars, Unanswered, PacketLength
  <2>11. CASE ReadAnswer(t)
    <3>1. taken'[t] = taken[t] + PacketLength(t) /\ UNCHANGED <<asked, i>>
          /\ pc'[t] = "round" /\ pc[t] = "read"
          /\ sock'[t] = IF Long THEN sock[t] ELSE "none"
      BY <1>0, <2>11 DEF ReadAnswer, BytesReceived, At, Goto, roundVars
    <3>. QED  BY <1>0, <3>1 DEF Unanswered
  <2>. QED
    BY <1>1, <2>1, <2>2, <2>3, <2>4, <2>5, <2>6, <2>7, <2>8, <2>9, <2>10, <2>11
       DEF ThreadStep, client_thread
<1>2. ASSUME NEW t \in Threads, ThreadStep(t), NEW u \in Threads \ {t}
      PROVE  InPlace(u)'
  <2>1. InPlace(u)  BY DEF PlaceInv
  <2>. QED
    BY <1>0, <1>2, <2>1, OthersUnchanged DEF InPlace, InRequest, Unanswered, PacketLength
<1>3. CASE \E t \in Threads : ThreadStep(t)
  BY <1>1, <1>2, <1>3 DEF PlaceInv
<1>4. CASE Report \/ UNCHANGED vars
  BY <1>0, <1>4
     DEF Report, vars, roundVars, connVars, PlaceInv, InPlace, InRequest, Unanswered,
         PacketLength
<1>. QED  BY <1>3, <1>4 DEF Next, ThreadStep

(* Only reading an answer counts one.                                      *)
LEMMA NextCounts == ASSUME ClientsInv, [Next]_vars PROVE CountsOwnAnswers'
<1> USE DEF ClientsInv, CountsOwnAnswers
<1>1. ASSUME NEW t \in Threads, ReadAnswer(t)  PROVE CountsOwnAnswers'
  <2>1. counted' = counted \cup
          {<<Packet(t), SubSeq(asked[t], taken[t] + 1, taken[t] + PacketLength(t))>>}
    BY <1>1 DEF ReadAnswer
  <2>2. Unanswered(t)
    BY <1>1 DEF ReadAnswer, BytesReceived, At, PlaceInv, InPlace
  <2>3. counted' = counted \cup {<<Packet(t), Packet(t)>>}
    BY <2>1, <2>2, AnswerIsPacket, TypesOf
  <2>. QED  BY <2>3
<1>2. CASE counted' = counted  BY <1>2
<1>. QED
  BY <1>1, <1>2 DEF Next, vars, client_thread, Answer, HangUp, Enter, Round, EndRounds,
     Socket, Connect, ConnectFails, Write, WriteFails, WriteKills, ReadShort, ReadEnd,
     Report

-----------------------------------------------------------------------------
(* Counting.                                                               *)

LEMMA DivideUnique ==
  ASSUME NEW R \in Nat \ {0}, NEW q \in Nat, NEW p \in Nat,
         NEW k \in 0 .. R - 1, NEW l \in 0 .. R - 1, R * q + k = R * p + l
  PROVE  q = p /\ k = l
<1>1. ASSUME NEW a \in Nat, NEW b \in Nat, a < b,
             NEW x \in 0 .. R - 1, NEW y \in 0 .. R - 1
      PROVE  R * a + x < R * b + y
  <2>1. b = a + 1 + (b - a - 1) /\ b - a - 1 \in Nat  BY <1>1
  <2>2. R * b = R * a + R + R * (b - a - 1)  BY <2>1
  <2>3. R * (b - a - 1) >= 0  BY <2>1
  <2>4. R * a \in Nat /\ R * b \in Nat  OBVIOUS
  <2>. QED  BY <2>2, <2>3, <2>4
<1>2. ~(q < p) /\ ~(p < q)  BY <1>1
<1>3. q = p  BY <1>2
<1>. QED  BY <1>3

LEMMA DivideExists ==
  ASSUME NEW R \in Nat \ {0}, NEW N \in Nat, NEW x \in 1 .. R * N
  PROVE  \E q \in 1 .. N, k \in 1 .. R : x = R * (q - 1) + k
<1>1. PICK y \in Nat : y = x - 1 /\ y < R * N  OBVIOUS
<1>2. y \div R \in Int /\ R * (y \div R) <= y /\ y < R * (y \div R) + R
  <2>1. R > 0  OBVIOUS
  <2>2. y \div R \in Int  BY <2>1
  <2>3. R * (y \div R) <= y  BY <2>1
  <2>4. y < R * (y \div R) + R  BY <2>1
  <2>. QED  BY <2>2, <2>3, <2>4
<1>3. PICK p \in Nat, l \in 0 .. R - 1 : y = R * p + l
  <2>1. PICK p \in Int : R * p <= y /\ y < R * p + R  BY <1>2
  <2>2. R * p \in Int /\ y - R * p \in 0 .. R - 1  BY <2>1
  <2>3. p >= 0
    <3> SUFFICES ASSUME p + 1 <= 0  PROVE FALSE
      BY <2>1
    <3>1. R * (p + 1) <= 0 /\ R * (p + 1) = R * p + R  BY <2>1
    <3>. QED  BY <2>1, <2>2, <3>1
  <2>. QED  BY <2>1, <2>2, <2>3
<1>4. p < N
  <2> SUFFICES ASSUME N <= p  PROVE FALSE
    OBVIOUS
  <2>1. p = N + (p - N) /\ p - N \in Nat  OBVIOUS
  <2>2. R * p = R * N + R * (p - N)  BY <2>1
  <2>3. R * (p - N) >= 0  BY <2>1
  <2>4. R * p \in Nat /\ R * N \in Nat  OBVIOUS
  <2>. QED  BY <1>1, <1>3, <2>2, <2>3, <2>4
<1>5. p + 1 \in 1 .. N /\ l + 1 \in 1 .. R /\ x = R * ((p + 1) - 1) + (l + 1)
  BY <1>1, <1>3, <1>4
<1>. QED  BY <1>5

(* Elements of a product with 1 .. R are numbered row by row.              *)
LEMMA ProductCardinality ==
  ASSUME NEW S, IsFiniteSet(S), NEW R \in Nat \ {0}
  PROVE  /\ IsFiniteSet(S \X (1 .. R))
         /\ Cardinality(S \X (1 .. R)) = R * Cardinality(S)
<1> DEFINE N == Cardinality(S)
           T == S \X (1 .. R)
           U == 1 .. R * N
<1>1. N \in Nat  BY FS_CardinalityType
<1>2. IsFiniteSet(1 .. N) /\ Cardinality(1 .. N) = N
  BY <1>1, FS_Interval
<1>3. PICK f \in Bijection(S, 1 .. N) : TRUE
  BY <1>2, FS_SameCardinalityBij DEF ExistsBijection
<1>4. /\ f \in [S -> 1 .. N]
      /\ \A s, r \in S : f[s] = f[r] => s = r
      /\ \A a \in 1 .. N : \E s \in S : f[s] = a
  BY <1>3 DEF Bijection, Injection, Surjection, IsInjective
<1> HIDE DEF N
<1>5. R * N \in Nat  BY <1>1
<1>6. IsFiniteSet(U) /\ Cardinality(U) = R * N
  BY <1>5, FS_Interval
<1> DEFINE Number(a, k) == R * (a - 1) + k
           g == [e \in T |-> Number(f[e[1]], e[2])]
<1>7. \A a \in 1 .. N, k \in 1 .. R : Number(a, k) \in U
  <2> SUFFICES ASSUME NEW a \in 1 .. N, NEW k \in 1 .. R  PROVE Number(a, k) \in U
    OBVIOUS
  <2>1. /\ R * N = R * (a - 1) + R + R * (N - a)
        /\ R * (N - a) >= 0 /\ R * (a - 1) >= 0
        /\ R * (N - a) \in Int /\ R * (a - 1) \in Int
    BY <1>1
  <2>. QED  BY <1>1, <1>5, <2>1
<1>8. ASSUME NEW a \in 1 .. N, NEW b \in 1 .. N, NEW k \in 1 .. R, NEW l \in 1 .. R,
             Number(a, k) = Number(b, l)
      PROVE  a = b /\ k = l
  <2>1. PICK q \in Nat, p \in Nat : q = a - 1 /\ p = b - 1  BY <1>1
  <2>2. PICK v \in 0 .. R - 1, w \in 0 .. R - 1 : v = k - 1 /\ w = l - 1  OBVIOUS
  <2>3. R * q \in Nat /\ R * p \in Nat  OBVIOUS
  <2>4. R * q + v = R * p + w  BY <1>8, <2>1, <2>2, <2>3
  <2>5. q = p /\ v = w  BY <2>4, DivideUnique
  <2>. QED  BY <1>1, <2>1, <2>2, <2>5
<1>9. ASSUME NEW x \in U
      PROVE  \E a \in 1 .. N, k \in 1 .. R : Number(a, k) = x
  <2>1. PICK a \in 1 .. N, k \in 1 .. R : x = R * (a - 1) + k
    <3> HIDE DEF Number, g, T
    <3>. QED  BY <1>1, DivideExists
  <2>. QED  BY <2>1
<1> HIDE DEF Number
<1>10. g \in [T -> U]  BY <1>4, <1>7
<1>11. \A d, e \in T : g[d] = g[e] => d = e
  <2> SUFFICES ASSUME NEW d \in T, NEW e \in T, g[d] = g[e]  PROVE d = e
    OBVIOUS
  <2>1. /\ d[1] \in S /\ d[2] \in 1 .. R /\ d = <<d[1], d[2]>>
        /\ e[1] \in S /\ e[2] \in 1 .. R /\ e = <<e[1], e[2]>>
    OBVIOUS
  <2>2. Number(f[d[1]], d[2]) = Number(f[e[1]], e[2])  OBVIOUS
  <2>3. f[d[1]] = f[e[1]] /\ d[2] = e[2]  BY <1>4, <1>8, <2>1, <2>2
  <2>. QED  BY <1>4, <2>1, <2>3
<1>12. \A x \in U : \E e \in T : g[e] = x
  <2> SUFFICES ASSUME NEW x \in U  PROVE \E e \in T : g[e] = x
    OBVIOUS
  <2>1. PICK a \in 1 .. N, k \in 1 .. R : Number(a, k) = x  BY <1>9
  <2>2. PICK s \in S : f[s] = a  BY <1>4
  <2>3. <<s, k>> \in T /\ g[<<s, k>>] = x  BY <2>1, <2>2
  <2>. QED  BY <2>3
<1>13. g \in Injection(T, U) /\ g \in Surjection(T, U)
  BY <1>10, <1>11, <1>12 DEF Injection, Surjection, IsInjective
<1>14. IsFiniteSet(T) /\ Cardinality(T) = Cardinality(U)
  BY <1>6, <1>13, FS_Injection
<1>. QED  BY <1>6, <1>14 DEF N

(* The requests of some threads.                                           *)
LEMMA RequestsOf ==
  ASSUME NEW S, IsFiniteSet(S)
  PROVE  /\ IsFiniteSet(S \X (1 .. REQUESTS_PER_THREAD))
         /\ Cardinality(S \X (1 .. REQUESTS_PER_THREAD)) = REQUESTS_PER_THREAD * Cardinality(S)
<1>1. CASE REQUESTS_PER_THREAD = 0
  <2>1. S \X (1 .. REQUESTS_PER_THREAD) = {}  BY <1>1
  <2>2. Cardinality(S) \in Nat  BY FS_CardinalityType
  <2>3. REQUESTS_PER_THREAD * Cardinality(S) = 0  BY <1>1, <2>2
  <2>. QED  BY <2>1, <2>3, FS_EmptySet
<1>2. CASE REQUESTS_PER_THREAD # 0
  BY <1>2, ClientsAssumption, ProductCardinality
<1>. QED  BY <1>1, <1>2

LEMMA CountedSets ==
  ASSUME Types, PlaceInv
  PROVE  /\ Begun \subseteq Counted /\ Counted \subseteq Requests
         /\ IsFiniteSet(Begun) /\ IsFiniteSet(Counted) /\ IsFiniteSet(Requests)
         /\ Cardinality(Requests) = REQUESTS_PER_THREAD * Cardinality(Threads)
         /\ Cardinality(Begun) <= Cardinality(Counted)
         /\ Cardinality(Counted) <= Cardinality(Requests)
         /\ Cardinality(Begun) \in Nat /\ Cardinality(Counted) \in Nat
<1>1. IsFiniteSet(Requests)
      /\ Cardinality(Requests) = REQUESTS_PER_THREAD * Cardinality(Threads)
  BY ClientsAssumption, RequestsOf DEF Requests
<1>2. Counted \subseteq Requests /\ Begun \subseteq Requests  BY DEF Counted, Begun
<1>3. Begun \subseteq Counted
  <2> SUFFICES ASSUME NEW r \in Requests, r[2] <= i[r[1]], Long  PROVE pc[r[1]] # "enter"
    BY DEF Begun, Counted
  <2>1. r[1] \in Threads /\ r[2] \in 1 .. REQUESTS_PER_THREAD  BY DEF Requests
  <2>2. i[r[1]] # 0  BY <2>1, ClientsAssumption
  <2>. QED  BY <2>1, <2>2 DEF PlaceInv, InPlace
<1>4. IsFiniteSet(Counted) /\ Cardinality(Counted) <= Cardinality(Requests)
  BY <1>1, <1>2, FS_Subset
<1>5. IsFiniteSet(Begun) /\ Cardinality(Begun) <= Cardinality(Counted)
  BY <1>3, <1>4, FS_Subset
<1>. QED  BY <1>1, <1>2, <1>3, <1>4, <1>5, FS_CardinalityType

(* What the counters say of each other.                                    *)
LEMMA CountBounds ==
  ASSUME Types, PlaceInv, CountInv
  PROVE  /\ total_requests \in 0 .. REQUESTS_PER_THREAD * Cardinality(Threads)
         /\ successful_requests \in 0 .. REQUESTS_PER_THREAD * Cardinality(Threads)
         /\ successful_requests <= total_requests
<1>1. PICK S \in SUBSET Begun : successful_requests = Cardinality(S)
  BY DEF CountInv
<1>2. Cardinality(S) <= Cardinality(Begun) /\ IsFiniteSet(S)
  BY CountedSets, FS_Subset
<1>3. Cardinality(S) \in Nat /\ Cardinality(Threads) \in Nat
  BY <1>2, ClientsAssumption, FS_CardinalityType
<1>4. total_requests = Cardinality(Counted)  BY DEF CountInv
<1>5. Cardinality(Requests) \in Nat  BY CountedSets, FS_CardinalityType
<1> DEFINE b == Cardinality(Begun)
           d == Cardinality(Counted)
           r == Cardinality(Requests)
<1>6. b \in Nat /\ d \in Nat /\ b <= d /\ d <= r  BY CountedSets
<1>7. r = REQUESTS_PER_THREAD * Cardinality(Threads)  BY CountedSets
<1> HIDE DEF b, d, r
<1>8. total_requests \in 0 .. r /\ successful_requests \in 0 .. r
      /\ successful_requests <= total_requests
  BY <1>1, <1>2, <1>3, <1>4, <1>5, <1>6 DEF b, d, r
<1>. QED  BY <1>7, <1>8

-----------------------------------------------------------------------------
(* CountInv: the steps that count, and the others.                         *)

LEMMA EnterCounts ==
  ASSUME ClientsInv, NEW t \in Threads, Enter(t), Types'
  PROVE  CountInv'
<1> USE DEF ClientsInv
<1>0. Types  BY TypesOf
<1>1. /\ UNCHANGED <<program, i, successful_requests, main>> /\ (Long' <=> Long)
      /\ pc[t] = "enter" /\ pc'[t] = (IF Long THEN "socket" ELSE "round")
      /\ \A u \in Threads \ {t} : pc'[u] = pc[u]
      /\ total_requests' = total_requests + IF Long THEN REQUESTS_PER_THREAD ELSE 0
      /\ Running
  BY <1>0 DEF Enter, Types, At, Goto, roundVars, Long
<1>2. Begun' = Begun  BY <1>1 DEF Begun, Requests
<1>3. \A u \in Threads : InRequest(u)' => InRequest(u)
  BY <1>1 DEF InRequest
<1>4. total_requests' = Cardinality(Counted')
  <2>1. CASE ~Long
    <3>1. Counted' = Counted  BY <1>1, <2>1 DEF Counted, Requests
    <3>2. total_requests \in Int  BY <1>0, CountedSets DEF CountInv
    <3>. QED  BY <1>1, <2>1, <3>1, <3>2 DEF CountInv
  <2>2. CASE Long
    <3> DEFINE row == {t} \X (1 .. REQUESTS_PER_THREAD)
    <3>1. Counted' = Counted \cup row /\ Counted \cap row = {}
      BY <1>1, <2>2 DEF Counted, Requests
    <3>2. IsFiniteSet(row) /\ Cardinality(row) = REQUESTS_PER_THREAD
      <4>1. IsFiniteSet({t}) /\ Cardinality({t}) = 1  BY FS_Singleton
      <4>2. IsFiniteSet(row) /\ Cardinality(row) = REQUESTS_PER_THREAD * 1
        BY <4>1, RequestsOf
      <4>. QED  BY <4>2, ClientsAssumption
    <3>3. IsFiniteSet(Counted) /\ Cardinality(Counted) \in Nat
      BY <1>0, CountedSets
    <3> HIDE DEF row
    <3>4. Cardinality(Counted') = Cardinality(Counted) + REQUESTS_PER_THREAD - 0
      BY <3>1, <3>2, <3>3, FS_Union, FS_EmptySet
    <3>. QED  BY <1>1, <2>2, <3>3, <3>4, ClientsAssumption DEF CountInv
  <2>. QED  BY <2>1, <2>2
<1>. QED  BY <1>1, <1>2, <1>3, <1>4 DEF CountInv, Running, TotalPrinted

LEMMA RoundCounts ==
  ASSUME ClientsInv, NEW t \in Threads, Round(t), Types'
  PROVE  CountInv'
<1> USE DEF ClientsInv
<1> DEFINE r == <<t, i[t] + 1>>
<1>0. Types  BY TypesOf
<1>1. /\ UNCHANGED <<program, successful_requests, main>> /\ (Long' <=> Long)
      /\ pc[t] = "round" /\ pc'[t] # "enter" /\ Running
      /\ \A u \in Threads \ {t} : pc'[u] = pc[u] /\ i'[u] = i[u]
      /\ i'[t] = i[t] + 1 /\ i[t] < REQUESTS_PER_THREAD
      /\ total_requests' = total_requests + IF Long THEN 0 ELSE 1
  BY <1>0 DEF Round, GoesOn, Types, At, Goto, Long
<1>2. \A u \in Threads : i[u] \in Nat  BY <1>0, ClientsAssumption DEF Types
<1>3. r \in Requests /\ r \notin Begun
  BY <1>1, <1>2, ClientsAssumption DEF Requests, Begun
<1>4. Begun' = Begun \cup {r}
  <2>1. \A q \in Requests : q \in Begun' <=> q \in Begun \/ q = r
    <3> SUFFICES ASSUME NEW u \in Threads, NEW k \in 1 .. REQUESTS_PER_THREAD
                 PROVE  k <= i'[u] <=> k <= i[u] \/ <<u, k>> = r
      BY DEF Begun, Requests
    <3>. QED  BY <1>1, <1>2, ClientsAssumption
  <2>. QED  BY <1>3, <2>1 DEF Begun, Requests
<1>5. total_requests' = Cardinality(Counted')
  <2>1. CASE Long
    <3>1. Counted' = Counted  BY <1>1, <2>1 DEF Counted, Requests
    <3>2. total_requests \in Int  BY <1>0, CountedSets DEF CountInv
    <3>. QED  BY <1>1, <2>1, <3>1, <3>2 DEF CountInv
  <2>2. CASE ~Long
    <3>1. Counted = Begun /\ Counted' = Begun'
      BY <1>1, <2>2 DEF Counted, Begun, Requests
    <3>2. IsFiniteSet(Begun)  BY <1>0, CountedSets
    <3>3. Cardinality(Counted') = Cardinality(Counted) + 1
      BY <1>3, <1>4, <3>1, <3>2, FS_AddElement
    <3>. QED  BY <1>1, <2>2, <3>3 DEF CountInv
  <2>. QED  BY <2>1, <2>2
<1>6. PICK S \in SUBSET Begun :
        /\ successful_requests = Cardinality(S)
        /\ \A u \in Threads : InRequest(u) => <<u, i[u]>> \notin S
  BY DEF CountInv
<1>7. ASSUME NEW u \in Threads, InRequest(u)'  PROVE <<u, i'[u]>> \notin S
  BY <1>1, <1>3, <1>6, <1>7 DEF InRequest
<1>. QED  BY <1>1, <1>4, <1>5, <1>6, <1>7 DEF CountInv, Running, TotalPrinted

LEMMA AnswerCounts ==
  ASSUME ClientsInv, NEW t \in Threads, ReadAnswer(t), Types'
  PROVE  CountInv'
<1> USE DEF ClientsInv
<1> DEFINE r == <<t, i[t]>>
<1>0. Types  BY TypesOf
<1>1. /\ UNCHANGED <<program, total_requests, main, i>> /\ (Long' <=> Long)
      /\ pc[t] = "read" /\ pc'[t] = "round" /\ Running
      /\ \A u \in Threads \ {t} : pc'[u] = pc[u]
      /\ successful_requests' = successful_requests + 1
  BY <1>0 DEF ReadAnswer, BytesReceived, Types, At, Goto, Long, roundVars
<1>2. Begun' = Begun /\ Counted' = Counted
  BY <1>1 DEF Begun, Counted, Requests
<1>3. r \in Begun /\ InRequest(t)
  <2>1. InRequest(t) /\ i[t] # 0
    BY <1>1 DEF InRequest, PlaceInv, InPlace
  <2>2. i[t] \in 1 .. REQUESTS_PER_THREAD
    BY <1>0, <2>1, ClientsAssumption DEF Types
  <2>. QED  BY <2>1, <2>2, ClientsAssumption DEF Begun, Requests
<1>4. PICK S \in SUBSET Begun :
        /\ successful_requests = Cardinality(S)
        /\ \A u \in Threads : InRequest(u) => <<u, i[u]>> \notin S
  BY DEF CountInv
<1>5. IsFiniteSet(S)  BY <1>0, CountedSets, FS_Subset
<1>6. successful_requests' = Cardinality(S \cup {r})
  BY <1>1, <1>3, <1>4, <1>5, FS_AddElement
<1>7. ASSUME NEW u \in Threads, InRequest(u)'  PROVE <<u, i'[u]>> \notin S \cup {r}
  BY <1>1, <1>4, <1>7 DEF InRequest
<1>8. S \cup {r} \in SUBSET Begun'  BY <1>2, <1>3
<1>. QED  BY <1>1, <1>2, <1>6, <1>7, <1>8 DEF CountInv, Running, TotalPrinted

LEMMA NextCountInv == ASSUME ClientsInv, [Next]_vars PROVE CountInv'
<1> USE DEF ClientsInv
<1>0. Types /\ Types' /\ program' = program /\ (Long' <=> Long)
  BY TypesOf, NextTypes, ProgramStays DEF Long
<1>1. ASSUME UNCHANGED <<i, counters>>,
             \A u \in Threads : /\ pc'[u] = "enter" <=> pc[u] = "enter"
                                /\ InRequest(u)' => InRequest(u),
             TotalPrinted' => \A u \in Threads : pc'[u] = "done"
      PROVE  CountInv'
  <2>1. Begun' = Begun /\ Counted' = Counted
    BY <1>0, <1>1 DEF Begun, Counted, Requests
  <2>. QED  BY <1>1, <2>1 DEF CountInv, counters
<1>2. ASSUME NEW t \in Threads, ThreadStep(t), ~Enter(t), ~Round(t), ~ReadAnswer(t)
      PROVE  CountInv'
  <2>1. UNCHANGED <<i, counters>>
    BY <1>2 DEF ThreadStep, client_thread, Answer, HangUp, EndRounds, Socket, Connect,
                ConnectFails, Write, WriteFails, WriteKills, ReadShort, ReadEnd,
                roundVars, counters
  <2>2. /\ pc'[t] = "enter" <=> pc[t] = "enter"
        /\ InRequest(t)' => InRequest(t)
    BY <1>0, <1>2
       DEF ThreadStep, client_thread, Answer, HangUp, EndRounds, Socket, Connect,
           ConnectFails, Write, WriteFails, WriteKills, ReadShort, ReadEnd, BytesReceived,
           At, Goto, Fail, Types, InRequest
  <2>3. \A u \in Threads \ {t} : pc'[u] = pc[u]
    BY <1>0, <1>2, OthersUnchanged
  <2>4. TotalPrinted' => TotalPrinted /\ pc' = pc
    BY <1>2
       DEF ThreadStep, client_thread, Answer, HangUp, EndRounds, Socket, Connect,
           ConnectFails, Write, WriteFails, WriteKills, ReadShort, ReadEnd, BytesReceived,
           At, Running, TotalPrinted
  <2>5. \A u \in Threads : /\ pc'[u] = "enter" <=> pc[u] = "enter"
                           /\ InRequest(u)' => InRequest(u)
    BY <1>0, <2>2, <2>3 DEF InRequest
  <2>6. TotalPrinted' => \A u \in Threads : pc'[u] = "done"
    BY <2>4 DEF CountInv
  <2>. QED  BY <1>1, <2>1, <2>5, <2>6
<1>3. CASE Report
  BY <1>0, <1>1, <1>3 DEF Report, roundVars, InRequest, counters, TotalPrinted
<1>4. CASE UNCHANGED vars
  BY <1>0, <1>1, <1>4 DEF vars, roundVars, InRequest, counters, CountInv, TotalPrinted
<1>. QED
  BY <1>0, <1>2, <1>3, <1>4, EnterCounts, RoundCounts, AnswerCounts DEF Next, ThreadStep

-----------------------------------------------------------------------------
(* The theorems.                                                           *)

LEMMA InitClients == Init => ClientsInv
<1> SUFFICES ASSUME Init  PROVE ClientsInv
  OBVIOUS
<1> USE ClientsAssumption DEF Init
<1>1. <<>> \in Seq(Bytes) /\ Len(<<>>) = 0  OBVIOUS
<1>2. Types  BY <1>1 DEF Types
<1>3. PlaceInv  BY <1>1 DEF PlaceInv, InPlace, InRequest
<1>4. CountsOwnAnswers  BY DEF CountsOwnAnswers
<1>5. Counted = {}  BY DEF Counted, Requests
<1>6. CountInv
  <2>1. {} \in SUBSET Begun /\ Cardinality({}) = 0  BY FS_EmptySet
  <2>2. \A t \in Threads : InRequest(t) => <<t, i[t]>> \notin {}  OBVIOUS
  <2>3. ~TotalPrinted  BY DEF TotalPrinted
  <2>. QED  BY <1>5, <2>1, <2>2, <2>3 DEF CountInv
<1>. QED  BY <1>2, <1>3, <1>4, <1>6, CountBounds, TypesOf DEF ClientsInv

Parts == Types /\ PlaceInv /\ CountInv /\ CountsOwnAnswers

LEMMA Invariance == Spec => []ClientsInv
<1>1. Parts => ClientsInv
  BY CountBounds, TypesOf DEF Parts, ClientsInv
<1>2. ClientsInv /\ [Next]_vars => Parts'
  BY NextTypes, NextPlace, NextCountInv, NextCounts DEF Parts
<1>. QED  BY InitClients, <1>1, <1>2, PTL DEF Spec

(* No counter, place, socket or stream of a load generator leaves its type *)
(* (client.cpp:54-127, client_longconn.cpp:54-126).                        *)
THEOREM ClientsTypeCorrect == Spec => []TypeOK
<1>1. ClientsInv => TypeOK  BY DEF ClientsInv
<1>. QED  BY <1>1, Invariance, PTL

(***************************************************************************)
(* What is counted as a success is the answer to that very request, for    *)
(* any number of threads, requests and sizes (client.cpp:109-118,          *)
(* client_longconn.cpp:111-120).                                           *)
(***************************************************************************)
THEOREM OwnAnswersCounted == Spec => []CountsOwnAnswers
<1>1. ClientsInv => CountsOwnAnswers  BY DEF ClientsInv
<1>. QED  BY <1>1, Invariance, PTL

(* Every failure path closes the socket (client.cpp:77-127,                *)
(* client_longconn.cpp:71-126).                                            *)
THEOREM SocketsAreClosed == Spec => []SocketsClosed
<1>1. ClientsInv => SocketsClosed
  BY DEF ClientsInv, PlaceInv, InPlace, SocketsClosed
<1>. QED  BY <1>1, Invariance, PTL

(***************************************************************************)
(* The totals printed at the end are right, whatever failed on the way     *)
(* (client.cpp:75, client_longconn.cpp:66).                                *)
(***************************************************************************)
THEOREM TotalsComplete == Spec => []TotalIsComplete
<1>1. ClientsInv => TotalIsComplete
  <2> SUFFICES ASSUME ClientsInv  PROVE TotalIsComplete
    OBVIOUS
  <2>1. Types /\ PlaceInv /\ CountInv  BY TypesOf DEF ClientsInv
  <2>2. ASSUME TotalPrinted
        PROVE  total_requests = REQUESTS_PER_THREAD * Cardinality(Threads)
    <3>1. \A t \in Threads : pc[t] = "done"  BY <2>1, <2>2 DEF CountInv
    <3>2. \A t \in Threads : ~Long => i[t] = REQUESTS_PER_THREAD
      BY <2>1, <3>1 DEF PlaceInv, InPlace
    <3>3. Requests \subseteq Counted
      <4> SUFFICES ASSUME NEW t \in Threads, NEW k \in 1 .. REQUESTS_PER_THREAD
                   PROVE  IF Long THEN pc[t] # "enter" ELSE k <= i[t]
        BY DEF Requests, Counted
      <4>. QED  BY <3>1, <3>2, ClientsAssumption
    <3>4. Counted = Requests  BY <2>1, <3>3, CountedSets
    <3>. QED  BY <2>1, <3>4, CountedSets DEF CountInv
  <2>. QED  BY <2>1, <2>2, CountBounds DEF TotalIsComplete
<1>. QED  BY <1>1, Invariance, PTL

-----------------------------------------------------------------------------
(* The end of the test.                                                    *)

(***************************************************************************)
(* No thread waits for what will never come, for any number of threads,    *)
(* requests and sizes: in read there is something to read, or the server   *)
(* owes an answer, or it has hung up (client.cpp:105-118,                  *)
(* client_longconn.cpp:108-120).                                           *)
(***************************************************************************)
THEOREM NobodyWaitsInVain == Spec => []NobodyStuck
<1>1. ClientsInv => NobodyStuck
  <2> SUFFICES ASSUME ClientsInv, NEW t \in Threads, At(t, "read")
               PROVE  \/ \E n \in 1 .. PacketLength(t) : BytesReceived(t, n)
                      \/ arrived[t] < Len(asked[t]) /\ sock[t] = "open"
                      \/ taken[t] = arrived[t] /\ sock[t] = "hungup"
    BY DEF NobodyStuck
  <2>1. /\ taken[t] + PacketLength(t) = Len(asked[t]) /\ sock[t] \in {"open", "hungup"}
        /\ PacketLength(t) \in Nat \ {0} /\ taken[t] \in Nat /\ arrived[t] \in Nat
        /\ taken[t] <= arrived[t] /\ arrived[t] <= Len(asked[t])
    BY PacketTyped, TypesOf DEF ClientsInv, PlaceInv, InPlace, Unanswered, At, Types
  <2>2. CASE taken[t] = arrived[t]  BY <2>1, <2>2
  <2>3. CASE taken[t] < arrived[t]
    <3> DEFINE n == arrived[t] - taken[t]
    <3>1. n \in 1 .. PacketLength(t)  BY <2>1, <2>3
    <3>2. BytesReceived(t, n)  BY <2>1, <3>1 DEF BytesReceived
    <3>. QED  BY <3>1, <3>2
  <2>. QED  BY <2>1, <2>2, <2>3
<1>. QED  BY <1>1, Invariance, PTL

(* The four numbers of Rank, compared from the left.                       *)
LEMMA BelowCases ==
  ASSUME NEW a1 \in Nat, NEW a2 \in Nat, NEW a3 \in Nat, NEW a4 \in Nat,
         NEW b1 \in Nat, NEW b2 \in Nat, NEW b3 \in Nat, NEW b4 \in Nat,
         \/ a1 < b1
         \/ a1 = b1 /\ a2 < b2
         \/ a1 = b1 /\ a2 = b2 /\ a3 < b3
         \/ a1 = b1 /\ a2 = b2 /\ a3 = b3 /\ a4 < b4
  PROVE  Below(<<a1, a2, a3, a4>>, <<b1, b2, b3, b4>>)
<1> DEFINE r == <<a1, a2, a3, a4>>
           s == <<b1, b2, b3, b4>>
<1>0. /\ r[1] = a1 /\ r[2] = a2 /\ r[3] = a3 /\ r[4] = a4
      /\ s[1] = b1 /\ s[2] = b2 /\ s[3] = b3 /\ s[4] = b4
  OBVIOUS
<1> HIDE DEF r, s
<1>1. CASE a1 < b1
  <2>1. \A j \in 1 .. 1 - 1 : r[j] = s[j]  OBVIOUS
  <2>. QED  BY <1>0, <1>1, <2>1 DEF Below
<1>2. CASE a1 = b1 /\ a2 < b2
  <2>1. \A j \in 1 .. 2 - 1 : r[j] = s[j]
    <3>1. \A j \in 1 .. 2 - 1 : j = 1  OBVIOUS
    <3>. QED  BY <1>0, <1>2, <3>1
  <2>. QED  BY <1>0, <1>2, <2>1 DEF Below
<1>3. CASE a1 = b1 /\ a2 = b2 /\ a3 < b3
  <2>1. \A j \in 1 .. 3 - 1 : r[j] = s[j]
    <3>1. \A j \in 1 .. 3 - 1 : j = 1 \/ j = 2  OBVIOUS
    <3>. QED  BY <1>0, <1>3, <3>1
  <2>. QED  BY <1>0, <1>3, <2>1 DEF Below
<1>4. CASE a1 = b1 /\ a2 = b2 /\ a3 = b3 /\ a4 < b4
  <2>1. \A j \in 1 .. 4 - 1 : r[j] = s[j]
    <3>1. \A j \in 1 .. 4 - 1 : j = 1 \/ j = 2 \/ j = 3  OBVIOUS
    <3>. QED  BY <1>0, <1>4, <3>1
  <2>. QED  BY <1>0, <1>4, <2>1 DEF Below
<1>. QED  BY <1>1, <1>2, <1>3, <1>4 DEF r, s

ToCome(t) == REQUESTS_PER_THREAD - i[t]
OnTheWay(t) == Len(asked[t]) - arrived[t]

LEMMA RankTyped ==
  ASSUME Types, NEW t \in Threads
  PROVE  /\ ToCome(t) \in Nat /\ StepsLeft[pc[t]] \in Nat /\ OnTheWay(t) \in Nat
         /\ Rank(t) = <<ToCome(t), StepsLeft[pc[t]], OnTheWay(t),
                        IF sock[t] = "open" THEN 1 ELSE 0>>
<1>1. i[t] \in 0 .. REQUESTS_PER_THREAD  BY DEF Types
<1>2. pc[t] \in {"enter", "round", "socket", "connect", "write", "read", "done"}  BY DEF Types
<1>3. arrived[t] \in 0 .. Len(asked[t]) /\ asked[t] \in Seq(Bytes)  BY DEF Types
<1>4. ToCome(t) \in Nat  BY <1>1, ClientsAssumption DEF ToCome
<1>5. StepsLeft[pc[t]] \in Nat  BY <1>2 DEF StepsLeft
<1>6. OnTheWay(t) \in Nat  BY <1>3 DEF OnTheWay
<1>. QED  BY <1>4, <1>5, <1>6 DEF Rank, ToCome, OnTheWay

(* A request begins, or a step is taken in it, or an answer comes nearer.  *)
LEMMA StepBelow ==
  ASSUME Types, Types', PlaceInv, NEW t \in Threads, ThreadStep(t), ~(Running /\ ~Running')
  PROVE  \/ ToCome(t)' < ToCome(t)
         \/ ToCome(t)' = ToCome(t) /\ StepsLeft[pc[t]]' < StepsLeft[pc[t]]
         \/ ToCome(t)' = ToCome(t) /\ pc'[t] = pc[t] /\ OnTheWay(t)' < OnTheWay(t)
         \/ /\ ToCome(t)' = ToCome(t) /\ pc'[t] = pc[t] /\ OnTheWay(t)' = OnTheWay(t)
            /\ sock[t] = "open" /\ sock'[t] = "hungup"
<1>0. /\ i[t] \in 0 .. REQUESTS_PER_THREAD /\ i'[t] \in 0 .. REQUESTS_PER_THREAD
      /\ arrived[t] \in 0 .. Len(asked[t]) /\ asked[t] \in Seq(Bytes)
  BY DEF Types
<1>1. CASE Answer(t)
  <2>1. PICK n \in arrived[t] + 1 .. Len(asked[t]) : arrived' = [arrived EXCEPT ![t] = n]
    BY <1>1 DEF Answer
  <2>2. arrived'[t] = n  BY <2>1 DEF Types
  <2>3. OnTheWay(t)' < OnTheWay(t)
    BY <1>0, <1>1, <2>1, <2>2 DEF Answer, OnTheWay
  <2>. QED  BY <1>1, <2>3 DEF Answer, roundVars, ToCome
<1>2. CASE HangUp(t)
  BY <1>2 DEF HangUp, roundVars, ToCome, OnTheWay, Types
<1>3. CASE Round(t)
  <2>1. i'[t] = i[t] + 1  BY <1>3 DEF Round, Types
  <2>. QED  BY <1>0, <2>1, ClientsAssumption DEF ToCome
<1>4. CASE WriteKills(t)  BY <1>4 DEF WriteKills, At, Running
<1>5. CASE ~(Answer(t) \/ HangUp(t) \/ Round(t) \/ WriteKills(t))
  <2>1. ToCome(t)' = ToCome(t)
    BY <1>5 DEF ThreadStep, client_thread, Enter, EndRounds, Socket, Connect, ConnectFails,
        Write, WriteFails, ReadAnswer, ReadShort, ReadEnd, ToCome, roundVars
  <2>2. CASE Enter(t)  BY <2>1, <2>2 DEF Enter, At, Goto, StepsLeft, Types
  <2>3. CASE EndRounds(t)  BY <2>1, <2>3 DEF EndRounds, At, Goto, StepsLeft, Types
  <2>4. CASE Socket(t)  BY <2>1, <2>4 DEF Socket, At, Goto, Fail, StepsLeft, Types
  <2>5. CASE Connect(t) \/ ConnectFails(t)
    BY <2>1, <2>5 DEF Connect, ConnectFails, At, Goto, Fail, StepsLeft, Types
  <2>6. CASE Write(t) \/ WriteFails(t)
    <3>1. pc[t] = "write" /\ pc'[t] \in {"read", "round", "done"}
      BY <2>6 DEF Write, WriteFails, At, Goto, Fail, Types
    <3>. QED  BY <2>1, <3>1 DEF StepsLeft
  <2>7. CASE ReadAnswer(t) \/ ReadShort(t) \/ ReadEnd(t)
    <3>1. pc[t] = "read" /\ pc'[t] \in {"round", "done"}
      BY <2>7 DEF ReadAnswer, ReadShort, ReadEnd, BytesReceived, At, Goto, Fail, Types
    <3>. QED  BY <2>1, <3>1 DEF StepsLeft
  <2>. QED
    BY <1>5, <2>2, <2>3, <2>4, <2>5, <2>6, <2>7 DEF ThreadStep, client_thread
<1>. QED  BY <1>1, <1>2, <1>3, <1>4, <1>5

(***************************************************************************)
(* Every step brings the end of the test nearer, for any number of         *)
(* threads, requests and sizes, whatever fails and however the server      *)
(* answers: no loop of the two programs can go round for ever, and with    *)
(* NobodyWaitsInVain the threads end if they run and the server answers or *)
(* hangs up (client.cpp:71-127, client_longconn.cpp:62-126).               *)
(***************************************************************************)
THEOREM EveryStepAdvances == Spec => TestAdvances
<1>1. ASSUME ClientsInv, ClientsInv', [Next]_vars, ~UNCHANGED vars, ~(Running /\ ~Running')
      PROVE  \E t \in Threads : /\ Below(Rank(t)', Rank(t))
                               /\ \A u \in Threads \ {t} : Rank(u)' = Rank(u)
  <2>1. Types /\ PlaceInv  BY <1>1, TypesOf DEF ClientsInv
  <2>2. Types'
    <3>1. TypeOK'  BY <1>1 DEF ClientsInv
    <3>. QED  BY <3>1 DEF TypeOK, Types
  <2>3. ~Report  BY <1>1 DEF Report, Running
  <2>4. PICK t \in Threads : ThreadStep(t)  BY <1>1, <2>3 DEF Next, ThreadStep
  <2>5. Below(Rank(t)', Rank(t))
    <3> DEFINE open == IF sock[t] = "open" THEN 1 ELSE 0
    <3>1. /\ ToCome(t) \in Nat /\ StepsLeft[pc[t]] \in Nat /\ OnTheWay(t) \in Nat
          /\ Rank(t) = <<ToCome(t), StepsLeft[pc[t]], OnTheWay(t), open>>
      BY <2>1, RankTyped
    <3>2. (Types => /\ ToCome(t) \in Nat /\ StepsLeft[pc[t]] \in Nat /\ OnTheWay(t) \in Nat
                    /\ Rank(t) = <<ToCome(t), StepsLeft[pc[t]], OnTheWay(t), open>>)'
      BY RankTyped, PTL
    <3>3. \/ ToCome(t)' < ToCome(t)
          \/ ToCome(t)' = ToCome(t) /\ StepsLeft[pc[t]]' < StepsLeft[pc[t]]
          \/ ToCome(t)' = ToCome(t) /\ pc'[t] = pc[t] /\ OnTheWay(t)' < OnTheWay(t)
          \/ /\ ToCome(t)' = ToCome(t) /\ pc'[t] = pc[t] /\ OnTheWay(t)' = OnTheWay(t)
             /\ sock[t] = "open" /\ sock'[t] = "hungup"
      BY <1>1, <2>1, <2>2, <2>4, StepBelow
    <3>4. StepsLeft[pc[t]]' = StepsLeft[pc'[t]]  BY DEF StepsLeft
    <3>5. open \in Nat /\ open' \in Nat  OBVIOUS
    <3>6. sock[t] = "open" /\ sock'[t] = "hungup" => open' < open  OBVIOUS
    <3> HIDE DEF open
    <3>7. Below(<<ToCome(t)', StepsLeft[pc[t]]', OnTheWay(t)', open'>>,
                <<ToCome(t), StepsLeft[pc[t]], OnTheWay(t), open>>)
      BY <2>2, <3>1, <3>2, <3>3, <3>4, <3>5, <3>6, BelowCases
    <3>. QED  BY <2>2, <3>1, <3>2, <3>7
  <2>6. ASSUME NEW u \in Threads \ {t}  PROVE Rank(u)' = Rank(u)
    BY <2>1, <2>4, OthersUnchanged DEF Rank
  <2>. QED  BY <2>5, <2>6
<1>2. ClientsInv /\ ClientsInv' /\ [Next]_vars =>
        [\/ Running /\ ~Running'
         \/ \E t \in Threads : /\ Below(Rank(t)', Rank(t))
                               /\ \A u \in Threads \ {t} : Rank(u)' = Rank(u)]_vars
  BY <1>1
<1>. QED  BY <1>2, Invariance, PTL DEF Spec, TestAdvances
-----------------------------------------------------------------------------
(* The server that the programs are checked against.                       *)

LEMMA PrefixKept ==
  ASSUME NEW S, NEW s \in Seq(S), NEW p \in Seq(S), NEW n \in 0 .. Len(s)
  PROVE  SubSeq(s \o p, 1, n) = SubSeq(s, 1, n)
<1>1. \A k \in 1 .. n : s[k] \in S  OBVIOUS
<1>2. SubSeq(s, 1, n) \in Seq(S) /\ Len(SubSeq(s, 1, n)) = n
  BY <1>1
<1>3. s \o p \in Seq(S) /\ Len(s \o p) = Len(s) + Len(p)  OBVIOUS
<1>4. SubSeq(s \o p, 1, n) \in Seq(S) /\ Len(SubSeq(s \o p, 1, n)) = n
  BY <1>3
<1>5. \A k \in 1 .. n : SubSeq(s \o p, 1, n)[k] = SubSeq(s, 1, n)[k]
  BY <1>3
<1>. QED  BY <1>2, <1>4, <1>5, SeqEqual

LEMMA PrefixGrows ==
  ASSUME NEW S, NEW s \in Seq(S), NEW n \in 0 .. Len(s), NEW m \in n .. Len(s)
  PROVE  /\ Service!IsPrefix(SubSeq(s, 1, n), SubSeq(s, 1, m))
         /\ Service!IsPrefix(SubSeq(s, 1, m), s)
<1>1. /\ Len(SubSeq(s, 1, n)) = n /\ Len(SubSeq(s, 1, m)) = m
      /\ \A k \in 1 .. n : SubSeq(s, 1, n)[k] = s[k]
      /\ \A k \in 1 .. m : SubSeq(s, 1, m)[k] = s[k]
  OBVIOUS
<1>. QED  BY <1>1 DEF Service!IsPrefix

LEMMA PacketIsMessage ==
  ASSUME Types, NEW t \in Threads PROVE Packet(t) \in Packets
<1>1. MESSAGE_SIZE[t] \in Sizes \cup {0} /\ i[t] \in 0 .. REQUESTS_PER_THREAD  BY DEF Types
<1>. QED  BY <1>1 DEF Packet, PacketLength, Packets

(* What a step of the thread does to its connected socket.                 *)
LEMMA ServiceStep ==
  ASSUME Types, PlaceInv, observed \in Threads, ThreadStep(observed), Connected(observed)'
  PROVE  \/ ~Connected(observed) /\ Service!Init'
         \/ Connected(observed) /\ [Service!Next]_(Service!vars)
<1> DEFINE o == observed
           s == asked[o]
<1>0. s \in Seq(Bytes) /\ arrived[o] \in 0 .. Len(s)
  BY DEF Types
<1>1. CASE Answer(o)
  <2>1. PICK n \in arrived[o] + 1 .. Len(s) : arrived' = [arrived EXCEPT ![o] = n]
    BY <1>1 DEF Answer
  <2>2. arrived'[o] = n /\ UNCHANGED <<asked, sock>> /\ sock[o] = "open"
    BY <1>1, <2>1 DEF Answer, Types
  <2>3. n \in arrived[o] .. Len(s)  BY <1>0, <2>1
  <2>4. /\ Service!IsPrefix(SubSeq(s, 1, arrived[o]), SubSeq(s, 1, n))
        /\ Service!IsPrefix(SubSeq(s, 1, n), s)
    BY <1>0, <2>3, PrefixGrows
  <2>5. Service!Answer  BY <2>2, <2>4 DEF Service!Answer
  <2>. QED  BY <2>2, <2>5 DEF Service!Next, Connected
<1>2. CASE HangUp(o)
  <2>1. /\ UNCHANGED <<asked, arrived>> /\ sock[o] = "open" /\ sock'[o] = "hungup"
    BY <1>2 DEF HangUp, Types
  <2>2. Service!HangUp  BY <2>1 DEF Service!HangUp
  <2>. QED  BY <2>1, <2>2 DEF Service!Next, Connected
<1>3. CASE Connect(o)
  <2>1. pc[o] = "connect" /\ sock[o] = "created"
    BY <1>3 DEF Connect, At, PlaceInv, InPlace
  <2>2. asked'[o] = <<>> /\ arrived'[o] = 0 /\ sock'[o] = "open"
    BY <1>3 DEF Connect, Types
  <2>3. SubSeq(asked'[o], 1, arrived'[o]) = <<>>  BY <2>2
  <2>. QED  BY <2>1, <2>2, <2>3 DEF Service!Init, Connected
<1>4. CASE Write(o)
  <2>1. asked'[o] = s \o Packet(o) /\ UNCHANGED <<arrived, sock>>
    BY <1>4 DEF Write, Types
  <2>2. Packet(o) \in Packets /\ Packet(o) \in Seq(Bytes)
    BY PacketTyped, PacketIsMessage
  <2>3. SubSeq(s \o Packet(o), 1, arrived[o]) = SubSeq(s, 1, arrived[o])
    BY <1>0, <2>2, PrefixKept
  <2>4. Service!Ask  BY <2>1, <2>2, <2>3 DEF Service!Ask
  <2>. QED  BY <2>1, <2>4 DEF Service!Next, Connected
<1>5. CASE ~(Answer(o) \/ HangUp(o) \/ Connect(o) \/ Write(o))
  <2>1. sock'[o] = sock[o] /\ UNCHANGED <<asked, arrived>>
    BY <1>5 DEF ThreadStep, client_thread, Enter, Round, EndRounds, Socket, ConnectFails,
       WriteFails, WriteKills, ReadAnswer, ReadShort, ReadEnd, Close, connVars, Connected,
       Types
  <2>2. UNCHANGED Service!vars  BY <2>1 DEF Service!vars
  <2>. QED  BY <2>1, <2>2 DEF Connected
<1>. QED  BY <1>1, <1>2, <1>3, <1>4, <1>5

(***************************************************************************)
(* The server of the programs does no more to a connection than            *)
(* EchoService may: what happens to a connected socket, for any thread,    *)
(* any number of requests and any sizes, is a behaviour of that service    *)
(* (client.cpp:84-118, client_longconn.cpp:71-120).                        *)
(***************************************************************************)
THEOREM ClientsUseEchoService ==
  ASSUME observed \in Threads
  PROVE  Spec => UsesEchoService
<1>1. ASSUME ClientsInv, [Next]_vars, Connected(observed)'
      PROVE  \/ ~Connected(observed) /\ Service!Init'
             \/ Connected(observed) /\ [Service!Next]_(Service!vars)
  <2>1. Types /\ PlaceInv  BY <1>1, TypesOf DEF ClientsInv
  <2>2. CASE ThreadStep(observed)  BY <1>1, <2>1, <2>2, ServiceStep
  <2>3. CASE ~ThreadStep(observed)
    <3>1. /\ asked'[observed] = asked[observed] /\ arrived'[observed] = arrived[observed]
          /\ sock'[observed] = sock[observed]
      BY <1>1, <2>1, <2>3, OthersUnchanged
         DEF Next, ThreadStep, Report, vars, connVars
    <3>2. UNCHANGED Service!vars  BY <3>1 DEF Service!vars
    <3>. QED  BY <1>1, <3>1, <3>2 DEF Connected
  <2>. QED  BY <2>2, <2>3
<1>2. ClientsInv /\ [Next]_vars =>
        [Connected(observed)' =>
           \/ ~Connected(observed) /\ Service!Init'
           \/ Connected(observed) /\ [Service!Next]_(Service!vars)]_vars
  BY <1>1
<1>. QED  BY <1>2, Invariance, PTL DEF Spec, UsesEchoService

(* A prefix between two prefixes of a sequence is cut from it.             *)
LEMMA PrefixLength ==
  ASSUME NEW S, NEW s \in Seq(S), NEW n \in 0 .. Len(s), NEW m \in 0 .. Len(s),
         Service!IsPrefix(SubSeq(s, 1, n), SubSeq(s, 1, m))
  PROVE  n <= m
<1>1. Len(SubSeq(s, 1, n)) = n /\ Len(SubSeq(s, 1, m)) = m  OBVIOUS
<1>. QED  BY <1>1 DEF Service!IsPrefix

(***************************************************************************)
(* And no less: whatever EchoService may do next to an open connection,    *)
(* while the rest of the test stands still, the server of the programs may *)
(* do.  So what is proved of the programs holds against every server that  *)
(* implements EchoService, as Connection does (client.cpp:84-118,          *)
(* client_longconn.cpp:71-120).                                            *)
(***************************************************************************)
THEOREM EveryEchoServiceServes ==
  ASSUME observed \in Threads, TypeOK, TypeOK', sock[observed] = "open",
         Service!Answer \/ Service!HangUp, Connected(observed)',
         \A t \in Threads \ {observed} : arrived'[t] = arrived[t] /\ sock'[t] = sock[t],
         UNCHANGED <<program, counters, main, pc, roundVars, asked, taken, counted>>
  PROVE  Answer(observed) \/ HangUp(observed) \/ UNCHANGED vars
<1> DEFINE o == observed
           s == asked[o]
<1>1. /\ s \in Seq(Bytes)
      /\ arrived[o] \in 0 .. Len(s) /\ arrived'[o] \in 0 .. Len(s)
  BY DEF TypeOK
<1>2. /\ arrived \in [Threads -> Nat] /\ arrived' \in [Threads -> Nat]
      /\ sock \in [Threads -> {"none", "created", "open", "hungup"}]
      /\ sock' \in [Threads -> {"none", "created", "open", "hungup"}]
  BY DEF TypeOK
<1>3. /\ arrived' = [arrived EXCEPT ![o] = arrived'[o]]
      /\ sock' = [sock EXCEPT ![o] = sock'[o]]
  BY <1>2
<1>4. CASE Service!Answer
  <2>1. Service!IsPrefix(SubSeq(s, 1, arrived[o]), SubSeq(s, 1, arrived'[o]))
    BY <1>4 DEF Service!Answer
  <2>2. arrived[o] <= arrived'[o]  BY <1>1, <2>1, PrefixLength
  <2>3. sock'[o] = "open"  BY <1>4 DEF Service!Answer, Connected
  <2>4. sock' = sock  BY <1>2, <1>3, <2>3
  <2>5. CASE arrived'[o] = arrived[o]
    <3>1. arrived' = arrived  BY <1>2, <1>3, <2>5
    <3>. QED  BY <2>4, <3>1 DEF vars, connVars
  <2>6. CASE arrived'[o] \in arrived[o] + 1 .. Len(s)
    <3>1. Answer(o)  BY <1>3, <2>4, <2>6 DEF Answer
    <3>. QED  BY <3>1
  <2>. QED  BY <1>1, <2>2, <2>5, <2>6
<1>5. CASE Service!HangUp
  <2>1. sock'[o] = "hungup"  BY <1>5 DEF Service!HangUp
  <2>2. SubSeq(s, 1, arrived[o]) = SubSeq(s, 1, arrived'[o])
    BY <1>5 DEF Service!HangUp
  <2>3. Len(SubSeq(s, 1, arrived[o])) = arrived[o] /\ Len(SubSeq(s, 1, arrived'[o])) = arrived'[o]
    BY <1>1
  <2>4. arrived' = arrived  BY <1>2, <1>3, <2>2, <2>3
  <2>. QED  BY <1>3, <2>1, <2>4 DEF HangUp
<1>. QED  BY <1>4, <1>5

=============================================================================
