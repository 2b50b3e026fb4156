-------------------------------- MODULE Clients --------------------------------
(***************************************************************************)
(* The load generators client.cpp and client_longconn.cpp.  Their threads  *)
(* send a packet with a blocking write, wait for the answer with one       *)
(* blocking read, and count a success when it returned as many bytes as    *)
(* were sent.  client opens a connection for each request, client_longconn *)
(* one for all requests of a thread.                                       *)
(*                                                                         *)
(* The server answers with the bytes it was sent, in order and in pieces   *)
(* of any length, until it hangs up: EchoService, which Connection shows.  *)
(***************************************************************************)
EXTENDS Sequences, FiniteSets, Naturals

CONSTANTS
  Threads,
  REQUESTS_PER_THREAD,
  TLV_HEADER_LENGTH,
  Sizes,              \* ms % MAX_MESSAGE_SIZE for any ms: the threads race for it
  observed            \* any one thread: that whose connection UsesEchoService is about

ASSUME ClientsAssumption ==
  /\ IsFiniteSet(Threads)
  /\ REQUESTS_PER_THREAD \in Nat
  /\ TLV_HEADER_LENGTH \in Nat \ {0} /\ Sizes \subseteq Nat

VARIABLES
  program,              \* "client" or "client_longconn"
  total_requests, successful_requests,
  main,                 \* "join", "reported", or how the process ended
  pc,                   \* [Threads -> ...]: where each is in client_thread
  i,                    \* [Threads -> Nat]: requests begun
  MESSAGE_SIZE,         \* [Threads -> Nat]
  sock,                 \* [Threads -> {"none", "created", "open", "hungup"}]
  asked,                \* [Threads -> Seq(bytes)]: written to this connection
  arrived,              \* [Threads -> Nat]: bytes of the answers that arrived
  taken,                \* [Threads -> Nat]: bytes of them read
  counted               \* history: <<packet, answer>> of each success

counters == <<total_requests, successful_requests>>
roundVars == <<i, MESSAGE_SIZE>>
connVars == <<sock, asked, arrived, taken>>
vars == <<program, counters, main, pc, roundVars, connVars, counted>>

(* A byte: the number of the request, and its place in the packet.         *)
Bytes == Nat \X Nat

Long == program = "client_longconn"
Running == main = "join"

TypeOK ==
  /\ program \in {"client", "client_longconn"}
  /\ total_requests \in 0 .. REQUESTS_PER_THREAD * Cardinality(Threads)
  /\ successful_requests \in 0 .. REQUESTS_PER_THREAD * Cardinality(Threads)
  /\ main \in {"join", "reported", "SIGFPE", "SIGPIPE"}
  /\ pc \in [Threads -> {"enter", "round", "socket", "connect", "write", "read", "done"}]
  /\ i \in [Threads -> 0 .. REQUESTS_PER_THREAD]
  /\ MESSAGE_SIZE \in [Threads -> Sizes \cup {0}]
  /\ sock \in [Threads -> {"none", "created", "open", "hungup"}]
  /\ asked \in [Threads -> Seq(Bytes)]
  /\ arrived \in [Threads -> Nat] /\ taken \in [Threads -> Nat]
  /\ \A t \in Threads :
       taken[t] \in 0 .. arrived[t] /\ arrived[t] \in 0 .. Len(asked[t])

Init ==
  /\ program \in {"client", "client_longconn"}
  /\ total_requests = 0 /\ successful_requests = 0
  /\ main = "join"
  /\ pc = [t \in Threads |-> "enter"]
  /\ i = [t \in Threads |-> 0]
  /\ MESSAGE_SIZE = [t \in Threads |-> 0]
  /\ sock = [t \in Threads |-> "none"]
  /\ asked = [t \in Threads |-> <<>>]
  /\ arrived = [t \in Threads |-> 0]
  /\ taken = [t \in Threads |-> 0]
  /\ counted = {}

-----------------------------------------------------------------------------
(* The server and the network.                                             *)

Answer(t) ==
  /\ sock[t] = "open"
  /\ \E n \in arrived[t] + 1 .. Len(asked[t]) : arrived' = [arrived EXCEPT ![t] = n]
  /\ UNCHANGED <<program, counters, main, pc, roundVars, sock, asked, taken, counted>>

(* The server closes the connection, or it is reset.                       *)
HangUp(t) ==
  /\ sock[t] = "open"
  /\ sock' = [sock EXCEPT ![t] = "hungup"]
  /\ UNCHANGED <<program, counters, main, pc, roundVars, asked, arrived, taken, counted>>

-----------------------------------------------------------------------------
Goto(t, where) == pc' = [pc EXCEPT ![t] = where]
At(t, where) == Running /\ pc[t] = where

(* The bytes of a packet: no two packets of a thread have one in common.   *)
PacketLength(t) == TLV_HEADER_LENGTH + MESSAGE_SIZE[t]
Packet(t) == [k \in 1 .. PacketLength(t) |-> <<i[t], k>>]

Close(t) == sock' = [sock EXCEPT ![t] = "none"] /\ UNCHANGED <<asked, arrived, taken>>

(* What went wrong ends the request; with one connection, the thread.      *)
Fail(t) == Goto(t, IF Long THEN "done" ELSE "round")

(* Mutant: neither program counts in advance.                              *)
EnterUncounted(t) ==
  /\ At(t, "enter")
  /\ Goto(t, IF Long THEN "socket" ELSE "round")
  /\ UNCHANGED <<program, counters, main, roundVars, connVars, counted>>

(* client_longconn counts its requests in advance and connects first.      *)
Enter(t) ==
  /\ At(t, "enter")
  /\ total_requests' = total_requests + IF Long THEN REQUESTS_PER_THREAD ELSE 0
  /\ Goto(t, IF Long THEN "socket" ELSE "round")
  /\ UNCHANGED <<program, successful_requests, main, roundVars, connVars, counted>>

(* Mutant: one request more.                                               *)
GoesOnInclusive(t) == i[t] <= REQUESTS_PER_THREAD

GoesOn(t) == i[t] < REQUESTS_PER_THREAD

(* The next request begins, or the loop ends.                              *)
Round(t) ==
  /\ At(t, "round") /\ GoesOn(t)
  /\ i' = [i EXCEPT ![t] = @ + 1]
  /\ \E n \in Sizes : MESSAGE_SIZE' = [MESSAGE_SIZE EXCEPT ![t] = n]
  /\ total_requests' = total_requests + IF Long THEN 0 ELSE 1
  /\ Goto(t, IF Long THEN "write" ELSE "socket")
  /\ UNCHANGED <<program, successful_requests, main, connVars, counted>>

EndRounds(t) ==
  /\ At(t, "round") /\ ~GoesOn(t)
  /\ \/ Long /\ Close(t)
     \/ ~Long /\ UNCHANGED connVars
  /\ Goto(t, "done")
  /\ UNCHANGED <<program, counters, main, roundVars, counted>>

Socket(t) ==
  /\ At(t, "socket")
  /\ \/ sock' = [sock EXCEPT ![t] = "created"] /\ Goto(t, "connect")
     \/ UNCHANGED sock /\ Fail(t)
  /\ UNCHANGED <<program, counters, main, roundVars, asked, arrived, taken, counted>>

Connect(t) ==
  /\ At(t, "connect")
  /\ sock' = [sock EXCEPT ![t] = "open"]
  /\ asked' = [asked EXCEPT ![t] = <<>>]
  /\ arrived' = [arrived EXCEPT ![t] = 0]
  /\ taken' = [taken EXCEPT ![t] = 0]
  /\ Goto(t, IF Long THEN "round" ELSE "write")
  /\ UNCHANGED <<program, counters, main, roundVars, counted>>

ConnectFails(t) ==
  /\ At(t, "connect")
  /\ Close(t) /\ Fail(t)
  /\ UNCHANGED <<program, counters, main, roundVars, counted>>

(* The kernel takes the packet, also when the server has just hung up.     *)
Write(t) ==
  /\ At(t, "write")
  /\ asked' = [asked EXCEPT ![t] = @ \o Packet(t)]
  /\ Goto(t, "read")
  /\ UNCHANGED <<program, counters, main, roundVars, sock, arrived, taken, counted>>

(* Mutant: the socket stays open.                                          *)
WriteFailsOpen(t) ==
  /\ At(t, "write") /\ sock[t] = "hungup"
  /\ Fail(t)
  /\ UNCHANGED <<program, counters, main, roundVars, connVars, counted>>

(* ECONNRESET.                                                             *)
WriteFails(t) ==
  /\ At(t, "write") /\ sock[t] = "hungup"
  /\ Close(t) /\ Fail(t)
  /\ UNCHANGED <<program, counters, main, roundVars, counted>>

(* EPIPE, with the signal.                                                 *)
WriteKills(t) ==
  /\ At(t, "write") /\ sock[t] = "hungup"
  /\ main' = "SIGPIPE"
  /\ UNCHANGED <<program, counters, pc, roundVars, connVars, counted>>

(* read returns what is there, at most the length of the packet.           *)
BytesReceived(t, n) ==
  /\ At(t, "read")
  /\ n \in 1 .. arrived[t] - taken[t] /\ n <= PacketLength(t)
  /\ n = PacketLength(t) \/ n = arrived[t] - taken[t]

(* All of it.  (The two hashes that are compared are both 0.)              *)
ReadAnswer(t) ==
  /\ \E n \in {PacketLength(t)} :
       /\ BytesReceived(t, n)
       /\ counted' = counted \cup
            {<<Packet(t), SubSeq(asked[t], taken[t] + 1, taken[t] + n)>>}
       /\ taken' = [taken EXCEPT ![t] = @ + n]
  /\ successful_requests' = successful_requests + 1
  /\ sock' = [sock EXCEPT ![t] = IF Long THEN @ ELSE "none"]
  /\ Goto(t, "round")
  /\ UNCHANGED <<program, total_requests, main, roundVars, asked, arrived>>

(* Mutant: a short answer is a failure of this request only.               *)
ReadShortGoesOn(t) ==
  /\ \E n \in 1 .. PacketLength(t) - 1 :
       BytesReceived(t, n) /\ taken' = [taken EXCEPT ![t] = @ + n]
  /\ Goto(t, "round")
  /\ UNCHANGED <<program, counters, main, roundVars, sock, asked, arrived, counted>>

(* Only a part of the answer is there: that counts as a failure.           *)
ReadShort(t) ==
  /\ \E n \in 1 .. PacketLength(t) - 1 : BytesReceived(t, n)
  /\ Close(t) /\ Fail(t)
  /\ UNCHANGED <<program, counters, main, roundVars, counted>>

(* Mutant: 0 is taken for "no answer yet".                                 *)
ReadEndAgain(t) ==
  /\ At(t, "read") /\ sock[t] = "hungup" /\ taken[t] = arrived[t]
  /\ UNCHANGED vars

(* The end of the stream, or an error.                                     *)
ReadEnd(t) ==
  /\ At(t, "read") /\ sock[t] = "hungup" /\ taken[t] = arrived[t]
  /\ Close(t) /\ Fail(t)
  /\ UNCHANGED <<program, counters, main, roundVars, counted>>

(* Main has joined the threads, and divides by successful_requests.        *)
Report ==
  /\ Running /\ \A t \in Threads : pc[t] = "done"
  /\ main' = IF successful_requests = 0 THEN "SIGFPE" ELSE "reported"
  /\ UNCHANGED <<program, counters, pc, roundVars, connVars, counted>>

client_thread(t) ==
  \/ Enter(t) \/ Round(t) \/ EndRounds(t) \/ Socket(t) \/ Connect(t) \/ ConnectFails(t)
  \/ Write(t) \/ WriteFails(t) \/ WriteKills(t)
  \/ ReadAnswer(t) \/ ReadShort(t) \/ ReadEnd(t)

Next ==
  \/ \E t \in Threads : client_thread(t) \/ Answer(t) \/ HangUp(t)
  \/ Report

(* Threads run, and the server answers or hangs up.                        *)
Fairness ==
  /\ \A t \in Threads : WF_vars(client_thread(t)) /\ WF_vars(Answer(t) \/ HangUp(t))
  /\ WF_vars(Report)

Spec == Init /\ [][Next]_vars
FairSpec == Spec /\ Fairness

-----------------------------------------------------------------------------
(***************************************************************************)
(* A success is the answer to this very request: although nothing but its  *)
(* length is compared, no rest of an earlier answer is taken for it,       *)
(* because a short read gives the connection up                            *)
(* (client.cpp:109-118, client_longconn.cpp:111-120).                      *)
(***************************************************************************)
CountsOwnAnswers == \A c \in counted : c[1] = c[2]

(***************************************************************************)
(* Whatever fails, a thread has closed its socket when it opens another    *)
(* one or ends (client.cpp:77-127, client_longconn.cpp:71-126).            *)
(***************************************************************************)
SocketsClosed ==
  \A t \in Threads : pc[t] \in {"enter", "socket", "done"} => sock[t] = "none"

(***************************************************************************)
(* Every request counts once in the total that is printed, also those that *)
(* failed and those that were never sent, and before it can succeed        *)
(* (client.cpp:75, client_longconn.cpp:66).  When the division ends the    *)
(* program the total has been printed (client.cpp:150-153).                *)
(***************************************************************************)
TotalPrinted == main \in {"reported", "SIGFPE"}

TotalIsComplete ==
  /\ successful_requests <= total_requests
  /\ TotalPrinted =>
       total_requests = REQUESTS_PER_THREAD * Cardinality(Threads)

(***************************************************************************)
(* The test ends, though no read has a time-out, if the server answers or  *)
(* hangs up (client.cpp:141-143).                                          *)
(***************************************************************************)
TestEnds == <>~Running

(***************************************************************************)
(* Without a word on fairness: a thread that waits for an answer has one   *)
(* to read, or is owed one by a server that has not hung up, or will read  *)
(* the end; and each step brings the end of the test nearer, the server's  *)
(* included: the requests to come, then the way through the current one,   *)
(* then the answers on their way (client.cpp:71-127,                       *)
(* client_longconn.cpp:62-126).                                            *)
(***************************************************************************)
NobodyStuck ==
  \A t \in Threads : At(t, "read") =>
    \/ \E n \in 1 .. PacketLength(t) : BytesReceived(t, n)
    \/ arrived[t] < Len(asked[t]) /\ sock[t] = "open"
    \/ taken[t] = arrived[t] /\ sock[t] = "hungup"

StepsLeft ==
  [enter |-> 6, socket |-> 5, connect |-> 4, write |-> 3, read |-> 2, round |-> 1, done |-> 0]

Rank(t) ==
  <<REQUESTS_PER_THREAD - i[t], StepsLeft[pc[t]], Len(asked[t]) - arrived[t],
    IF sock[t] = "open" THEN 1 ELSE 0>>

(* In lexicographic order.                                                 *)
Below(r, s) == \E k \in 1 .. 4 : r[k] < s[k] /\ \A j \in 1 .. k - 1 : r[j] = s[j]

TestAdvances ==
  [][\/ Running /\ ~Running'
     \/ \E t \in Threads : /\ Below(Rank(t)', Rank(t))
                           /\ \A u \in Threads \ {t} : Rank(u)' = Rank(u)]_vars

(***************************************************************************)
(* The server these programs are checked against is EchoService: what      *)
(* happens to a connected socket are steps of that service, which begins   *)
(* anew with each connection (client.cpp:84-118, client_longconn.cpp:      *)
(* 71-120).                                                                *)
(***************************************************************************)
Packets ==
  {[k \in 1 .. TLV_HEADER_LENGTH + n |-> <<r, k>>] :
     n \in Sizes \cup {0}, r \in 0 .. REQUESTS_PER_THREAD}

Service == INSTANCE EchoService
             WITH Messages <- Packets, asked <- asked[observed],
                  answered <- SubSeq(asked[observed], 1, arrived[observed]),
                  hung_up <- sock[observed] = "hungup"

Connected(t) == sock[t] \in {"open", "hungup"}

UsesEchoService ==
  [][Connected(observed)' =>
       \/ ~Connected(observed) /\ Service!Init'
       \/ Connected(observed) /\ [Service!Next]_(Service!vars)]_vars

-----------------------------------------------------------------------------
(***************************************************************************)
(* The inductive invariant behind the first three of these.                *)
(***************************************************************************)
(* In the middle of a request.                                             *)
InRequest(t) == pc[t] \in {"write", "read"} \/ (~Long /\ pc[t] \in {"socket", "connect"})

(* The last packet is what the thread has not read the answer to.          *)
Unanswered(t) ==
  /\ taken[t] + PacketLength(t) = Len(asked[t])
  /\ \A k \in 1 .. PacketLength(t) : asked[t][taken[t] + k] = <<i[t], k>>

(* What the place of a thread says of its socket, its requests and its     *)
(* answers.                                                                *)
InPlace(t) ==
  /\ pc[t] \in {"enter", "socket", "done"} => sock[t] = "none"
  /\ pc[t] = "connect" => sock[t] = "created"
  /\ pc[t] \in {"write", "read"} => sock[t] \in {"open", "hungup"}
  /\ pc[t] = "round" => IF Long THEN sock[t] \in {"open", "hungup"} ELSE sock[t] = "none"
  /\ pc[t] = "enter" => i[t] = 0
  /\ InRequest(t) => i[t] # 0
  /\ pc[t] = "done" /\ ~Long => i[t] = REQUESTS_PER_THREAD
  /\ pc[t] = "write" \/ (Long /\ pc[t] = "round") => taken[t] = Len(asked[t])
  /\ pc[t] = "read" => Unanswered(t)

PlaceInv == \A t \in Threads : InPlace(t)

(* The requests, by thread and number, that have begun, and those that     *)
(* count in the total.                                                     *)
Requests == Threads \X (1 .. REQUESTS_PER_THREAD)
Begun == {r \in Requests : r[2] <= i[r[1]]}
Counted == {r \in Requests : IF Long THEN pc[r[1]] # "enter" ELSE r[2] <= i[r[1]]}

CountInv ==
  /\ total_requests = Cardinality(Counted)
  /\ \E S \in SUBSET Begun :
       /\ successful_requests = Cardinality(S)
       /\ \A t \in Threads : InRequest(t) => <<t, i[t]>> \notin S
  /\ TotalPrinted => \A t \in Threads : pc[t] = "done"

ClientsInv == TypeOK /\ PlaceInv /\ CountInv /\ CountsOwnAnswers

=============================================================================
