------------------------------ MODULE Connection ------------------------------
(***************************************************************************)
(* The input and output of one connection, connection.cpp: the thread of   *)
(* its loop reads TLV messages from a non-blocking socket, hands each to   *)
(* onMessage, which answers with the same body (echoserver.cpp), and       *)
(* flushes the send buffer; an edge-triggered epoll says when.             *)
(*                                                                         *)
(* The peer sends messages of chosen lengths, the network delivers them in *)
(* pieces, and the peer may shut down, reset, or be slow to read.  A byte  *)
(* is <<"len", n, k>>, the k-th of a header that announces n bytes, or     *)
(* <<"body", i, k>>, the k-th of the body of the peer's i-th message.      *)
(***************************************************************************)
EXTENDS SequencesExt, Naturals

CONSTANTS
  TLV_HEADER_LENGTH,  \* 8 bytes in tlvheader.h
  MAX_TLV_LENGTH,     \* 4096 in tlvheader.h
  Lengths,            \* the lengths the peer's headers announce
  MaxMessages,        \* bound of the model: messages the peer sends
  SendSpace,          \* bytes the kernel takes that the peer has not read
  SendApis            \* the functions onMessage may answer with; Send2 in the code

ASSUME ConnectionAssumption ==
  /\ TLV_HEADER_LENGTH \in Nat \ {0} /\ MAX_TLV_LENGTH \in Nat
  /\ Lengths \subseteq Nat /\ MaxMessages \in Nat /\ SendSpace \in Nat \ {0}
  /\ SendApis \subseteq {"Send", "Send2", "SendWithTwoSysCall"}

VARIABLES
  (* the peer and the kernel *)
  sent,         \* the lengths of the messages sent so far
  stream,       \* what they are on the wire
  arrived,      \* bytes of them in the receive queue or read
  taken,        \* bytes of them read
  peer,         \* "open", "shutdown" (sends no more) or "reset"
  fin,          \* the end of the stream has arrived
  sk_err,       \* the pending error of the socket, or "none"
  written,      \* the bytes the kernel took from the server
  read_by_peer, \* how many of them the peer has read
  nospace,      \* a write came short: free space will be an edge
  edge,         \* the channel is in the ready list of epoll
  (* the channel and the connection *)
  pc,           \* where HandleEvent is; "epoll" outside
  events,       \* ready_events
  writing,      \* EPOLLOUT is in listening_events
  registered,   \* the channel is in epoll
  state,
  header,       \* bytes of the header read; read_tlv_header_length of them
  length,       \* tlv_header->length
  read_buffer,
  read_body_length,
  ready_to_handle_message,
  send_buffer,  \* what is readable of it
  killed        \* SIGPIPE ended the process

peerVars == <<sent, stream, peer>>
inVars == <<arrived, taken, fin>>
outVars == <<written, read_by_peer, nospace>>
parseVars == <<header, length, read_buffer, read_body_length,
               ready_to_handle_message>>
channelVars == <<events, registered>>
vars == <<peerVars, inVars, outVars, sk_err, edge, pc, channelVars, writing,
          state, parseVars, send_buffer, killed>>

-----------------------------------------------------------------------------
Header(n) == [k \in 1 .. TLV_HEADER_LENGTH |-> <<"len", n, k>>]
Body(i, n) == [k \in 1 .. n |-> <<"body", i, k>>]

Bytes == {"len", "body", "nul"} \X Nat \X Nat

Available == arrived - taken
NextBytes(n) == SubSeq(stream, taken + 1, taken + n)
Space(output) == SendSpace - (Len(output) - read_by_peer)
Reset == peer = "reset"
EndOfInput == fin \/ Reset

TypeOK ==
  /\ sent \in Seq(Lengths) /\ Len(sent) <= MaxMessages
  /\ {stream, written, send_buffer, header, read_buffer} \subseteq Seq(Bytes)
  /\ taken \in 0 .. arrived /\ arrived \in 0 .. Len(stream)
  /\ peer \in {"open", "shutdown", "reset"}
  /\ sk_err \in {"none", "ECONNRESET", "EPIPE"}
  /\ read_by_peer \in 0 .. Len(written) /\ Space(written) >= 0
  /\ pc \in {"epoll", "read", "message", "body", "write"}
  /\ events \subseteq {"IN", "OUT"}
  /\ state \in {"Connected", "Disconected"}
  /\ Len(header) \in 0 .. TLV_HEADER_LENGTH /\ length \in Nat
  /\ read_body_length \in 0 .. Len(read_buffer)
  /\ Len(read_buffer) <= MAX_TLV_LENGTH
  /\ {fin, nospace, edge, writing, registered, ready_to_handle_message, killed}
       \subseteq BOOLEAN

(* After ConnectionEstablished.  Tlv_header is zero by make_unique.        *)
Init ==
  /\ sent = <<>> /\ stream = <<>> /\ arrived = 0 /\ taken = 0
  /\ peer = "open" /\ fin = FALSE /\ sk_err = "none"
  /\ written = <<>> /\ read_by_peer = 0 /\ nospace = FALSE /\ edge = FALSE
  /\ pc = "epoll" /\ events = {} /\ writing = FALSE /\ registered = TRUE
  /\ state = "Connected"
  /\ header = <<>> /\ length = 0 /\ read_buffer = <<>> /\ read_body_length = 0
  /\ ready_to_handle_message = FALSE
  /\ send_buffer = <<>> /\ killed = FALSE

-----------------------------------------------------------------------------
(* The peer and the network.                                               *)

threadVars == <<pc, channelVars, writing, state, parseVars, send_buffer, killed>>

PeerSend ==
  /\ peer = "open" /\ Len(sent) < MaxMessages
  /\ \E n \in Lengths :
       /\ sent' = Append(sent, n)
       /\ stream' = stream \o (Header(n) \o Body(Len(sent) + 1, n))
  /\ UNCHANGED <<peer, inVars, outVars, sk_err, edge, threadVars>>

PeerShutdown ==
  /\ peer = "open"
  /\ peer' = "shutdown"
  /\ UNCHANGED <<sent, stream, inVars, outVars, sk_err, edge, threadVars>>

(* After the end of the stream a reset is reported as a broken pipe.       *)
PeerReset ==
  /\ peer # "reset"
  /\ peer' = "reset"
  /\ sk_err' = IF fin THEN "EPIPE" ELSE "ECONNRESET"
  /\ edge' = registered
  /\ UNCHANGED <<sent, stream, inVars, outVars, threadVars>>

PeerRead ==
  /\ peer # "reset" /\ read_by_peer < Len(written)
  /\ \E n \in 1 .. Len(written) - read_by_peer : read_by_peer' = read_by_peer + n
  /\ edge' = (edge \/ (nospace /\ registered /\ writing))
  /\ nospace' = FALSE
  /\ UNCHANGED <<peerVars, inVars, written, sk_err, threadVars>>

Deliver ==
  /\ peer # "reset"
  /\ \E n \in 1 .. Len(stream) - arrived : arrived' = arrived + n
  /\ edge' = registered
  /\ UNCHANGED <<peerVars, taken, fin, outVars, sk_err, threadVars>>

DeliverEnd ==
  /\ peer = "shutdown" /\ arrived = Len(stream) /\ ~fin
  /\ fin' = TRUE
  /\ edge' = registered
  /\ UNCHANGED <<peerVars, arrived, taken, outVars, sk_err, threadVars>>

-----------------------------------------------------------------------------
(* epoll_wait reports an edge once, with all that is ready at that moment. *)

Readiness(out, space) ==
  {e \in {"IN"} : Available > 0 \/ EndOfInput}
    \cup {e \in {"OUT"} : out /\ (space > 0 \/ Reset)}

EpollWait ==
  /\ pc = "epoll" /\ edge /\ ~killed
  /\ edge' = FALSE
  /\ events' = Readiness(writing, Space(written))
  /\ nospace' = (nospace \/ (writing /\ Space(written) = 0))
  /\ pc' = IF "IN" \in events' THEN "read"
           ELSE IF "OUT" \in events' THEN "write" ELSE "epoll"
  /\ UNCHANGED <<peerVars, inVars, written, read_by_peer, sk_err, registered,
                 writing, state, parseVars, send_buffer, killed>>

(* Mutant: a channel that listens for EPOLLOUT is not updated again.       *)
EnableWriteOnce ==
  /\ writing' = TRUE
  /\ edge' = (edge \/ (~writing /\ Readiness(TRUE, Space(written')) # {}))
  /\ nospace' = (nospace \/ Space(written') = 0)

(* EPOLL_CTL_MOD looks at the socket again, after what was written.        *)
EnableWrite ==
  /\ writing' = TRUE
  /\ edge' = (edge \/ Readiness(TRUE, Space(written')) # {})
  /\ nospace' = (nospace \/ Space(written') = 0)

(* Connection::HandleClose; the callback it calls is modelled in Server.   *)
HandleClose == state' = "Disconected"

-----------------------------------------------------------------------------
(* ReadNonBlocking: one action per call of read.                           *)

readUnchanged == <<peerVars, arrived, fin, outVars, edge, channelVars, writing,
                   send_buffer, killed>>

(* The vector keeps its first bytes when it is resized.                    *)
Resized(buffer, n) ==
  [k \in 1 .. n |-> IF k <= Len(buffer) THEN buffer[k] ELSE <<"nul", 0, 0>>]

(* Mutant: off by one.                                                     *)
TooLongLate(n) == n > MAX_TLV_LENGTH + 1

TooLong(n) == n > MAX_TLV_LENGTH

(* Some bytes of the header; the last ones tell the length of the body.    *)
ReadHeader ==
  /\ Len(header) < TLV_HEADER_LENGTH /\ Available > 0
  /\ LET n == Min({Available, TLV_HEADER_LENGTH - Len(header)}) IN
       /\ header' = header \o NextBytes(n)
       /\ taken' = taken + n
  /\ \/ /\ Len(header') < TLV_HEADER_LENGTH
        /\ UNCHANGED <<pc, state, length, read_buffer>>
     \/ /\ Len(header') = TLV_HEADER_LENGTH
        /\ length' = header'[1][2]
        /\ \/ /\ TooLong(length')
              /\ HandleClose /\ pc' = "message"
              /\ UNCHANGED read_buffer
           \/ /\ ~TooLong(length')
              /\ read_buffer' = Resized(read_buffer, length')
              /\ UNCHANGED <<pc, state>>
  /\ UNCHANGED <<sk_err, read_body_length, ready_to_handle_message>>

BodyRoom == Len(read_buffer) - read_body_length

(* Some bytes of the body; the loop ends with the last one.                *)
ReadBody ==
  /\ Len(header) = TLV_HEADER_LENGTH /\ BodyRoom > 0 /\ Available > 0
  /\ LET n == Min({Available, BodyRoom}) IN
       /\ read_buffer' = [k \in 1 .. Max({Len(read_buffer), read_body_length + n}) |->
                            IF k \in read_body_length + 1 .. read_body_length + n
                            THEN stream[taken + k - read_body_length]
                            ELSE read_buffer[k]]
       /\ read_body_length' = read_body_length + n
       /\ taken' = taken + n
  /\ \/ /\ read_body_length' = length
        /\ ready_to_handle_message' = TRUE /\ pc' = "message"
     \/ /\ read_body_length' # length
        /\ UNCHANGED <<ready_to_handle_message, pc>>
  /\ UNCHANGED <<state, sk_err, header, length>>

(* A read into no room returns 0: the body is empty, or a header that was  *)
(* too long is still there.                                                *)
ReadNoRoom ==
  /\ Len(header) = TLV_HEADER_LENGTH /\ BodyRoom = 0
  /\ \/ read_body_length = length /\ ready_to_handle_message' = TRUE /\ UNCHANGED state
     \/ read_body_length # length /\ HandleClose /\ UNCHANGED ready_to_handle_message
  /\ pc' = "message"
  /\ UNCHANGED <<taken, sk_err, header, length, read_buffer, read_body_length>>

Wanted == Len(header) < TLV_HEADER_LENGTH \/ BodyRoom > 0

ReadAgain ==
  /\ Wanted /\ Available = 0 /\ ~EndOfInput
  /\ pc' = "message"
  /\ UNCHANGED <<taken, state, sk_err, parseVars>>

(* Mutant: 0 inside a message is taken for "no more bytes yet".            *)
ReadEndInHeaderOnly ==
  /\ Wanted /\ Available = 0 /\ EndOfInput
  /\ IF header = <<>> THEN HandleClose ELSE UNCHANGED state
  /\ sk_err' = "none"
  /\ pc' = "message"
  /\ UNCHANGED <<taken, parseVars>>

(* The end of the stream, or the pending error, which is reported once.    *)
ReadEnd ==
  /\ Wanted /\ Available = 0 /\ EndOfInput
  /\ HandleClose
  /\ sk_err' = "none"
  /\ pc' = "message"
  /\ UNCHANGED <<taken, parseVars>>

Read ==
  /\ pc = "read" /\ ~killed
  /\ ReadHeader \/ ReadBody \/ ReadNoRoom \/ ReadAgain \/ ReadEnd
  /\ UNCHANGED readUnchanged

-----------------------------------------------------------------------------
(* write(2).  What the kernel takes is limited by Space, a short write     *)
(* makes the kernel watch for it.  On a reset connection it fails, and     *)
(* unless the reset is still pending as ECONNRESET, SIGPIPE comes with     *)
(* EPIPE: the program neither ignores nor handles it.                      *)

Taken(data) == Min({Len(data), Space(written)})
Short(data) == Taken(data) < Len(data)

WriteTakes(data) ==
  /\ ~Reset
  /\ written' = written \o SubSeq(data, 1, Taken(data))
  /\ UNCHANGED <<sk_err, killed, state>>

WriteFails ==
  /\ Reset
  /\ sk_err' = "none"
  /\ killed' = (sk_err # "ECONNRESET")
  /\ HandleClose
  /\ UNCHANGED <<written, nospace, send_buffer, writing, edge>>

NoWrite == UNCHANGED <<written, sk_err, killed, state>>

Keep(data) == send_buffer' = send_buffer \o data /\ EnableWrite

(* Mutant: what is new is written although older bytes wait.               *)
SendInternalOvertakes(data) ==
  \/ /\ WriteTakes(data)
     /\ \/ Short(data) /\ Keep(SubSeq(data, Taken(data) + 1, Len(data)))
        \/ ~Short(data) /\ UNCHANGED <<send_buffer, writing, edge, nospace>>
  \/ WriteFails

(* SendInternal: write at once unless bytes wait in the send buffer, and   *)
(* keep there what is left; an empty body leaves nothing.                  *)
SendInternal(data) ==
  \/ /\ send_buffer # <<>> /\ NoWrite
     /\ \/ data # <<>> /\ Keep(data)
        \/ data = <<>> /\ UNCHANGED <<send_buffer, writing, edge, nospace>>
  \/ /\ send_buffer = <<>>
     /\ WriteTakes(data)
     /\ \/ Short(data) /\ Keep(SubSeq(data, Taken(data) + 1, Len(data)))
        \/ ~Short(data) /\ UNCHANGED <<send_buffer, writing, edge, nospace>>
  \/ send_buffer = <<>> /\ WriteFails

(* Send puts header and body into one array, and goes on like SendInternal. *)
Send(data) == SendInternal(data)

(* Send2 leaves the writing to epoll.                                      *)
Send2(data) == NoWrite /\ Keep(data)

sendUnchanged == <<peerVars, inVars, read_by_peer, channelVars>>

Continue == pc' = IF "OUT" \in events THEN "write" ELSE "epoll"

(* Mutant: only the length of the body is reset for the next message.      *)
NextMessageKeepsHeader == read_body_length' = 0 /\ UNCHANGED header

NextMessage == header' = <<>> /\ read_body_length' = 0

(* SendWithTwoSysCall sends the header here, and the body in SendBody.     *)
SendWithTwoSysCall == SendInternal(Header(Len(read_buffer))) /\ pc' = "body"

(* onMessage of the echo server: answer if the connection is still open.   *)
OnMessage ==
  \/ /\ state = "Connected"
     /\ \/ "Send2" \in SendApis /\ Send2(Header(Len(read_buffer)) \o read_buffer) /\ Continue
        \/ "Send" \in SendApis /\ Send(Header(Len(read_buffer)) \o read_buffer) /\ Continue
        \/ "SendWithTwoSysCall" \in SendApis /\ SendWithTwoSysCall
  \/ /\ state # "Connected"
     /\ Continue
     /\ NoWrite /\ UNCHANGED <<send_buffer, writing, edge, nospace>>

(* The rest of HandleMessage.                                              *)
HandleMessage ==
  /\ pc = "message" /\ ~killed
  /\ \/ /\ ready_to_handle_message
        /\ OnMessage
        /\ ready_to_handle_message' = FALSE
        /\ NextMessage
     \/ /\ ~ready_to_handle_message
        /\ Continue
        /\ NoWrite /\ UNCHANGED <<send_buffer, writing, edge, nospace, header,
                                  read_body_length, ready_to_handle_message>>
  /\ UNCHANGED <<sendUnchanged, length, read_buffer>>

(* The second call of SendWithTwoSysCall; bytes may come in between.       *)
SendBody ==
  /\ pc = "body" /\ ~killed
  /\ SendInternal(read_buffer)
  /\ Continue
  /\ UNCHANGED <<sendUnchanged, parseVars>>

(* Retrieve of the buffer: see Buffer.                                     *)
Retrieve(n) == send_buffer' = SubSeq(send_buffer, n + 1, Len(send_buffer))

(* Mutant: a closed connection does not write any more.                    *)
WriteNonBlockingOpen ==
  /\ pc = "write" /\ ~killed
  /\ \/ /\ state = "Connected"
        /\ WriteTakes(send_buffer) /\ Retrieve(Taken(send_buffer))
        /\ UNCHANGED <<writing, edge, nospace>>
     \/ /\ state = "Disconected"
        /\ UNCHANGED <<written, send_buffer, sk_err, killed, state, nospace, writing, edge>>
  /\ pc' = "epoll"
  /\ UNCHANGED <<sendUnchanged, parseVars>>

(* WriteNonBlocking, the write callback: one write, whatever the state.    *)
WriteNonBlocking ==
  /\ pc = "write" /\ ~killed
  /\ \/ /\ WriteTakes(send_buffer) /\ Retrieve(Taken(send_buffer))
        /\ \/ /\ Short(send_buffer) /\ Taken(send_buffer) = 0
              /\ EnableWrite
           \/ /\ Short(send_buffer) => Taken(send_buffer) > 0
              /\ nospace' = (nospace \/ Short(send_buffer))
              /\ UNCHANGED <<writing, edge>>
     \/ WriteFails
  /\ pc' = "epoll"
  /\ UNCHANGED <<sendUnchanged, parseVars>>

(* Mutant: it is run where the close is found, not by the loop later on.   *)
ConnectionDestructorAtOnce ==
  /\ registered /\ state = "Disconected" /\ ~killed
  /\ registered' = FALSE /\ edge' = FALSE
  /\ UNCHANGED <<peerVars, inVars, outVars, sk_err, pc, events, writing, state,
                 parseVars, send_buffer, killed>>

(* The close reaches the loop again as ConnectionDestructor: see Server.   *)
ConnectionDestructor ==
  /\ pc = "epoll" /\ registered /\ state = "Disconected" /\ ~killed
  /\ registered' = FALSE /\ edge' = FALSE
  /\ UNCHANGED <<peerVars, inVars, outVars, sk_err, pc, events, writing, state,
                 parseVars, send_buffer, killed>>

Thread ==
  \/ EpollWait \/ Read \/ HandleMessage \/ SendBody \/ WriteNonBlocking
  \/ ConnectionDestructor

Peer == PeerSend \/ PeerShutdown \/ PeerReset \/ PeerRead \/ Deliver \/ DeliverEnd

Next == Thread \/ Peer

(***************************************************************************)
(* The thread of the loop runs, and TCP delivers what was sent.  That the  *)
(* peer reads its answers is assumed by what needs it, by name.            *)
(***************************************************************************)
Spec == Init /\ [][Next]_vars
Fairness == WF_vars(Thread) /\ WF_vars(Deliver) /\ WF_vars(DeliverEnd)
FairSpec == Spec /\ Fairness /\ WF_vars(PeerRead)

-----------------------------------------------------------------------------
(***************************************************************************)
(* The answers are the requests: what the server has written or still has  *)
(* to write is an initial part of what the peer sent, byte for byte,       *)
(* however the network cuts the stream and the kernel cuts the writes      *)
(* (connection.cpp:103-216, 228-319).                                      *)
(***************************************************************************)
EchoInOrder == IsPrefix(written \o send_buffer, stream)

(***************************************************************************)
(* Reading stays in step with the stream: while the connection is open,    *)
(* the bytes taken are the whole messages answered and the part of the     *)
(* next one in header and read_buffer (connection.cpp:79-90, 228-301).     *)
(***************************************************************************)
InStep ==
  state = "Connected" /\ ~killed /\ pc # "body" =>
    taken = Len(written) + Len(send_buffer) + Len(header) + read_body_length

(***************************************************************************)
(* The connection implements EchoService: what was written is not taken    *)
(* back, comes from the stream, and after the channel has left epoll, or   *)
(* the process has ended, nothing is written any more, though a close that *)
(* is found in the read callback is followed by the write callback of the  *)
(* same event (channel.cpp:30-39, connection.cpp:46-77, 303-319).          *)
(***************************************************************************)
Packets == {Header(n) \o Body(i, n) : n \in Lengths, i \in 1 .. MaxMessages}

Service == INSTANCE EchoService
             WITH Messages <- Packets, asked <- stream, answered <- written,
                  hung_up <- killed \/ ~registered

ImplementsEcho == Service!Spec

(***************************************************************************)
(* The send buffer is used as the queue of bytes that Buffer implements:   *)
(* bytes are appended, and retrieved from the front (connection.cpp:       *)
(* 103-216, 303-319).                                                      *)
(***************************************************************************)
SendBuffer == INSTANCE ByteQueue WITH Messages <- Seq(Bytes), queue <- send_buffer

UsesByteQueue == SendBuffer!Spec

(***************************************************************************)
(* Every message the protocol allows is answered, while the peer stays and *)
(* reads: although the edge-triggered loop stops reading after one message *)
(* and writes once per event (connection.cpp:273-276, 303-319).            *)
(***************************************************************************)
AllAllowed == \A j \in DOMAIN sent : sent[j] <= MAX_TLV_LENGTH

EveryMessageAnswered ==
  [](peer = "open" /\ AllAllowed) => <>[](written = stream)

(***************************************************************************)
(* A peer that only shuts down its side gets the answers to all it had     *)
(* sent, if the kernel has room for them: the end of the stream closes the *)
(* connection, but the write callback of the same event still flushes the  *)
(* send buffer (channel.cpp:30-39, connection.cpp:285-297, 303-306).       *)
(***************************************************************************)
HalfCloseAnswered ==
  [](~Reset /\ AllAllowed /\ Len(stream) <= SendSpace) => <>[](written = stream)

(***************************************************************************)
(* When the stream has ended or was reset the connection is closed, and    *)
(* the channel taken out of epoll, whatever was unread or unsent           *)
(* (connection.cpp:260-266, 285-297).                                      *)
(***************************************************************************)
EndCloses == EndOfInput ~> (killed \/ ~registered)

(***************************************************************************)
(* A thread leaves a connection alone only when nothing is left to do for  *)
(* it, or an edge will follow.  Asleep, bytes wait in the send buffer only *)
(* for space the kernel watches for, whatever function sent them; and if   *)
(* Send2 did, no message that arrived whole is without an answer, no byte  *)
(* is left in the socket, and the end of the stream was seen.  And when    *)
(* the channel has left epoll without a reset or a message that was too    *)
(* long, all was answered, provided the kernel had room for it             *)
(* (connection.cpp:103-216, 228-319, channel.cpp:30-39).                   *)
(***************************************************************************)
Asleep == pc = "epoll" /\ ~edge /\ registered /\ ~killed

Output == written \o send_buffer

FlushedAtRest ==
  Asleep /\ ~Reset /\ send_buffer # <<>> => writing /\ nospace /\ Space(written) = 0

(* The first message without an answer is there, to its last byte.         *)
MessageWaits ==
  Len(Output) + TLV_HEADER_LENGTH + stream[Len(Output) + 1][2] <= arrived

ReadAtRest ==
  Asleep /\ state = "Connected" =>
    /\ Available = 0 /\ ~EndOfInput
    /\ Len(Output) < Len(stream) => ~MessageWaits

(* Neither cut off, nor answered with more than the kernel takes at once.  *)
Unhindered == ~Reset /\ AllAllowed /\ Len(stream) <= SendSpace

AnsweredAtEnd == ~registered /\ Unhindered => written = stream

AnsweredAtRest ==
  FlushedAtRest /\ (SendApis = {"Send2"} => ReadAtRest) /\ AnsweredAtEnd

(***************************************************************************)
(* connection.h:47: the callback runs when a message has been received.    *)
(***************************************************************************)
ReceivedMessageHandled ==
  (peer = "open" /\ AllAllowed /\ arrived = Len(stream))
    ~> (taken = Len(stream) \/ peer # "open" \/ arrived # Len(stream) \/ ~AllAllowed)

-----------------------------------------------------------------------------
(***************************************************************************)
(* Why reading stays in step: the invariant of ConnectionProofs.           *)
(***************************************************************************)

(* The message that is being read begins behind this byte.                 *)
Pos == taken - Len(header) - read_body_length

(* The bytes behind which a message begins, the end of the stream included. *)
Heads ==
  {p \in 0 .. Len(stream) : p = Len(stream) \/ (stream[p + 1][1] = "len" /\ stream[p + 1][3] = 1)}

(* The stream is cut into whole messages.                                  *)
FramedInv ==
  /\ 0 \in Heads
  /\ \A p \in Heads \ {Len(stream)} : \E n \in Lengths :
       /\ p + TLV_HEADER_LENGTH + n \in Heads
       /\ \A k \in 1 .. TLV_HEADER_LENGTH : stream[p + k] = <<"len", n, k>>

(* header and read_buffer hold the beginning of one of them.               *)
ParseInv ==
  /\ Pos \in Heads
  /\ \A k \in 1 .. Len(header) : header[k] = stream[Pos + k]
  /\ \A k \in 1 .. read_body_length : read_buffer[k] = stream[Pos + TLV_HEADER_LENGTH + k]
  /\ Len(header) < TLV_HEADER_LENGTH => read_body_length = 0 /\ ~ready_to_handle_message
  /\ Len(header) = TLV_HEADER_LENGTH =>
       /\ length = header[1][2]
       /\ IF length > MAX_TLV_LENGTH THEN state = "Disconected" /\ ~ready_to_handle_message
                                     ELSE Len(read_buffer) = length
  /\ ready_to_handle_message => pc = "message" /\ read_body_length = length
  /\ pc = "body" => header = <<>> /\ read_body_length = 0

(* All before it has been answered; between the two calls of               *)
(* SendWithTwoSysCall, all but the body that is in read_buffer.            *)
AnswerInv ==
  /\ state = "Connected" /\ pc # "body" => Pos = Len(Output)
  /\ state = "Connected" /\ pc = "body" =>
       /\ taken = Len(Output) + Len(read_buffer)
       /\ \A k \in 1 .. Len(read_buffer) : read_buffer[k] = stream[Len(Output) + k]
  /\ state = "Disconected" /\ pc = "body" => Reset /\ send_buffer = <<>>

(* What is in the send buffer is about to be written, or an edge comes.    *)
FlushInv ==
  registered /\ ~killed /\ ~Reset /\ send_buffer # <<>> =>
    /\ writing
    /\ edge \/ (nospace /\ Space(written) = 0) \/ (pc # "epoll" /\ "OUT" \in events)

(* What is in the socket is about to be read, or an edge comes: at the     *)
(* latest from the Send2 that answers the message just read.               *)
ReadInv ==
  SendApis = {"Send2"} /\ registered /\ ~killed /\ state = "Connected"
    /\ (Available > 0 \/ EndOfInput)
    => edge \/ pc = "read" \/ (pc = "message" /\ ready_to_handle_message)

(* Reading stops short of a whole message, or hands it on.                 *)
PartInv ==
  state = "Connected" /\ pc # "read" /\ ~ready_to_handle_message
    /\ Len(header) = TLV_HEADER_LENGTH
    => read_body_length < length

RestInv == FlushInv /\ ReadInv /\ PartInv

(* Outside epoll nothing is left to come.                                  *)
GoneInv ==
  ~registered => pc = "epoll" /\ ~edge /\ state = "Disconected"

(* The headers announce what the peer sent.                                *)
HeaderInv ==
  \A p \in 1 .. Len(stream) : stream[p][1] = "len" => \E j \in DOMAIN sent : stream[p][2] = sent[j]

(* The end of the stream is behind all of it.                              *)
FinInv ==
  /\ fin => peer # "open" /\ arrived = Len(stream)
  /\ killed => Reset

(* Answers that the kernel has room for are written by the event in which  *)
(* the end is found: it was reported with EPOLLOUT, since the message they *)
(* answer was handled in an earlier one.                                   *)
EndInv ==
  Unhindered =>
    /\ send_buffer # <<>> /\ pc = "read" => "OUT" \in events
    /\ state = "Disconected" =>
         /\ fin /\ Output = stream
         /\ send_buffer # <<>> => pc \in {"read", "message", "write"} /\ "OUT" \in events

EndingInv == HeaderInv /\ FinInv /\ EndInv

ConnectionInv == TypeOK /\ FramedInv /\ ParseInv /\ AnswerInv /\ EchoInOrder

=============================================================================
