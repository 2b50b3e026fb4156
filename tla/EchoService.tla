------------------------------ MODULE EchoService ------------------------------
(***************************************************************************)
(* What the echo server promises the client of one connection: it writes   *)
(* back the bytes it was sent, in order and each once, in pieces of any    *)
(* length, until it hangs up; then it writes nothing any more.  Clients    *)
(* assumes no more of the server, Connection shows no less.                *)
(***************************************************************************)
EXTENDS SequencesExt

CONSTANT Messages   \* the byte sequences a client may send

VARIABLES
  asked,      \* the bytes the client sent
  answered,   \* the bytes the server wrote
  hung_up     \* the server is done with the connection

vars == <<asked, answered, hung_up>>

Init == asked = <<>> /\ answered = <<>> /\ hung_up = FALSE

(* The client does not know yet whether the server hung up.                *)
Ask ==
  /\ \E message \in Messages : asked' = asked \o message
  /\ UNCHANGED <<answered, hung_up>>

Answer ==
  /\ ~hung_up
  /\ IsPrefix(answered, answered') /\ IsPrefix(answered', asked)
  /\ UNCHANGED <<asked, hung_up>>

HangUp ==
  /\ ~hung_up /\ hung_up' = TRUE
  /\ UNCHANGED <<asked, answered>>

Next == Ask \/ Answer \/ HangUp

Spec == Init /\ [][Next]_vars
=============================================================================
