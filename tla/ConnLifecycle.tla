--------------------------- MODULE ConnLifecycle ---------------------------
(***************************************************************************)
(* The life of a connection as the rest of the server relies on it: it is  *)
(* opened on a descriptor nobody else owns, its close begins once, and     *)
(* only then is it destroyed and its descriptor given back.  Threads,      *)
(* queues, reference counts and epoll are not visible here.                *)
(***************************************************************************)
CONSTANTS Conns, Fds, NoFd

VARIABLES
  phase,   \* [Conns -> {"new", "open", "closing", "gone"}]
  owns     \* [Conns -> Fds \cup {NoFd}]: the descriptor the connection owns

vars == <<phase, owns>>

Init ==
  /\ phase = [c \in Conns |-> "new"]
  /\ owns = [c \in Conns |-> NoFd]

Open(c) ==
  /\ phase[c] = "new"
  /\ phase' = [phase EXCEPT ![c] = "open"]
  /\ \E fd \in Fds \ {owns[d] : d \in Conns} : owns' = [owns EXCEPT ![c] = fd]

Close(c) ==
  /\ phase[c] = "open"
  /\ phase' = [phase EXCEPT ![c] = "closing"]
  /\ UNCHANGED owns

(* Several connections may be destroyed together.                          *)
Destroy ==
  \E cs \in SUBSET {c \in Conns : phase[c] = "closing"} :
    /\ phase' = [c \in Conns |-> IF c \in cs THEN "gone" ELSE phase[c]]
    /\ owns' = [c \in Conns |-> IF c \in cs THEN NoFd ELSE owns[c]]

Next == (\E c \in Conns : Open(c) \/ Close(c)) \/ Destroy

Spec == Init /\ [][Next]_vars
=============================================================================
