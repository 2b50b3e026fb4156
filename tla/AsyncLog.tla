------------------------------- MODULE AsyncLog -------------------------------
(***************************************************************************)
(* What the asynchronous logger promises whoever logs (logger.cpp): the    *)
(* messages it accepts reach the file in the order of acceptance, each     *)
(* once, until the file cannot be written any more.  The message at which  *)
(* this happens is lost; those behind it wait for ever.                    *)
(***************************************************************************)
EXTENDS Sequences

CONSTANT Messages

VARIABLES
  waiting,   \* accepted and not yet written
  file,      \* what has been written
  broken,    \* the file cannot be written
  ended      \* the process has ended

vars == <<waiting, file, broken, ended>>

Init == waiting = <<>> /\ file = <<>> /\ broken = FALSE /\ ended = FALSE

Accept(m) ==
  /\ ~ended
  /\ waiting' = Append(waiting, m)
  /\ UNCHANGED <<file, broken, ended>>

WriteHead ==
  /\ ~ended /\ ~broken /\ waiting # <<>>
  /\ file' = Append(file, Head(waiting))
  /\ waiting' = Tail(waiting)
  /\ UNCHANGED <<broken, ended>>

(* The file was never opened, or the write of the first message failed.    *)
Break ==
  /\ ~ended /\ ~broken
  /\ broken' = TRUE
  /\ \/ UNCHANGED waiting
     \/ waiting # <<>> /\ waiting' = Tail(waiting)
  /\ UNCHANGED <<file, ended>>

End ==
  /\ ~ended
  /\ ended' = TRUE
  /\ UNCHANGED <<waiting, file, broken>>

Next == (\E m \in Messages : Accept(m)) \/ WriteHead \/ Break \/ End

Safety == Init /\ [][Next]_vars

(* No accepted message waits for ever while the file can be written.       *)
Spec == Safety /\ WF_vars(waiting # <<>> /\ (WriteHead \/ Break))
=============================================================================
