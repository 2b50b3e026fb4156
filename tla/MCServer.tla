------------------------------ MODULE MCServer ------------------------------
(* Constants of the TLC runs of Server.                                    *)
EXTENDS Server, FiniteSetsExt, TLC

CONSTANTS main, sub1, sub2, c1, c2, fd1, fd2

NoLoops == <<>>
OneLoop == <<sub1>>
TwoLoops == <<sub1, sub2>>

UpToTwo == {NoLoops, OneLoop, TwoLoops}
UpToOne == {NoLoops, OneLoop}
One == {OneLoop}

Symmetry == Permutations(Conns) \cup Permutations(Fds)

(* The more sub reactors, the fewer messages and failures: with two, the   *)
(* clients only connect and close.                                         *)
Bounded ==
  Len(event_loops) + failures + MapThenSumSet(LAMBDA c : unread[c], Conns) <= 2
=============================================================================
