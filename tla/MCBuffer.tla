------------------------------- MODULE MCBuffer -------------------------------
(* Constants of the TLC run of Buffer.                                     *)
EXTENDS Buffer, SequencesExt, TLC

CONSTANT MaxLen   \* length of the longest message

MCMessages == BoundedSeq(Bytes, MaxLen)

Symmetry == Permutations(Bytes)
=============================================================================
