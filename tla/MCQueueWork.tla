---- MODULE MCQueueWork ----
(***************************************************************************)
(* Instances of QueueWork for TLC.                                         *)
(***************************************************************************)
EXTENDS QueueWork, TLC

CONSTANTS w1, w2, r1, r2, k1, b1, b2

Symmetry == Permutations({w1, w2}) \cup Permutations({r1, r2})
====
