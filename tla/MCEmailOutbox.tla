--------------------------- MODULE MCEmailOutbox ----------------------------
(* Instances of EmailOutbox for TLC.                                       *)
EXTENDS EmailOutbox, TLC

WorkerSymmetry == Permutations(Workers)
=============================================================================
