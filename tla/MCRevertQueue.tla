---------------------------- MODULE MCRevertQueue ----------------------------
(* Instances of RevertQueue for TLC.                                       *)
EXTENDS RevertQueue, TLC

Symmetry == Permutations(Receiver)
=============================================================================
