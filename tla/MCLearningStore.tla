--------------------------- MODULE MCLearningStore ---------------------------
(* A sample and a use of an anchor, two predictions, two callers of close. *)
EXTENDS LearningStore, TLC

(* Nothing tells one prediction from another; for the run without liveness. *)
ReadSymmetry == Permutations(Reads)
=============================================================================
