--------------------------- MODULE MCHistoryWriter ---------------------------
(* Two or three entries, a call or two on any, and a process after the first. *)
EXTENDS HistoryWriter, TLC

(* Nothing tells one entry from another; for the run without liveness. *)
EntrySymmetry == Permutations(Entries)
=============================================================================
