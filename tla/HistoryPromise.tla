--------------------------- MODULE HistoryPromise ---------------------------
(***************************************************************************)
(* What the history promises about an entry, with no queues, tasks,        *)
(* segments, index or processes: it is accepted once, and then either kept *)
(* or not before its receipt, which says which of the two it was. What is  *)
(* kept can be read back for good; what was said to have failed, or was    *)
(* lost with the process before it was kept, never turns up.               *)
(***************************************************************************)
CONSTANT Entries

VARIABLES
  said,   (* what became of each entry, as far as its submitter can know     *)
  kept    (* the entries that can be read back                               *)

promise == <<said, kept>>

Init == said = [e \in Entries |-> "none"] /\ kept = {}

Submit(e) ==
  /\ said[e] = "none"
  /\ said' = [said EXCEPT ![e] = "accepted"]
  /\ UNCHANGED kept

Keep(e) ==
  /\ said[e] = "accepted" /\ e \notin kept
  /\ kept' = kept \cup {e}
  /\ UNCHANGED said

(* The receipt tells the truth. *)
Tell(e) ==
  /\ said[e] = "accepted"
  /\ said' = [said EXCEPT ![e] = IF e \in kept THEN "durable" ELSE "failed"]
  /\ UNCHANGED kept

(* The process ends with receipts outstanding. *)
Lose ==
  /\ said' = [e \in Entries |-> IF said[e] = "accepted" THEN "lost" ELSE said[e]]
  /\ UNCHANGED kept

Next == (\E e \in Entries : Submit(e) \/ Keep(e) \/ Tell(e)) \/ Lose

Spec == Init /\ [][Next]_promise

FairSpec == Spec /\ \A e \in Entries : WF_promise(Tell(e))
=============================================================================
