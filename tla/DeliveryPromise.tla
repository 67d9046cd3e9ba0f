-------------------------- MODULE DeliveryPromise --------------------------
(***************************************************************************)
(* What block delivery promises a streaming client, with no driver, no     *)
(* assembler, no buffer and no policy: the reply grows by whole blocks of  *)
(* one source; the source may be replaced only while nothing of it has     *)
(* been shown; the reply ends once, and then nothing changes any more.     *)
(***************************************************************************)
EXTENDS Integers, Sequences

VARIABLES
  source,   (* the upstream attempt the reply is taken from *)
  shown,    (* the blocks the client holds                  *)
  outcome   (* "open", or how the reply ended               *)

promise == <<source, shown, outcome>>

Init == source = 1 /\ shown = <<>> /\ outcome = "open"

(* Another attempt stands in for one the client has seen nothing of. *)
Replace ==
  /\ outcome = "open" /\ shown = <<>>
  /\ source' = source + 1
  /\ UNCHANGED <<shown, outcome>>

(* The next k blocks of the source. *)
NextBlocks(k) ==
  [i \in 1 .. k |-> [attempt |-> source, index |-> Len(shown) + i - 1]]

(* Blocks are shown, the reply ends, or both at once. *)
Advance ==
  /\ outcome = "open"
  /\ UNCHANGED source
  /\ Len(shown) <= Len(shown')
  /\ shown' = shown \o NextBlocks(Len(shown') - Len(shown))
  /\ outcome' # "open" \/ shown' # shown

Next == Replace \/ Advance

Spec == Init /\ [][Next]_promise

FairSpec == Spec /\ <>(outcome # "open")
============================================================================
