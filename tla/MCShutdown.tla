----------------------------- MODULE MCShutdown -----------------------------
(* Shutdown with three connections and both listeners. The clients are         *)
(* interchangeable, but the liveness properties forbid using the symmetry.   *)
EXTENDS Shutdown
=============================================================================
