-------------------------- MODULE MCResponseOwnership --------------------------
(* Enough attempts for a retry in the driver, a replay, and a retry in it. *)
EXTENDS ResponseOwnership
=============================================================================
