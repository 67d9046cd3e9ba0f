------------------------------ MODULE MCPidfile ------------------------------
(* Three processes on three numbers, which strangers use too. *)
EXTENDS Pidfile
=============================================================================
