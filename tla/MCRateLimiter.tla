--------------------------- MODULE MCRateLimiter ---------------------------
(* RateLimiter on an instance small enough for TLC. *)
EXTENDS RateLimiter

CONSTANTS a, b
============================================================================
