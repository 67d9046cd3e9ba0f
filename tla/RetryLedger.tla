---------------------------- MODULE RetryLedger ----------------------------
(***************************************************************************)
(* The retry budget of one client request (pipeline/retry.py).             *)
(* `RetryLedger` spends a shared total and a per-reason counter together.  *)
(* One ledger is built on first use and kept on the request, so the        *)
(* attempts the driver opens before the response headers and the replays   *)
(* delivery opens after them draw on the same record (driver.ledger_for).  *)
(***************************************************************************)
EXTENDS Integers

CONSTANTS
  Reasons,    (* the named strategies: githubTokenExpired, network, serverError *)
  MaxTotal,   (* upstream_request_retry.max_total                               *)
  Limit       (* the max_retries of each strategy                               *)

ASSUME LedgerAssumption ==
  /\ MaxTotal \in Nat
  /\ Limit \in [Reasons -> Nat]

Ledger == [total: Nat, per: [Reasons -> Nat]]

EmptyLedger == [total |-> 0, per |-> [r \in Reasons |-> 0]]

(* Mutant: the shared total is compared inclusively. *)
FundedInclusive(ledger, r) ==
  /\ ledger.total <= MaxTotal
  /\ ledger.per[r] < Limit[r]

(* `consider`: whether one more attempt is funded, spending nothing. *)
Funded(ledger, r) ==
  /\ ledger.total < MaxTotal
  /\ ledger.per[r] < Limit[r]

(* The allowed half of `take`: both counters move together. *)
Spend(ledger, r) ==
  [total |-> ledger.total + 1, per |-> [ledger.per EXCEPT ![r] = @ + 1]]

WithinBudget(ledger) ==
  /\ ledger.total <= MaxTotal
  /\ \A r \in Reasons : ledger.per[r] <= Limit[r]
============================================================================
