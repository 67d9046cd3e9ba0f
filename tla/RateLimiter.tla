---------------------------- MODULE RateLimiter ----------------------------
(***************************************************************************)
(* One provider's rate limiter and the upstream attempts of the requests   *)
(* that share it (pipeline/rate_limiting.py, and the calls                 *)
(* direct_driver/base.py and driver.py make to it).                        *)
(*                                                                         *)
(* Every instant the code compares is kept as what is left until it, or as *)
(* how long ago it was: the clock itself never matters. A caller that must *)
(* wait computes its wait once, sleeps it outside the limiter, and only    *)
(* writes the schedule again when it wakes; everything else a caller does  *)
(* to the limiter happens between two awaits.                              *)
(***************************************************************************)
EXTENDS Integers

CONSTANTS
  Callers,               (* requests that share this provider                  *)
  RetryInterval,         (* reactive_rate_limiter.retry_interval               *)
  RequestInterval,       (* .request_interval                                  *)
  RecoveryInterval,      (* .recovery_interval                                 *)
  ConsecutiveSuccesses,  (* .consecutive_successes                             *)
  BackoffBase,           (* .failure_backoff_base_sec                          *)
  BackoffMax,            (* .failure_backoff_max_sec                           *)
  Paces,                 (* spacings a response's budget headers may ask for   *)
  RetryAfters,           (* Retry-After a limiting answer may carry            *)
  MaxStreak              (* bound: failures in a row                           *)

ASSUME LimiterAssumption ==
  /\ RetryInterval \in Nat
  /\ RequestInterval \in Nat
  /\ RecoveryInterval \in Nat
  /\ ConsecutiveSuccesses \in Nat \ {0}
  /\ BackoffBase \in Nat
  /\ BackoffMax \in Nat
  /\ Paces \subseteq Nat
  /\ RetryAfters \subseteq Nat
  /\ MaxStreak \in Nat

Modes == {"normal", "limited", "recovering"}

(* "idle": between attempts, or gone. "sent": waiting for headers.          *)
(* "noting": a limiting answer was observed and its subscribers are being   *)
(* told. "streaming": a success was observed and delivery reads the body.   *)
Phases == {"idle", "waiting", "sent", "noting", "streaming"}

VARIABLES
  mode, limitedFor,         (* how long ago the last limiting answer came      *)
  next,                     (* left until _next_allowed, 0 when it has passed  *)
  pace,                     (* _proactive_interval                             *)
  successes, failures,
  phase, left,              (* each caller's attempt, and what is left to sleep *)
  (* History, read by the properties only. *)
  demand,                   (* left of the holds failures and limits asked for *)
  owed,                     (* what was left of them when a caller asked       *)
  asked,                    (* left of the last Retry-After upstream sent      *)
  earned                    (* successes since recovering                      *)

limiter == <<mode, limitedFor, next, pace, successes, failures>>
callers == <<phase, left>>
history == <<demand, owed, asked, earned>>
vars == <<limiter, callers, history>>

Later(a, b) == IF a >= b THEN a ELSE b

(* Mutant: a wait that is over goes on below zero. *)
LessUnclamped(t) == t - 1

Less(t) == IF t > 0 THEN t - 1 ELSE 0

TypeOK ==
  /\ mode \in Modes
  /\ limitedFor \in 0 .. RecoveryInterval
  /\ next \in Nat
  /\ pace \in Nat
  /\ successes \in Nat /\ failures \in 0 .. MaxStreak
  /\ phase \in [Callers -> Phases]
  /\ left \in [Callers -> Nat]
  /\ demand \in Nat /\ owed \in [Callers -> Nat] /\ asked \in Nat
  /\ earned \in 0 .. ConsecutiveSuccesses

Init ==
  /\ mode = "normal" /\ limitedFor = RecoveryInterval
  /\ next = 0 /\ pace = 0 /\ successes = 0 /\ failures = 0
  /\ phase = [c \in Callers |-> "idle"]
  /\ left = [c \in Callers |-> 0]
  /\ demand = 0 /\ owed = [c \in Callers |-> 0] /\ asked = 0
  /\ earned = ConsecutiveSuccesses

-----------------------------------------------------------------------------
(* acquire                                                                   *)

(* _failure_backoff: base, 2 base, 4 base, ... up to the cap. *)
FailureBackoff(streak) ==
  IF streak = 0 THEN 0
  ELSE IF BackoffBase * 2 ^ (streak - 1) <= BackoffMax
       THEN BackoffBase * 2 ^ (streak - 1)
       ELSE BackoffMax

Spacing(m) == IF m = "normal" THEN pace ELSE Later(RequestInterval, pace)

MayRecover == mode = "limited" /\ limitedFor >= RecoveryInterval

(* _maybe_start_recovering, the first thing acquire does. *)
StartRecovering ==
  IF MayRecover
  THEN mode' = "recovering" /\ successes' = 0 /\ earned' = 0
  ELSE UNCHANGED <<mode, successes, earned>>

(* Mutant: the wake-up assigns the schedule, as it once did. *)
RescheduledAfresh(m) == Spacing(m)

(* The next slot once an attempt goes out: never earlier than it stands. *)
Rescheduled(m) == Later(next, Spacing(m))

(* Nothing to wait for: the attempt goes out at once. *)
AcquireAtOnce(c) ==
  /\ phase[c] = "idle" /\ next = 0
  /\ StartRecovering
  /\ next' = Rescheduled(mode')
  /\ phase' = [phase EXCEPT ![c] = "sent"]
  /\ owed' = [owed EXCEPT ![c] = demand]
  /\ UNCHANGED <<limitedFor, pace, failures, left, demand, asked>>

(* The wait is what is left now; nothing that happens meanwhile changes it. *)
Sleep(c) ==
  /\ phase[c] = "idle" /\ next > 0
  /\ StartRecovering
  /\ phase' = [phase EXCEPT ![c] = "waiting"]
  /\ left' = [left EXCEPT ![c] = next]
  /\ owed' = [owed EXCEPT ![c] = demand]
  /\ UNCHANGED <<limitedFor, next, pace, failures, demand, asked>>

(* Mutant: the woken caller looks at the schedule again, and may sleep on. *)
WakeAndLookAgain(c) ==
  /\ phase[c] = "waiting" /\ left[c] = 0
  /\ IF next > 0
     THEN left' = [left EXCEPT ![c] = next] /\ UNCHANGED <<next, phase>>
     ELSE /\ next' = Rescheduled(mode)
          /\ phase' = [phase EXCEPT ![c] = "sent"]
          /\ UNCHANGED left
  /\ UNCHANGED <<mode, limitedFor, pace, successes, failures,
                 demand, owed, asked, earned>>

Wake(c) ==
  /\ phase[c] = "waiting" /\ left[c] = 0
  /\ next' = Rescheduled(mode)
  /\ phase' = [phase EXCEPT ![c] = "sent"]
  /\ UNCHANGED <<mode, limitedFor, pace, successes, failures, left,
                 demand, owed, asked, earned>>

-----------------------------------------------------------------------------
(* What an attempt comes to.                                                 *)

(* note_failure: the streak grows, and the next attempt is held back. *)
NoteFailure ==
  /\ failures < MaxStreak
  /\ failures' = failures + 1
  /\ next' = Later(next, FailureBackoff(failures'))
  /\ demand' = Later(demand, FailureBackoff(failures'))

(* Mutant: one success is enough. *)
EnoughAtOnce(count) == count >= 1

Enough(count) == count >= ConsecutiveSuccesses

(* observe_success: the budget headers are read, the streak is over, and a   *)
(* recovering limiter counts it.                                             *)
Succeed(c, advertised) ==
  /\ phase[c] = "sent"
  /\ pace' = advertised
  /\ failures' = 0
  /\ IF mode = "recovering"
     THEN IF Enough(successes + 1)
          THEN mode' = "normal" /\ successes' = 0
          ELSE successes' = successes + 1 /\ UNCHANGED mode
     ELSE UNCHANGED <<mode, successes>>
  /\ phase' = [phase EXCEPT ![c] = "streaming"]
  /\ earned' = IF earned < ConsecutiveSuccesses THEN earned + 1 ELSE earned
  /\ UNCHANGED <<limitedFor, next, left, demand, owed, asked>>

(* A 429 or 502. The answer reaches _handle_failure as an exception whose    *)
(* headers _upstream_status does not find, so observe_failure waits          *)
(* retry_interval whatever Retry-After said.                                 *)
Limited(c, retryAfter) ==
  /\ phase[c] = "sent"
  /\ mode' = "limited" /\ limitedFor' = 0 /\ successes' = 0
  /\ next' = RetryInterval
  /\ phase' = [phase EXCEPT ![c] = "noting"]
  /\ demand' = RetryInterval
  /\ asked' = retryAfter
  /\ UNCHANGED <<pace, failures, left, owed, earned>>

(* The attempt is counted as failed: a limiting answer once its subscribers  *)
(* were told; any other retryable failure before the headers (401, 500, 503, *)
(* 504, a timeout, a torn connection); its own deadline while it still       *)
(* sleeps, though nothing was sent; or a torn body that delivery reopens.    *)
Fail(c) ==
  /\ phase[c] # "idle"
  /\ NoteFailure
  /\ phase' = [phase EXCEPT ![c] = "idle"]
  /\ left' = [left EXCEPT ![c] = 0]
  /\ UNCHANGED <<mode, limitedFor, pace, successes, owed, asked, earned>>

(* The attempt ends without a word to the limiter: the body is over, the     *)
(* failure is not retryable, or the client went away.                        *)
Leave(c) ==
  /\ phase[c] # "idle"
  /\ phase' = [phase EXCEPT ![c] = "idle"]
  /\ left' = [left EXCEPT ![c] = 0]
  /\ UNCHANGED <<limiter, history>>

(* One unit of time. *)
Tick ==
  /\ next' = Less(next)
  /\ left' = [c \in Callers |-> Less(left[c])]
  /\ limitedFor' = IF limitedFor < RecoveryInterval THEN limitedFor + 1 ELSE limitedFor
  /\ demand' = Less(demand)
  /\ owed' = [c \in Callers |-> Less(owed[c])]
  /\ asked' = Less(asked)
  /\ UNCHANGED <<mode, pace, successes, failures, phase, earned>>

Next ==
  \/ \E c \in Callers :
       \/ AcquireAtOnce(c) \/ Sleep(c) \/ Wake(c)
       \/ \E advertised \in Paces : Succeed(c, advertised)
       \/ \E retryAfter \in RetryAfters : Limited(c, retryAfter)
       \/ Fail(c) \/ Leave(c)
  \/ Tick

Spec == Init /\ [][Next]_vars

(* Time passes, and a sleep that is over is resumed. *)
Fairness == WF_vars(Tick) /\ \A c \in Callers : WF_vars(Wake(c))

FairSpec == Spec /\ Fairness
-----------------------------------------------------------------------------
(* Properties.                                                               *)

(* An attempt goes out.                                                      *)
Departs(c) == phase[c] # "sent" /\ phase'[c] = "sent"

(* The limiter is shared, and still no attempt goes out before every hold    *)
(* that failures and limiting answers had asked for when it called acquire   *)
(* is over: neither another caller's wake-up nor a shorter backoff erases a  *)
(* hold. (A new limiting answer replaces the earlier holds by its own.)      *)
HoldsKept ==
  [][\A c \in Callers : Departs(c) => (IF phase[c] = "idle" THEN demand ELSE owed[c]) = 0]_vars

(* A limiter that has been limited is normal again only when the recovery    *)
(* interval has passed since the last limiting answer, whoever received it,  *)
(* and enough successes were reported since it began to recover, however     *)
(* attempts sent before and after the limit interleave.                      *)
RecoveryEarned ==
  mode = "normal" => limitedFor = RecoveryInterval /\ earned = ConsecutiveSuccesses

(* No caller is told to wait longer than the longest single hold: callers    *)
(* that queue do not push one another further away.                          *)
WaitsBounded ==
  \A c \in Callers :
    \E hold \in Paces \cup {0, RetryInterval, RequestInterval, BackoffMax} : left[c] <= hold

(* A caller that sleeps is resumed, or leaves, whatever the others do.       *)
EveryWaitEnds == \A c \in Callers : phase[c] = "waiting" ~> phase[c] # "waiting"

(* A statement the repository makes that the code does not keep.             *)

(* The rate limiter reads Retry-After (exceptions.py:65): nothing that asks  *)
(* after a limiting answer is sent before its Retry-After has passed.        *)
RetryAfterHonoured ==
  [][\A c \in Callers : phase[c] = "idle" /\ Departs(c) => asked = 0]_vars
=============================================================================
