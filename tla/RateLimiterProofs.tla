------------------------- MODULE RateLimiterProofs -------------------------
(***************************************************************************)
(* The safety of RateLimiter for every set of callers and every interval.  *)
(*                                                                         *)
(* HoldsKept rests on Holding: the schedule is never ahead of what the     *)
(* holds still ask for, and a sleeper's wait covers what was asked when it *)
(* called. RecoveryEarned rests on Counting, which also says what a        *)
(* recovering limiter has counted so far. WaitsBounded rests on Bounded,   *)
(* which bounds the schedule the waits are read from.                      *)
(***************************************************************************)
EXTENDS RateLimiter, TLAPS

(* The schedule covers the holds, and a sleep the holds it was told of.      *)
Holding ==
  /\ demand <= next
  /\ \A c \in Callers : phase[c] = "waiting" => owed[c] <= left[c]

(* A limiter that recovers has waited, and what it counts came since.        *)
Counting ==
  /\ RecoveryEarned
  /\ mode = "recovering" =>
       /\ limitedFor = RecoveryInterval
       /\ earned = successes
       /\ successes < ConsecutiveSuccesses

(* The single holds a schedule can come from.                                *)
Holds == Paces \cup {0, RetryInterval, RequestInterval, BackoffMax}

Bounded ==
  /\ pace \in Paces \cup {0}
  /\ \E hold \in Holds : next <= hold
  /\ \A c \in Callers : \E hold \in Holds : left[c] <= hold

IInv == TypeOK /\ Holding /\ Counting /\ Bounded

-----------------------------------------------------------------------------
(* Lemmas on the operators of the limiter.                                   *)

LEMMA LaterBounds ==
  ASSUME NEW a \in Nat, NEW b \in Int
  PROVE  /\ Later(a, b) \in Nat
         /\ a <= Later(a, b) /\ b <= Later(a, b)
         /\ Later(a, b) \in {a, b}
  BY DEF Later

LEMMA LaterMonotone ==
  ASSUME NEW a \in Nat, NEW b \in Nat, NEW x \in Int, a <= b
  PROVE  Later(a, x) <= Later(b, x)
  BY DEF Later

LEMMA LessBounds ==
  ASSUME NEW t \in Nat
  PROVE  Less(t) \in Nat /\ Less(t) <= t
  BY DEF Less

LEMMA LessMonotone ==
  ASSUME NEW a \in Nat, NEW b \in Nat, a <= b
  PROVE  Less(a) <= Less(b)
  BY DEF Less

LEMMA HoldsType == Holds \subseteq Nat
  BY LimiterAssumption DEF Holds

(* A backoff is a number, and never above the cap. *)
LEMMA BackoffBounds ==
  ASSUME NEW n \in Nat \ {0}
  PROVE  FailureBackoff(n) \in Int /\ FailureBackoff(n) <= BackoffMax
<1>1. n - 1 \in Nat
  OBVIOUS
<1>2. 2 ^ (n - 1) \in Int
  BY <1>1
<1>3. BackoffBase \in Int /\ BackoffMax \in Int
  BY LimiterAssumption
<1> DEFINE power == 2 ^ (n - 1)
<1>4. BackoffBase * power \in Int
  BY <1>2, <1>3
<1>5. n # 0
  OBVIOUS
<1> HIDE DEF power
<1>6. FailureBackoff(n) = IF BackoffBase * power <= BackoffMax
                          THEN BackoffBase * power ELSE BackoffMax
  BY <1>5 DEF FailureBackoff, power
<1> QED
  BY <1>3, <1>4, <1>6

(* A spacing is a number and comes from one hold. *)
LEMMA SpacingBounds ==
  ASSUME NEW m, pace \in Nat, pace \in Paces \cup {0}
  PROVE  Spacing(m) \in Nat /\ Spacing(m) \in Holds
  BY LimiterAssumption DEF Spacing, Later, Holds

-----------------------------------------------------------------------------
LEMMA InitInvariant == Init => IInv
  BY LimiterAssumption
  DEF Init, IInv, TypeOK, Holding, Counting, RecoveryEarned, Bounded, Holds,
      Modes, Phases

(* What recovery may do at the head of an acquire. *)
LEMMA RecoveryStep ==
  ASSUME TypeOK, Counting, StartRecovering,
         UNCHANGED <<limitedFor>>
  PROVE  /\ mode' \in Modes /\ successes' \in Nat
         /\ earned' \in 0 .. ConsecutiveSuccesses
         /\ Counting'
  BY LimiterAssumption
  DEF TypeOK, Counting, RecoveryEarned, StartRecovering, MayRecover, Modes

LEMMA AcquireAtOnceStep ==
  ASSUME IInv, NEW c \in Callers, AcquireAtOnce(c)
  PROVE  IInv'
<1> USE DEF IInv
<1>1. Counting' /\ mode' \in Modes /\ successes' \in Nat
      /\ earned' \in 0 .. ConsecutiveSuccesses
  BY RecoveryStep DEF AcquireAtOnce
<1>2. Spacing(mode') \in Nat /\ Spacing(mode') \in Holds
  BY SpacingBounds DEF TypeOK, Bounded
<1>3. next' = Later(next, Spacing(mode'))
  BY DEF AcquireAtOnce, Rescheduled
<1>4. /\ next' \in Nat /\ next <= next'
      /\ next' \in {next, Spacing(mode')}
  BY <1>2, <1>3, LaterBounds DEF TypeOK
<1>5. TypeOK'
  BY <1>1, <1>4, LimiterAssumption DEF AcquireAtOnce, TypeOK, Phases
<1>6. Holding'
  <2>1. demand' <= next'
    BY <1>4 DEF AcquireAtOnce, TypeOK, Holding
  <2>2. ASSUME NEW d \in Callers, phase'[d] = "waiting"
        PROVE  owed'[d] <= left'[d]
    BY <2>2 DEF AcquireAtOnce, TypeOK, Holding
  <2> QED BY <2>1, <2>2 DEF Holding
<1>7. Bounded'
  <2>1. \E hold \in Holds : next' <= hold
    <3>1. CASE next' = next
      BY <3>1 DEF Bounded
    <3>2. CASE next' = Spacing(mode')
      BY <3>2, <1>2
    <3> QED BY <1>4, <3>1, <3>2
  <2> QED BY <2>1 DEF AcquireAtOnce, Bounded
<1> QED BY <1>1, <1>5, <1>6, <1>7

LEMMA SleepStep ==
  ASSUME IInv, NEW c \in Callers, Sleep(c)
  PROVE  IInv'
<1> USE DEF IInv
<1>1. Counting' /\ mode' \in Modes /\ successes' \in Nat
      /\ earned' \in 0 .. ConsecutiveSuccesses
  BY RecoveryStep DEF Sleep
<1>2. TypeOK'
  BY <1>1, LimiterAssumption DEF Sleep, TypeOK, Phases
<1>3. Holding'
  <2>1. demand' <= next'
    BY DEF Sleep, Holding
  <2>2. ASSUME NEW d \in Callers, phase'[d] = "waiting"
        PROVE  owed'[d] <= left'[d]
    <3>1. CASE d = c
      BY <3>1 DEF Sleep, TypeOK, Holding
    <3>2. CASE d # c
      BY <2>2, <3>2 DEF Sleep, TypeOK, Holding
    <3> QED BY <3>1, <3>2
  <2> QED BY <2>1, <2>2 DEF Holding
<1>4. Bounded'
  <2>1. ASSUME NEW d \in Callers
        PROVE  \E hold \in Holds : left'[d] <= hold
    <3>1. CASE d = c
      BY <3>1 DEF Sleep, TypeOK, Bounded
    <3>2. CASE d # c
      BY <3>2 DEF Sleep, TypeOK, Bounded
    <3> QED BY <3>1, <3>2
  <2> QED BY <2>1 DEF Sleep, Bounded
<1> QED BY <1>1, <1>2, <1>3, <1>4

LEMMA WakeStep ==
  ASSUME IInv, NEW c \in Callers, Wake(c)
  PROVE  IInv'
<1> USE DEF IInv
<1>1. Spacing(mode) \in Nat /\ Spacing(mode) \in Holds
  BY SpacingBounds DEF TypeOK, Bounded
<1>2. next' = Later(next, Spacing(mode))
  BY DEF Wake, Rescheduled
<1>3. /\ next' \in Nat /\ next <= next'
      /\ next' \in {next, Spacing(mode)}
  BY <1>1, <1>2, LaterBounds DEF TypeOK
<1>4. TypeOK'
  BY <1>3, LimiterAssumption DEF Wake, TypeOK, Phases
<1>5. Holding'
  <2>1. demand' <= next'
    BY <1>3 DEF Wake, TypeOK, Holding
  <2>2. ASSUME NEW d \in Callers, phase'[d] = "waiting"
        PROVE  owed'[d] <= left'[d]
    BY <2>2 DEF Wake, TypeOK, Holding
  <2> QED BY <2>1, <2>2 DEF Holding
<1>6. Counting'
  BY DEF Wake, Counting, RecoveryEarned
<1>7. Bounded'
  <2>1. \E hold \in Holds : next' <= hold
    <3>1. CASE next' = next
      BY <3>1 DEF Bounded
    <3>2. CASE next' = Spacing(mode)
      BY <3>2, <1>1
    <3> QED BY <1>3, <3>1, <3>2
  <2> QED BY <2>1 DEF Wake, Bounded
<1> QED BY <1>4, <1>5, <1>6, <1>7

LEMMA SucceedStep ==
  ASSUME IInv, NEW c \in Callers, NEW advertised \in Paces,
         Succeed(c, advertised)
  PROVE  IInv'
<1> USE DEF IInv
<1>1. TypeOK'
  BY LimiterAssumption DEF Succeed, TypeOK, Phases, Modes
<1>2. Holding'
  BY DEF Succeed, TypeOK, Holding
<1>3. Counting'
  <2>1. CASE mode = "recovering"
    BY <2>1, LimiterAssumption
    DEF Succeed, Enough, TypeOK, Counting, RecoveryEarned
  <2>2. CASE mode # "recovering"
    BY <2>2, LimiterAssumption DEF Succeed, TypeOK, Counting, RecoveryEarned
  <2> QED BY <2>1, <2>2
<1>4. Bounded'
  BY DEF Succeed, Bounded
<1> QED BY <1>1, <1>2, <1>3, <1>4

LEMMA LimitedStep ==
  ASSUME IInv, NEW c \in Callers, NEW retryAfter \in RetryAfters,
         Limited(c, retryAfter)
  PROVE  IInv'
<1> USE DEF IInv
<1>1. TypeOK'
  BY LimiterAssumption DEF Limited, TypeOK, Phases, Modes
<1>2. Holding'
  BY LimiterAssumption DEF Limited, TypeOK, Holding
<1>3. Counting'
  BY DEF Limited, Counting, RecoveryEarned
<1>4. Bounded'
  <2>1. next' = RetryInterval /\ RetryInterval \in Holds /\ RetryInterval \in Nat
    BY LimiterAssumption DEF Limited, Holds
  <2>2. \E hold \in Holds : next' <= hold
    BY <2>1
  <2> QED BY <2>2 DEF Limited, Bounded
<1> QED BY <1>1, <1>2, <1>3, <1>4

LEMMA FailStep ==
  ASSUME IInv, NEW c \in Callers, Fail(c)
  PROVE  IInv'
<1> USE DEF IInv
<1> DEFINE backoff == FailureBackoff(failures')
<1>1. failures' \in Nat \ {0} /\ failures' \in 0 .. MaxStreak
  BY LimiterAssumption DEF Fail, NoteFailure, TypeOK
<1>2. backoff \in Int /\ backoff <= BackoffMax
  BY <1>1, BackoffBounds
<1>3. next' = Later(next, backoff) /\ demand' = Later(demand, backoff)
  BY DEF Fail, NoteFailure
<1> HIDE DEF backoff
<1>4. next' \in Nat /\ next' \in {next, backoff} /\ demand' \in Nat
  BY <1>2, <1>3, LaterBounds DEF TypeOK
<1>5. demand' <= next'
  BY <1>2, <1>3, LaterMonotone DEF TypeOK, Holding
<1>6. TypeOK'
  BY <1>1, <1>4, LimiterAssumption DEF Fail, NoteFailure, TypeOK, Phases
<1>7. Holding'
  BY <1>5 DEF Fail, NoteFailure, TypeOK, Holding
<1>8. Counting'
  BY DEF Fail, Counting, RecoveryEarned
<1>9. Bounded'
  <2>1. \E hold \in Holds : next' <= hold
    <3>1. CASE next' = next
      BY <3>1 DEF Bounded
    <3>2. CASE next' = backoff
      BY <3>2, <1>2 DEF Holds
    <3> QED BY <1>4, <3>1, <3>2
  <2>2. ASSUME NEW d \in Callers
        PROVE  \E hold \in Holds : left'[d] <= hold
    <3>1. CASE d = c
      BY <3>1 DEF Fail, TypeOK, Holds
    <3>2. CASE d # c
      BY <3>2 DEF Fail, TypeOK, Bounded
    <3> QED BY <3>1, <3>2
  <2> QED BY <2>1, <2>2 DEF Fail, Bounded
<1> QED BY <1>6, <1>7, <1>8, <1>9

LEMMA LeaveStep ==
  ASSUME IInv, NEW c \in Callers, Leave(c)
  PROVE  IInv'
<1> USE DEF IInv, limiter, history
<1>1. TypeOK'
  BY DEF Leave, TypeOK, Phases
<1>2. Holding'
  BY DEF Leave, TypeOK, Holding
<1>3. Counting'
  BY DEF Leave, Counting, RecoveryEarned
<1>4. Bounded'
  <2>1. ASSUME NEW d \in Callers
        PROVE  \E hold \in Holds : left'[d] <= hold
    <3>1. CASE d = c
      BY <3>1 DEF Leave, TypeOK, Holds
    <3>2. CASE d # c
      BY <3>2 DEF Leave, TypeOK, Bounded
    <3> QED BY <3>1, <3>2
  <2> QED BY <2>1 DEF Leave, Bounded
<1> QED BY <1>1, <1>2, <1>3, <1>4

LEMMA TickStep ==
  ASSUME IInv, Tick
  PROVE  IInv'
<1> USE DEF IInv
<1>1. next \in Nat /\ demand \in Nat /\ asked \in Nat
  BY DEF TypeOK
<1>2. \A d \in Callers : left[d] \in Nat /\ owed[d] \in Nat
  BY DEF TypeOK
<1>3. /\ next' \in Nat /\ next' <= next
      /\ demand' \in Nat /\ asked' \in Nat
  BY <1>1, LessBounds DEF Tick
<1>4. \A d \in Callers : /\ left'[d] = Less(left[d]) /\ owed'[d] = Less(owed[d])
                         /\ left'[d] \in Nat /\ left'[d] <= left[d]
                         /\ owed'[d] \in Nat
  BY <1>2, LessBounds DEF Tick
<1>5. left' \in [Callers -> Nat] /\ owed' \in [Callers -> Nat]
  BY <1>4 DEF Tick
<1>6. TypeOK'
  BY <1>3, <1>5, LimiterAssumption DEF Tick, TypeOK
<1>7. Holding'
  <2>1. demand' <= next'
    BY <1>1, LessMonotone DEF Tick, Holding
  <2>2. ASSUME NEW d \in Callers, phase'[d] = "waiting"
        PROVE  owed'[d] <= left'[d]
    <3>1. owed[d] <= left[d]
      BY <2>2 DEF Tick, Holding
    <3> QED BY <3>1, <1>2, <1>4, LessMonotone
  <2> QED BY <2>1, <2>2 DEF Holding
<1>8. Counting'
  BY LimiterAssumption DEF Tick, TypeOK, Counting, RecoveryEarned
<1>9. Bounded'
  <2>1. \E hold \in Holds : next' <= hold
    <3>1. PICK hold \in Holds : next <= hold
      BY DEF Bounded
    <3> QED BY <3>1, <1>1, <1>3, HoldsType
  <2>2. ASSUME NEW d \in Callers
        PROVE  \E hold \in Holds : left'[d] <= hold
    <3>1. PICK hold \in Holds : left[d] <= hold
      BY DEF Bounded
    <3> QED BY <3>1, <1>2, <1>4, HoldsType
  <2> QED BY <2>1, <2>2 DEF Tick, Bounded
<1> QED BY <1>6, <1>7, <1>8, <1>9

LEMMA NextInvariant == IInv /\ [Next]_vars => IInv'
<1> SUFFICES ASSUME IInv, [Next]_vars PROVE IInv'
  OBVIOUS
<1>1. CASE UNCHANGED vars
  BY <1>1
  DEF vars, limiter, callers, history, IInv, TypeOK, Holding, Counting,
      RecoveryEarned, Bounded
<1>2. CASE Next
  BY <1>2, AcquireAtOnceStep, SleepStep, WakeStep, SucceedStep, LimitedStep,
     FailStep, LeaveStep, TickStep
  DEF Next
<1> QED BY <1>1, <1>2

-----------------------------------------------------------------------------
(* The invariant of the limiter: its parts, over every step of every caller. *)
THEOREM LimiterInvariant == Spec => []IInv
<1> QED BY InitInvariant, NextInvariant, PTL DEF Spec

(* Every variable keeps its type.                                            *)
THEOREM TypeCorrect == Spec => []TypeOK
<1>1. IInv => TypeOK
  BY DEF IInv
<1> QED BY <1>1, LimiterInvariant, PTL

(* A limiter that was limited is normal again only after the recovery        *)
(* interval and enough successes (_maybe_start_recovering, observe_success). *)
THEOREM RecoveryIsEarned == Spec => []RecoveryEarned
<1>1. IInv => RecoveryEarned
  BY DEF IInv, Counting
<1> QED BY <1>1, LimiterInvariant, PTL

(* No caller is told to wait longer than the longest single hold (acquire).  *)
THEOREM WaitBound == Spec => []WaitsBounded
<1>1. IInv => WaitsBounded
  BY DEF IInv, Bounded, Holds, WaitsBounded
<1> QED BY <1>1, LimiterInvariant, PTL

(* An attempt that goes out had nothing left to wait for. *)
LEMMA DepartureStep ==
  ASSUME IInv, [Next]_vars, NEW c \in Callers, Departs(c)
  PROVE  (IF phase[c] = "idle" THEN demand ELSE owed[c]) = 0
<1>1. TypeOK /\ Holding
  BY DEF IInv
<1>2. CASE \E d \in Callers : AcquireAtOnce(d)
  <2>1. PICK d \in Callers : AcquireAtOnce(d)
    BY <1>2
  <2>2. d = c
    BY <1>1, <2>1 DEF AcquireAtOnce, Departs, TypeOK
  <2>3. demand <= 0 /\ demand \in Nat
    BY <1>1, <2>1 DEF AcquireAtOnce, TypeOK, Holding
  <2> QED BY <2>1, <2>2, <2>3 DEF AcquireAtOnce
<1>3. CASE \E d \in Callers : Wake(d)
  <2>1. PICK d \in Callers : Wake(d)
    BY <1>3
  <2>2. d = c
    BY <1>1, <2>1 DEF Wake, Departs, TypeOK
  <2>3. owed[c] <= 0 /\ owed[c] \in Nat /\ phase[c] = "waiting"
    BY <1>1, <2>1, <2>2 DEF Wake, TypeOK, Holding
  <2> QED BY <2>3
<1>4. CASE UNCHANGED vars
  BY <1>4 DEF vars, callers, Departs
<1>5. CASE Tick
  BY <1>5 DEF Tick, Departs
<1>6. CASE \E d \in Callers : Sleep(d) \/ Fail(d) \/ Leave(d)
  BY <1>1, <1>6 DEF Sleep, Fail, Leave, Departs, TypeOK
<1>7. CASE \E d \in Callers : \E x \in Paces : Succeed(d, x)
  BY <1>1, <1>7 DEF Succeed, Departs, TypeOK
<1>8. CASE \E d \in Callers : \E x \in RetryAfters : Limited(d, x)
  BY <1>1, <1>8 DEF Limited, Departs, TypeOK
<1> QED BY <1>2, <1>3, <1>4, <1>5, <1>6, <1>7, <1>8 DEF Next

(* No attempt goes out while a hold that was asked for before it called      *)
(* acquire still stands: wake-ups and backoffs never shorten one.            *)
THEOREM HoldsAreKept == Spec => HoldsKept
<1>1. IInv /\ [Next]_vars =>
        [\A c \in Callers :
           Departs(c) => (IF phase[c] = "idle" THEN demand ELSE owed[c]) = 0]_vars
  BY DepartureStep
<1> QED BY <1>1, LimiterInvariant, PTL DEF Spec, HoldsKept

-----------------------------------------------------------------------------
(* A caller that sleeps is only ever brought nearer to its end: no step of   *)
(* another caller, a new limit included, makes it sleep longer, each unit of *)
(* time shortens the sleep, and it ends only when it is over or given up.    *)
WaitsShrink ==
  [][\A c \in Callers : phase[c] = "waiting" =>
       /\ left'[c] <= left[c]
       /\ (Tick /\ left[c] > 0) => left'[c] < left[c]
       /\ phase'[c] = "sent" => left[c] = 0]_vars

LEMMA SleeperStep ==
  ASSUME TypeOK, [Next]_vars, NEW c \in Callers, phase[c] = "waiting"
  PROVE  /\ left'[c] <= left[c]
         /\ (Tick /\ left[c] > 0) => left'[c] < left[c]
         /\ phase'[c] = "sent" => left[c] = 0
<1>1. left[c] \in Nat /\ left \in [Callers -> Nat] /\ phase \in [Callers -> Phases]
  BY DEF TypeOK
<1>2. CASE Tick
  <2>1. left'[c] = Less(left[c]) /\ phase'[c] = "waiting"
    BY <1>2 DEF Tick
  <2> QED BY <1>1, <2>1 DEF Less
<1> SUFFICES ASSUME ~Tick PROVE left'[c] <= left[c] /\ (phase'[c] = "sent" => left[c] = 0)
  BY <1>2
<1>3. CASE UNCHANGED vars
  BY <1>1, <1>3 DEF vars, callers
<1>4. ASSUME NEW d \in Callers,
             \/ AcquireAtOnce(d) \/ Sleep(d)
             \/ \E advertised \in Paces : Succeed(d, advertised)
             \/ \E retryAfter \in RetryAfters : Limited(d, retryAfter)
      PROVE  left'[c] = left[c] /\ phase'[c] = "waiting"
  <2>1. phase[d] # "waiting" /\ d # c
    BY <1>4 DEF AcquireAtOnce, Sleep, Succeed, Limited
  <2> QED BY <1>1, <1>4, <2>1 DEF AcquireAtOnce, Sleep, Succeed, Limited
<1>5. ASSUME NEW d \in Callers, Wake(d)
      PROVE  left'[c] = left[c] /\ (phase'[c] = "sent" => left[c] = 0)
  BY <1>1, <1>5 DEF Wake
<1>6. ASSUME NEW d \in Callers, Fail(d) \/ Leave(d)
      PROVE  left'[c] <= left[c] /\ phase'[c] # "sent"
  <2>1. left'[c] \in {0, left[c]} /\ phase'[c] \in {"idle", "waiting"}
    BY <1>1, <1>6 DEF Fail, Leave
  <2> QED BY <1>1, <2>1
<1> QED BY <1>1, <1>3, <1>4, <1>5, <1>6 DEF Next

(* What EveryWaitEnds rests on beside fairness: sleepers do not push one     *)
(* another back (acquire reads the schedule once and sleeps on what it read). *)
THEOREM SleepersAreLeftAlone == Spec => WaitsShrink
<1>1. TypeOK /\ [Next]_vars =>
        [\A c \in Callers : phase[c] = "waiting" =>
           /\ left'[c] <= left[c]
           /\ (Tick /\ left[c] > 0) => left'[c] < left[c]
           /\ phase'[c] = "sent" => left[c] = 0]_vars
  BY SleeperStep
<1> QED BY <1>1, TypeCorrect, PTL DEF Spec, WaitsShrink
=============================================================================
