----------------------- MODULE ResponseOwnershipProofs -----------------------
(***************************************************************************)
(* That no response is left open and a struck deadline is told, for any    *)
(* number of attempts.                                                     *)
(*                                                                         *)
(* DriverHolds and DeliveryHolds say at each place which response is open; *)
(* Standing, that after the deadline only closing and leaving are ahead,   *)
(* and that a close under way will end as a cancellation. The last theorem *)
(* is what InterruptedEnds rests on: once an interruption is heard, every  *)
(* step leads towards the end.                                             *)
(***************************************************************************)
EXTENDS ResponseOwnership, FiniteSetTheorems, TLAPS

Only(r) == IF r = 0 THEN {} ELSE {r}

(* The driver has its local response, the joined operation its reply.        *)
DriverHolds ==
  /\ pc \in Driving => open = Only(held) /\ chain = 0 /\ ~pulled
  /\ pc = "sending" => held = 0
  /\ pc \in {"succeeding", "closing"} => held # 0
  /\ pc \notin Driving => held = 0
  /\ pc \in {"joining", "discarding"} => open = Only(reply) /\ chain = 0 /\ ~pulled
  /\ pc = "joining" => (outcome = "reply" <=> reply # 0)
  /\ pc = "discarding" => reply # 0

(* The delivery has the response under its generator, once that is started.  *)
DeliveryHolds ==
  /\ pc = "starting" => reply # 0 /\ chain = reply /\ open = {reply} /\ ~pulled
  /\ pc \in {"reading", "settling"} => chain # 0
  /\ pc \in {"reading", "writing", "settling"} => open = Only(chain) /\ (pulled <=> chain # 0)
  /\ pc = "cleaning" => open = Only(chain) /\ (pulled \/ chain \in {0, reply})
  /\ pc = "releasing" => open \subseteq {reply}
  /\ pc = "gone" => open = {}

Dispatched ==
  /\ ended = "none" => pc \in Driving \cup {"joining"}
  /\ pc = "joining" => ended = "none"
  /\ pc \in Driving => ended \in {"none", "handed"}
  /\ pc \in Delivering \cup {"cleaning", "releasing"} => Replaying
  /\ pc = "discarding" => ~Replaying

Standing ==
  deadline # "armed" =>
    /\ ~Replaying
    /\ pc \in {"closing", "joining", "discarding", "gone"}
    /\ pc = "closing" => primary # "none" \/ deferred
    /\ pc = "closing" /\ deadline = "heard" => primary # "failed"
    /\ pc # "closing" => outcome # "reply"
    /\ pc # "closing" /\ deadline = "heard" => outcome \in {"timeout", "cancelled"}
    /\ deadline = "heard" /\ ended = "answered" => outcome = "timeout"

IInv == TypeOK /\ DriverHolds /\ DeliveryHolds /\ Dispatched /\ Standing

Hows == {"reply", "returned", "cancelled", "failed"}

(* The cancellation's variables keep their types. *)
CancelTypes ==
  /\ deadline' \in {"armed", "heard", "late"} /\ scope' \in {"calm", "asked", "heard"}
  /\ stop' \in BOOLEAN /\ listener' \in {"listening", "ended", "broken"}

CloseTypes ==
  /\ primary' \in {"none", "cancelled", "failed"} /\ then' \in {"retry", "return"}
  /\ deferred' \in BOOLEAN

-----------------------------------------------------------------------------
THEOREM InitHolds == Init => IInv
  <1> SUFFICES ASSUME Init PROVE IInv
    OBVIOUS
  <1>1. TypeOK
    <2>1. 1 \in 1..MaxAttempts /\ {} \subseteq 1..1 /\ 0 \in 0..1
      BY OwnershipAssumption
    <2>2. pc \in Steps
      BY DEF Init, Steps, Driving
    <2>3. QED
      BY <2>1, <2>2 DEF Init, TypeOK
  <1>2. DriverHolds /\ DeliveryHolds
    BY DEF Init, DriverHolds, DeliveryHolds, Only, Driving
  <1>3. Dispatched /\ Standing
    BY DEF Init, Dispatched, Standing, Replaying, Driving, Delivering
  <1>4. QED
    BY <1>1, <1>2, <1>3 DEF IInv

-----------------------------------------------------------------------------
(* Out of the driver.                                                        *)

LEMMA Leaving ==
  ASSUME IInv, pc \in Driving, NEW how \in Hows, Leave(how), CancelTypes, CloseTypes,
         how = "reply" => held # 0,
         open' = IF how = "reply" THEN Only(held) ELSE {},
         deadline' # "armed" =>
           ~Replaying /\ how # "reply" /\ (deadline' = "heard" => how = "cancelled")
  PROVE  IInv'
  <1> USE DEF Hows
  <1>1. CASE Replaying
    <2>1. /\ held' = 0 /\ attempts' = attempts /\ ended' = "handed" /\ reply' = reply
          /\ outcome' = outcome /\ winner' = winner
          /\ chain' = IF how = "reply" THEN held ELSE 0
          /\ pulled' = (how = "reply")
      BY <1>1 DEF Leave, Replaying
    <2>2. /\ how = "reply" => pc' = "reading"
          /\ how = "returned" => pc' = "writing"
          /\ how \in {"cancelled", "failed"} => pc' = "cleaning"
      BY <1>1 DEF Leave
    <2>3. TypeOK'
      BY <2>1, <2>2 DEF IInv, TypeOK, CancelTypes, CloseTypes, Steps, Driving, Delivering, Only
    <2>4. DriverHolds' /\ DeliveryHolds'
      BY <2>1, <2>2 DEF DriverHolds, DeliveryHolds, Driving, Only
    <2>5. Dispatched' /\ Standing'
      BY <2>1, <2>2, <1>1 DEF Dispatched, Standing, Replaying, Driving, Delivering
    <2>6. QED
      BY <2>3, <2>4, <2>5 DEF IInv
  <1>2. CASE ~Replaying
    <2>1. /\ pc' = "joining" /\ held' = 0 /\ attempts' = attempts /\ ended' = ended
          /\ reply' = (IF how = "reply" THEN held ELSE 0)
          /\ winner' = (IF winner = "none" THEN "operation" ELSE winner)
          /\ chain' = chain /\ pulled' = pulled /\ outcome' = Told(how)
      BY <1>2 DEF Leave
    <2>2. /\ how = "reply" <=> outcome' = "reply"
          /\ outcome' \in {"reply", "failed", "timeout", "cancelled"}
          /\ how = "cancelled" => outcome' \in {"timeout", "cancelled"}
      BY <2>1 DEF Told
    <2>3. TypeOK'
      BY <2>1, <2>2 DEF IInv, TypeOK, CancelTypes, CloseTypes, Steps, Driving, Delivering, Only
    <2>4. DriverHolds' /\ DeliveryHolds'
      BY <2>1, <2>2 DEF IInv, DriverHolds, DeliveryHolds, Driving, Only
    <2>5. Dispatched' /\ Standing'
      BY <2>1, <2>2, <1>2 DEF IInv, Dispatched, Standing, Replaying, Driving, Delivering
    <2>6. QED
      BY <2>3, <2>4, <2>5 DEF IInv
  <1>3. QED
    BY <1>1, <1>2

LEMMA Resolving ==
  ASSUME IInv, pc \in Driving, NEW error \in {"none", "cancelled", "failed"},
         NEW next \in {"retry", "return"}, Resolve(error, next), CancelTypes, CloseTypes,
         open' = {},
         deadline' # "armed" =>
           ~Replaying /\ error # "none" /\ (deadline' = "heard" => error = "cancelled")
  PROVE  IInv'
  <1>1. CASE error # "none"
    <2>1. Leave(error)
      BY <1>1 DEF Resolve
    <2>2. QED
      BY <1>1, <2>1, Leaving DEF Hows
  <1>2. CASE error = "none" /\ next = "retry"
    <2>1. Begin /\ UNCHANGED <<deliveryVars, dispatchVars>>
      BY <1>2 DEF Resolve
    <2>2. /\ attempts < MaxAttempts /\ attempts' = attempts + 1 /\ pc' = "sending" /\ held' = 0
          /\ UNCHANGED <<reply, chain, pulled, winner, outcome, ended>>
      BY <2>1 DEF Begin, deliveryVars, dispatchVars
    <2>3. TypeOK'
      BY <2>2, OwnershipAssumption
         DEF IInv, TypeOK, CancelTypes, CloseTypes, Steps, Driving, Delivering
    <2>4. DriverHolds' /\ DeliveryHolds'
      BY <2>2 DEF IInv, DriverHolds, DeliveryHolds, Driving, Only
    <2>5. Dispatched' /\ Standing'
      BY <2>2, <1>2 DEF IInv, Dispatched, Standing, Replaying, Driving, Delivering
    <2>6. QED
      BY <2>3, <2>4, <2>5 DEF IInv
  <1>3. CASE error = "none" /\ next # "retry"
    <2>1. Leave("returned")
      BY <1>3 DEF Resolve
    <2>2. QED
      BY <1>3, <2>1, Leaving DEF Hows
  <1>4. QED
    BY <1>1, <1>2, <1>3

LEMMA Unwinding ==
  ASSUME IInv, pc \in Driving, NEW error \in {"none", "cancelled", "failed"},
         NEW next \in {"retry", "return"}, Unwind(error, next), CancelTypes,
         deadline' # "armed" => ~Replaying /\ error = "cancelled"
  PROVE  IInv'
  <1>1. CASE held # 0
    <2>1. /\ pc' = "closing" /\ primary' = error /\ then' = next /\ deferred' = FALSE
          /\ UNCHANGED <<attempts, open, held, reply, chain, pulled, winner, outcome, ended>>
      BY <1>1 DEF Unwind, deliveryVars, dispatchVars
    <2>2. TypeOK'
      <3>1. pc' \in Steps
        BY <2>1 DEF Steps, Driving
      <3>2. CloseTypes
        BY <2>1 DEF CloseTypes
      <3>3. QED
        BY <2>1, <3>1, <3>2 DEF IInv, TypeOK, CancelTypes, CloseTypes
    <2>3. DriverHolds' /\ DeliveryHolds'
      BY <2>1, <1>1 DEF IInv, DriverHolds, DeliveryHolds, Driving, Only
    <2>4. Dispatched' /\ Standing'
      BY <2>1 DEF IInv, Dispatched, Standing, Replaying, Driving, Delivering
    <2>5. QED
      BY <2>2, <2>3, <2>4 DEF IInv
  <1>2. CASE held = 0
    <2>1. Resolve(error, next) /\ UNCHANGED <<open, primary, then, deferred>>
      BY <1>2 DEF Unwind, closeVars
    <2>2. open' = {} /\ CloseTypes
      BY <2>1, <1>2 DEF IInv, DriverHolds, Only, TypeOK, CloseTypes
    <2>3. QED
      BY <2>1, <2>2, Resolving
  <1>3. QED
    BY <1>1, <1>2

-----------------------------------------------------------------------------
(* Each action.                                                              *)

LEMMA KeptCancel ==
  ASSUME TypeOK, UNCHANGED cancelVars
  PROVE  CancelTypes /\ deadline' = deadline /\ scope' = scope /\ stop' = stop
         /\ listener' = listener
  BY DEF TypeOK, cancelVars, CancelTypes

(* Whatever the driver hears, it ends.                                       *)
LEMMA DriverHearing ==
  ASSUME IInv, DriverHears, CancelTypes,
         deadline' = deadline \/ (deadline = "armed" /\ ~Replaying
           /\ deadline' = (IF pc = "closing" /\ primary = "failed" THEN "late" ELSE "heard"))
  PROVE  IInv'
  <1> USE DEF IInv
  <1>1. deadline' # "armed" => ~Replaying
    BY DEF Standing
  <1>2. deadline # "armed" => pc \notin {"sending", "succeeding", "failing"}
    BY DEF Standing
  <1>3. CASE pc \in {"sending", "succeeding", "failing"}
    <2>1. Unwind("cancelled", "return")
      BY <1>3 DEF DriverHears, HoldsCancellation
    <2>2. QED
      BY <1>1, <1>3, <2>1, Unwinding DEF Driving
  <1>4. CASE pc \notin {"sending", "succeeding", "failing"}
    <2>1. /\ pc = "closing" /\ deferred' = TRUE
          /\ UNCHANGED <<pc, attempts, open, held, reply, chain, pulled, primary, then,
                         winner, outcome, ended>>
      BY <1>4 DEF DriverHears, deliveryVars, dispatchVars
    <2>2. TypeOK'
      BY <2>1 DEF TypeOK, CancelTypes
    <2>3. DriverHolds' /\ DeliveryHolds'
      BY <2>1 DEF DriverHolds, DeliveryHolds
    <2>4. Dispatched'
      BY <2>1 DEF Dispatched, Replaying
    <2>5. Standing'
      BY <2>1 DEF Standing, Dispatched, Replaying, Driving
    <2>6. QED
      BY <2>2, <2>3, <2>4, <2>5
  <1>5. QED
    BY <1>3, <1>4

LEMMA DriverSteps ==
  ASSUME IInv, Obtain \/ Fail \/ Succeed \/ HandleFailure \/ \E closed \in BOOLEAN : Close(closed)
  PROVE  IInv'
  <1> USE DEF IInv
  <1>1. CASE Obtain
    <2>1. /\ pc = "sending" /\ pc' \in {"succeeding", "failing"}
          /\ open' = open \cup {attempts} /\ held' = attempts
          /\ UNCHANGED <<attempts, reply, chain, pulled, primary, then, deferred, deadline,
                         scope, stop, listener, winner, outcome, ended>>
      BY <1>1 DEF Obtain, deliveryVars, closeVars, cancelVars, dispatchVars
    <2>2. TypeOK'
      BY <2>1, OwnershipAssumption DEF TypeOK, Steps, Driving
    <2>3. DriverHolds' /\ DeliveryHolds'
      <3>1. attempts # 0
        BY OwnershipAssumption DEF TypeOK
      <3>2. open = {} /\ open' = {attempts}
        BY <2>1 DEF DriverHolds, Driving, Only
      <3>3. QED
        BY <2>1, <3>1, <3>2 DEF DriverHolds, DeliveryHolds, Driving, Only
    <2>4. Dispatched' /\ Standing'
      BY <2>1 DEF Dispatched, Standing, Replaying, Driving, Delivering
    <2>5. QED
      BY <2>2, <2>3, <2>4
  <1>2. CASE Fail
    <2>1. /\ pc \in {"sending", "succeeding"} /\ pc' = "failing"
          /\ UNCHANGED <<attempts, open, held, reply, chain, pulled, primary, then, deferred,
                         deadline, scope, stop, listener, winner, outcome, ended>>
      BY <1>2 DEF Fail, deliveryVars, closeVars, cancelVars, dispatchVars
    <2>2. TypeOK'
      BY <2>1 DEF TypeOK, Steps, Driving
    <2>3. DriverHolds' /\ DeliveryHolds'
      BY <2>1 DEF DriverHolds, DeliveryHolds, Driving
    <2>4. Dispatched' /\ Standing'
      BY <2>1 DEF Dispatched, Standing, Replaying, Driving, Delivering
    <2>5. QED
      BY <2>2, <2>3, <2>4
  <1>3. CASE Succeed
    <2>1. pc = "succeeding" /\ Leave("reply") /\ CancelTypes /\ deadline' = deadline
      BY <1>3, KeptCancel DEF Succeed
    <2>2. open' = open /\ CloseTypes
      BY <1>3 DEF Succeed, closeVars, CloseTypes, TypeOK
    <2>3. held # 0 /\ open = Only(held) /\ deadline = "armed"
      BY <2>1 DEF DriverHolds, Standing, Driving
    <2>4. QED
      BY <2>1, <2>2, <2>3, Leaving DEF Driving, Hows
  <1>4. CASE HandleFailure
    <2>1. pc = "failing" /\ CancelTypes /\ deadline' = deadline
      BY <1>4, KeptCancel DEF HandleFailure
    <2>2. deadline = "armed"
      BY <2>1 DEF Standing
    <2>3. \E error \in {"none", "failed"}, next \in {"retry", "return"} : Unwind(error, next)
      BY <1>4 DEF HandleFailure
    <2>4. QED
      BY <2>1, <2>2, <2>3, Unwinding DEF Driving
  <1>5. CASE \E closed \in BOOLEAN : Close(closed)
    <2>1. PICK closed \in BOOLEAN : Close(closed)
      BY <1>5
    <2>2. pc = "closing" /\ CancelTypes /\ deadline' = deadline
      BY <2>1, KeptCancel DEF Close
    <2>3. CloseTypes
      BY <2>1 DEF Close, CloseTypes
    <2>4. open' = {}
      BY <2>1, <2>2 DEF Close, DriverHolds, Driving, Only
    <2>5. Exit(closed) \in {"none", "cancelled", "failed"} /\ then \in {"retry", "return"}
      BY DEF Exit, TypeOK
    <2>6. deadline # "armed" => /\ ~Replaying /\ Exit(closed) # "none"
                                /\ deadline = "heard" => Exit(closed) = "cancelled"
      BY <2>2 DEF Standing, Exit, TypeOK
    <2>7. Resolve(Exit(closed), then)
      BY <2>1 DEF Close
    <2>8. QED
      BY <2>2, <2>3, <2>4, <2>5, <2>6, <2>7, Resolving DEF Driving
  <1>6. QED
    BY <1>1, <1>2, <1>3, <1>4, <1>5

LEMMA CancelSteps ==
  ASSUME IInv, DeadlineFires \/ ScopeStrikes \/ StopHost
               \/ \E how \in {"disconnect", "listener"} : ListenerEnds(how)
  PROVE  IInv'
  <1> USE DEF IInv
  <1>1. CASE DeadlineFires
    <2>1. /\ ~Replaying /\ deadline = "armed" /\ DriverHears
          /\ deadline' = (IF pc = "closing" /\ primary = "failed" THEN "late" ELSE "heard")
          /\ UNCHANGED <<scope, stop, listener>>
      BY <1>1 DEF DeadlineFires
    <2>2. CancelTypes
      BY <2>1 DEF CancelTypes, TypeOK
    <2>3. QED
      BY <2>1, <2>2, DriverHearing
  <1>2. CASE ScopeStrikes
    <2>1. /\ scope' = "heard" /\ UNCHANGED <<deadline, stop, listener>>
          /\ DriverHears \/ DeliveryHears
      BY <1>2 DEF ScopeStrikes
    <2>2. CancelTypes
      BY <2>1 DEF CancelTypes, TypeOK
    <2>3. CASE DriverHears
      BY <2>1, <2>2, <2>3, DriverHearing
    <2>4. CASE DeliveryHears
      <3>1. /\ pc \in Delivering
            /\ \/ pc \in {"starting", "writing"} /\ pc' = "cleaning"
               \/ pc \in {"reading", "settling"} /\ pc' = "settling"
            /\ UNCHANGED <<attempts, open, held, reply, chain, pulled, winner, outcome, ended>>
        BY <2>4 DEF DeliveryHears, Delivering, deliveryVars, closeVars, dispatchVars
      <3>2. CloseTypes
        BY <2>4 DEF DeliveryHears, CloseTypes, closeVars, TypeOK
      <3>3. TypeOK'
        BY <3>1, <3>2, <2>2 DEF TypeOK, CancelTypes, CloseTypes, Steps, Delivering
      <3>4. DriverHolds' /\ DeliveryHolds'
        BY <3>1 DEF DriverHolds, DeliveryHolds, Driving, Delivering, Only
      <3>5. Dispatched' /\ Standing'
        BY <3>1, <2>1 DEF Dispatched, Standing, Replaying, Driving, Delivering
      <3>6. QED
        BY <3>3, <3>4, <3>5
    <2>5. QED
      BY <2>1, <2>3, <2>4
  <1>3. CASE StopHost
    <2>1. /\ UNCHANGED <<pc, attempts, open, held, reply, chain, pulled, primary, then, deferred,
                         deadline, listener, winner, outcome, ended>>
          /\ stop' = TRUE /\ scope' \in {scope, "asked"}
      BY <1>3 DEF StopHost, CancelScope, deliveryVars, closeVars, dispatchVars
    <2>2. TypeOK'
      BY <2>1 DEF TypeOK
    <2>3. DriverHolds' /\ DeliveryHolds' /\ Dispatched' /\ Standing'
      BY <2>1 DEF DriverHolds, DeliveryHolds, Dispatched, Standing, Replaying
    <2>4. QED
      BY <2>2, <2>3
  <1>4. CASE \E how \in {"disconnect", "listener"} : ListenerEnds(how)
    <2>1. /\ UNCHANGED <<pc, attempts, open, held, reply, chain, pulled, primary, then, deferred,
                         deadline, stop, outcome, ended>>
          /\ listener' \in {"ended", "broken"} /\ scope' \in {scope, "asked"}
          /\ winner' \in {winner, "disconnect", "listener"}
      BY <1>4 DEF ListenerEnds, CancelScope, deliveryVars, closeVars
    <2>2. TypeOK'
      BY <2>1 DEF TypeOK
    <2>3. DriverHolds' /\ DeliveryHolds' /\ Dispatched' /\ Standing'
      BY <2>1 DEF DriverHolds, DeliveryHolds, Dispatched, Standing, Replaying
    <2>4. QED
      BY <2>2, <2>3
  <1>5. QED
    BY <1>1, <1>2, <1>3, <1>4

LEMMA DispatchSteps ==
  ASSUME IInv, Join \/ Discard
  PROVE  IInv'
  <1> USE DEF IInv
  <1>1. CASE Join
    <2>1. /\ pc = "joining" /\ ended' = Verdict
          /\ UNCHANGED <<attempts, open, held, reply, pulled, primary, then, deferred,
                         deadline, stop, winner, outcome>>
      BY <1>1 DEF Join, closeVars
    <2>2. /\ Verdict \in {"handed", "answered", "cancelled", "failed", "disconnected"}
          /\ Verdict = "handed" => outcome = "reply"
          /\ Verdict = "answered" => outcome \notin {"reply", "cancelled"}
      <3>1. CASE stop
        BY <3>1 DEF Verdict
      <3>2. CASE ~stop /\ winner = "disconnect"
        BY <3>2 DEF Verdict
      <3>3. CASE ~stop /\ winner = "listener"
        BY <3>3 DEF Verdict
      <3>4. CASE ~stop /\ winner \notin {"disconnect", "listener"}
        BY <3>4 DEF Verdict
      <3>5. QED
        BY <3>1, <3>2, <3>3, <3>4
    <2>3. reply # 0 => outcome = "reply"
      BY <2>1 DEF DriverHolds
    <2>4. CASE Verdict = "handed"
      <3>1. /\ pc' = "starting" /\ chain' = reply /\ scope' = "calm" /\ listener' = "listening"
        BY <1>1, <2>4 DEF Join
      <3>2. reply # 0 /\ open = {reply} /\ ~pulled
        BY <2>1, <2>2, <2>4 DEF DriverHolds, Only
      <3>3. deadline = "armed"
        BY <2>1, <2>2, <2>4 DEF Standing
      <3>4. TypeOK'
        BY <2>1, <2>4, <3>1 DEF TypeOK, Steps, Delivering
      <3>5. DriverHolds' /\ DeliveryHolds'
        BY <2>1, <3>1, <3>2 DEF DriverHolds, DeliveryHolds, Driving
      <3>6. Dispatched' /\ Standing'
        BY <2>1, <2>4, <3>1, <3>3 DEF Dispatched, Standing, Replaying, Driving, Delivering
      <3>7. QED
        BY <3>4, <3>5, <3>6
    <2>5. CASE Verdict # "handed"
      <3>1. /\ pc' = (IF reply # 0 THEN "discarding" ELSE "gone")
            /\ UNCHANGED <<chain, scope, listener>>
        BY <1>1, <2>5 DEF Join
      <3>2. TypeOK'
        BY <2>1, <2>2, <3>1 DEF TypeOK, Steps
      <3>3. DriverHolds' /\ DeliveryHolds'
        BY <2>1, <3>1 DEF DriverHolds, DeliveryHolds, Driving, Only
      <3>4. Dispatched'
        BY <2>1, <2>2, <2>5, <3>1 DEF Dispatched, Replaying, Driving, Delivering
      <3>5. Standing'
        BY <2>1, <2>2, <2>5, <3>1 DEF Standing, Replaying
      <3>6. QED
        BY <3>2, <3>3, <3>4, <3>5
    <2>6. QED
      BY <2>4, <2>5
  <1>2. CASE Discard
    <2>1. /\ pc = "discarding" /\ pc' = "gone" /\ open' = open \ {reply}
          /\ UNCHANGED <<attempts, held, reply, chain, pulled, primary, then, deferred, deadline,
                         scope, stop, listener, winner, outcome, ended>>
      BY <1>2 DEF Discard, deliveryVars, closeVars, cancelVars, dispatchVars
    <2>2. TypeOK'
      BY <2>1 DEF TypeOK, Steps
    <2>3. DriverHolds' /\ DeliveryHolds'
      BY <2>1 DEF DriverHolds, DeliveryHolds, Driving, Only
    <2>4. Dispatched' /\ Standing'
      BY <2>1 DEF Dispatched, Standing, Replaying, Driving, Delivering
    <2>5. QED
      BY <2>2, <2>3, <2>4
  <1>3. QED
    BY <1>1, <1>2

LEMMA DeliverySteps ==
  ASSUME IInv,
         \/ Deliver \/ SendFails \/ CloseContent \/ CloseReply
         \/ \E error \in {"none", "failed"} : BodyEnds(error)
         \/ \E closed \in BOOLEAN : Settle(closed)
  PROVE  IInv'
  <1> USE DEF IInv
  <1>1. CASE Deliver
    <2>1. /\ pc \in {"starting", "reading", "writing"}
          /\ pc = "reading" => pc' = "writing"
          /\ pc = "writing" /\ chain = 0 => pc' = "cleaning"
          /\ pc = "starting" \/ (pc = "writing" /\ chain # 0) => pc' = "reading"
          /\ UNCHANGED <<attempts, open, held, reply, chain, primary, then, deferred, deadline,
                         scope, stop, listener, winner, outcome, ended>>
      BY <1>1 DEF Deliver, closeVars, cancelVars, dispatchVars
    <2>2. pulled' \in BOOLEAN /\ (pulled' <=> pulled \/ pc = "starting")
      BY <1>1 DEF Deliver
    <2>3. TypeOK'
      BY <2>1, <2>2 DEF TypeOK, Steps, Delivering
    <2>4. DriverHolds' /\ DeliveryHolds'
      BY <2>1, <2>2 DEF DriverHolds, DeliveryHolds, Driving, Only
    <2>5. Dispatched' /\ Standing'
      BY <2>1 DEF Dispatched, Standing, Replaying, Driving, Delivering
    <2>6. QED
      BY <2>3, <2>4, <2>5
  <1>2. CASE SendFails
    <2>1. /\ pc \in {"starting", "writing"} /\ pc' = "cleaning"
          /\ UNCHANGED <<attempts, open, held, reply, chain, pulled, primary, then, deferred,
                         deadline, scope, stop, listener, winner, outcome, ended>>
      BY <1>2 DEF SendFails, deliveryVars, closeVars, cancelVars, dispatchVars
    <2>2. TypeOK'
      BY <2>1 DEF TypeOK, Steps
    <2>3. DriverHolds' /\ DeliveryHolds'
      BY <2>1 DEF DriverHolds, DeliveryHolds, Driving, Only
    <2>4. Dispatched' /\ Standing'
      BY <2>1 DEF Dispatched, Standing, Replaying, Driving, Delivering
    <2>5. QED
      BY <2>2, <2>3, <2>4
  <1>3. CASE \E error \in {"none", "failed"} : BodyEnds(error)
    <2>1. /\ pc = "reading" /\ pc' = "settling" /\ CloseTypes
          /\ UNCHANGED <<attempts, open, held, reply, chain, pulled, deadline, scope, stop,
                         listener, winner, outcome, ended>>
      BY <1>3 DEF BodyEnds, CloseTypes, deliveryVars, cancelVars, dispatchVars
    <2>2. TypeOK'
      BY <2>1 DEF TypeOK, CloseTypes, Steps, Delivering
    <2>3. DriverHolds' /\ DeliveryHolds'
      BY <2>1 DEF DriverHolds, DeliveryHolds, Driving
    <2>4. Dispatched' /\ Standing'
      BY <2>1 DEF Dispatched, Standing, Replaying, Driving, Delivering
    <2>5. QED
      BY <2>2, <2>3, <2>4
  <1>4. CASE \E closed \in BOOLEAN : Settle(closed)
    <2>1. /\ pc = "settling" /\ open' = open \ {chain} /\ chain' = 0 /\ ~pulled' /\ pulled' = FALSE
          /\ \/ pc' \in {"cleaning", "writing"} /\ UNCHANGED <<attempts, held>>
             \/ /\ attempts < MaxAttempts /\ attempts' = attempts + 1
                /\ pc' = "sending" /\ held' = 0
          /\ UNCHANGED <<reply, deadline, scope, stop, listener, winner, outcome, ended>>
      BY <1>4 DEF Settle, Begin, cancelVars, dispatchVars
    <2>2. CloseTypes
      BY <1>4 DEF Settle, CloseTypes
    <2>3. TypeOK'
      <3>1. /\ attempts' \in 1..MaxAttempts /\ open' \subseteq 1..attempts'
            /\ held' \in 0..attempts' /\ reply' \in 0..attempts' /\ chain' \in 0..attempts'
        BY <2>1, OwnershipAssumption DEF TypeOK
      <3>2. pc' \in Steps
        BY <2>1 DEF Steps, Driving, Delivering
      <3>3. /\ pulled' \in BOOLEAN
            /\ UNCHANGED <<deadline, scope, stop, listener, winner, outcome, ended>>
        BY <2>1
      <3>4. QED
        BY <2>2, <3>1, <3>2, <3>3 DEF TypeOK, CloseTypes
    <2>4. DriverHolds' /\ DeliveryHolds'
      BY <2>1 DEF DriverHolds, DeliveryHolds, Driving, Only
    <2>5. Dispatched' /\ Standing'
      BY <2>1 DEF Dispatched, Standing, Replaying, Driving, Delivering
    <2>6. QED
      BY <2>3, <2>4, <2>5
  <1>5. CASE CloseContent
    <2>1. /\ pc = "cleaning" /\ pc' = "releasing"
          /\ open' = IF pulled THEN open \ {chain} ELSE open
          /\ UNCHANGED <<attempts, held, reply, chain, pulled, primary, then, deferred, deadline,
                         scope, stop, listener, winner, outcome, ended>>
      BY <1>5 DEF CloseContent, deliveryVars, closeVars, cancelVars, dispatchVars
    <2>2. TypeOK'
      BY <2>1 DEF TypeOK, Steps
    <2>3. DriverHolds' /\ DeliveryHolds'
      BY <2>1 DEF DriverHolds, DeliveryHolds, Driving, Only
    <2>4. Dispatched' /\ Standing'
      BY <2>1 DEF Dispatched, Standing, Replaying, Driving, Delivering
    <2>5. QED
      BY <2>2, <2>3, <2>4
  <1>6. CASE CloseReply
    <2>1. /\ pc = "releasing" /\ pc' = "gone" /\ open' = open \ {reply}
          /\ UNCHANGED <<attempts, held, reply, chain, pulled, primary, then, deferred, deadline,
                         scope, stop, listener, winner, outcome, ended>>
      BY <1>6 DEF CloseReply, deliveryVars, closeVars, cancelVars, dispatchVars
    <2>2. TypeOK'
      BY <2>1 DEF TypeOK, Steps
    <2>3. DriverHolds' /\ DeliveryHolds'
      BY <2>1 DEF DriverHolds, DeliveryHolds, Driving
    <2>4. Dispatched' /\ Standing'
      BY <2>1 DEF Dispatched, Standing, Replaying, Driving, Delivering
    <2>5. QED
      BY <2>2, <2>3, <2>4
  <1>7. QED
    BY <1>1, <1>2, <1>3, <1>4, <1>5, <1>6

-----------------------------------------------------------------------------
(* The theorems.                                                             *)

THEOREM StepHolds == IInv /\ [Next]_vars => IInv'
  <1> SUFFICES ASSUME IInv, [Next]_vars PROVE IInv'
    OBVIOUS
  <1>1. CASE UNCHANGED vars
    BY <1>1 DEF vars, IInv, TypeOK, DriverHolds, DeliveryHolds, Dispatched, Standing,
       Replaying
  <1>2. CASE Next
    BY <1>2, DriverSteps, CancelSteps, DispatchSteps, DeliverySteps DEF Next
  <1>3. QED
    BY <1>1, <1>2

(* The inductive invariant of the hand-over of responses.                    *)
THEOREM OwnershipInvariant == Spec => []IInv
  BY InitHolds, StepHolds, PTL DEF Spec

(* Every variable keeps its type.                                            *)
THEOREM TypeCorrect == Spec => []TypeOK
  <1>1. IInv => TypeOK
    BY DEF IInv
  <1>2. QED
    BY <1>1, OwnershipInvariant, PTL

(* Every open response is in somebody's hands, and none is open in the end.  *)
THEOREM NothingLeaks == Spec => []Owned
  <1>1. IInv => Owned
    <2> SUFFICES ASSUME IInv PROVE Owned
      OBVIOUS
    <2>1. open \in {{}, {held}, {reply}, {chain}}
      <3>1. pc \in Steps
        BY DEF IInv, TypeOK
      <3>2. CASE pc \in Driving
        BY <3>2 DEF IInv, DriverHolds, Only
      <3>3. CASE pc \in {"joining", "discarding"}
        BY <3>3 DEF IInv, DriverHolds, Only
      <3>4. CASE pc \in Delivering \cup {"cleaning", "releasing", "gone"}
        BY <3>4 DEF IInv, DeliveryHolds, Delivering, Only
      <3>5. QED
        BY <3>1, <3>2, <3>3, <3>4 DEF Steps
    <2>2. Cardinality(open) <= 1
      <3>1. CASE open = {}
        BY <3>1, FS_EmptySet
      <3>2. ASSUME NEW r, open = {r} PROVE Cardinality(open) <= 1
        <4>1. Cardinality({r}) = 1
          BY FS_Singleton
        <4>2. QED
          BY <3>2, <4>1
      <3>3. open = {} \/ \E r : open = {r}
        BY <2>1, Zenon
      <3>4. QED
        BY <3>1, <3>2, <3>3, Zenon
    <2>3. QED
      BY <2>1, <2>2 DEF IInv, DriverHolds, DeliveryHolds, Only, Owned
  <1>2. QED
    BY <1>1, OwnershipInvariant, PTL

(* Whom the deadline interrupts is told of the deadline.                     *)
THEOREM DeadlineAnswered == Spec => []DeadlineTold
  <1>1. IInv => DeadlineTold
    BY DEF IInv, Standing, Replaying, DeadlineTold
  <1>2. QED
    BY <1>1, OwnershipInvariant, PTL

(* After a cancellation was heard no response is obtained.                   *)
THEOREM NoneOpenedLate == Spec => NothingOpenedLate
  <1>1. IInv /\ [Next]_vars =>
          [~(open' \subseteq open) => scope # "heard" /\ deadline = "armed"]_vars
    <2> SUFFICES ASSUME IInv, Next, ~(open' \subseteq open)
                 PROVE  scope # "heard" /\ deadline = "armed"
      OBVIOUS
    <2>1. Obtain
      BY DEF Next, Fail, Succeed, HandleFailure, Close, DeadlineFires, ScopeStrikes, StopHost,
         ListenerEnds, Join, Discard, Deliver, SendFails, BodyEnds, Settle, CloseContent,
         CloseReply, DriverHears, DeliveryHears, Unwind, HoldsCancellation
    <2>2. pc = "sending" /\ scope # "heard"
      BY <2>1 DEF Obtain, Uncancelled
    <2>3. deadline = "armed"
      BY <2>2 DEF IInv, Standing
    <2>4. QED
      BY <2>2, <2>3
  <1>2. QED
    BY <1>1, OwnershipInvariant, PTL DEF Spec, NothingOpenedLate

-----------------------------------------------------------------------------
(* Once a request has heard that it is interrupted, it can only end: what    *)
(* InterruptedEnds rests on, beside fairness.                                *)

Heard == deadline # "armed" \/ scope = "heard"

(* Where the group's cancellation can have found the request: where it only  *)
(* closes and leaves, or in a replay that its own close still has to end.    *)
Struck ==
  scope = "heard" =>
    /\ pc \in {"sending", "closing", "joining", "discarding", "settling", "writing",
               "cleaning", "releasing", "gone"}
    /\ pc \in {"sending", "writing", "settling"} => Replaying
    /\ pc \in {"closing", "settling"} => primary # "none" \/ deferred

Decided == stop \/ winner \in {"disconnect", "listener"}

(* Nobody cancels the group but one that decides what the dispatch answers.  *)
Caused ==
  ~Replaying =>
    /\ pc \in Driving => winner # "operation"
    /\ pc \in Driving /\ scope # "calm" => Decided
    /\ pc = "joining" /\ scope = "heard" => Decided

FInv == IInv /\ Struck /\ Caused

(* How far each place is from the end for a request that has heard.          *)
Place(step) ==
  CASE step = "settling" -> 6
    [] step \in {"sending", "succeeding", "failing", "starting", "reading", "writing"} -> 5
    [] step = "closing" -> 4
    [] step = "joining" -> 3
    [] step \in {"cleaning", "discarding"} -> 2
    [] step = "releasing" -> 1
    [] step = "gone" -> 0

(* What can still come upon it while it stands there.                        *)
Yet(event) == IF event THEN 1 ELSE 0

Coming ==
  Yet(~deferred) + Yet(~stop) + Yet(listener = "listening")
    + Yet(deadline = "armed") + Yet(scope # "heard")

Rank == 6 * Place(pc) + Coming

LEMMA ComingRange == Coming \in 0..5
  <1>1. /\ Yet(~deferred) \in 0..1 /\ Yet(~stop) \in 0..1
        /\ Yet(listener = "listening") \in 0..1 /\ Yet(deadline = "armed") \in 0..1
        /\ Yet(scope # "heard") \in 0..1
    BY DEF Yet
  <1>2. QED
    BY <1>1 DEF Coming

LEMMA RankNat == TypeOK => Rank \in Nat
  <1> SUFFICES ASSUME TypeOK PROVE Rank \in Nat
    OBVIOUS
  <1>1. Place(pc) \in Nat
    BY DEF TypeOK, Steps, Driving, Delivering, Place
  <1>2. QED
    BY <1>1, ComingRange DEF Rank

(* A nearer place is nearer, whatever it lets come upon the request anew.    *)
LEMMA NearerPlace ==
  ASSUME TypeOK, pc' \in Steps, Place(pc)' < Place(pc)
  PROVE  Rank' < Rank
  <1>1. Place(pc) \in Nat /\ Place(pc)' \in Nat
    BY DEF TypeOK, Steps, Driving, Delivering, Place
  <1>2. Coming \in 0..5
    BY ComingRange
  <1>3. Coming' \in 0..5
    <2>1. /\ Yet(~deferred') \in 0..1 /\ Yet(~stop') \in 0..1
          /\ Yet(listener' = "listening") \in 0..1 /\ Yet(deadline' = "armed") \in 0..1
          /\ Yet(scope' # "heard") \in 0..1
      BY DEF Yet
    <2>2. QED
      BY <2>1 DEF Coming
  <1>4. QED
    BY <1>1, <1>2, <1>3 DEF Rank

-----------------------------------------------------------------------------
(* What hearing a cancellation makes of the driver, and of the delivery.     *)

LEMMA LeavingWay ==
  ASSUME IInv, pc \in Driving, NEW how \in {"cancelled", "failed"}, Leave(how)
  PROVE  /\ pc' \in {"joining", "cleaning"} /\ ended' = ended
         /\ pc' = "cleaning" => Replaying
         /\ winner' = winner \/ winner = "none"
  BY DEF Leave

LEMMA DriverTurns ==
  ASSUME IInv, DriverHears
  PROVE  /\ ended' = ended
         /\ pc \in Driving
         /\ \/ /\ pc # "closing" /\ pc' = "closing"
               /\ primary' = "cancelled" /\ winner' = winner
            \/ /\ pc # "closing" /\ pc' \in {"joining", "cleaning"}
               /\ pc' = "cleaning" => Replaying
               /\ winner' = winner \/ winner = "none"
            \/ /\ pc = "closing" /\ pc' = "closing"
               /\ deferred' = TRUE /\ winner' = winner
  <1>1. ASSUME pc \in {"sending", "succeeding", "failing"}, Unwind("cancelled", "return")
        PROVE  /\ ended' = ended
               /\ \/ /\ pc' = "closing" /\ primary' = "cancelled" /\ winner' = winner
                  \/ /\ pc' \in {"joining", "cleaning"}
                     /\ pc' = "cleaning" => Replaying
                     /\ winner' = winner \/ winner = "none"
    <2>1. CASE held # 0
      BY <1>1, <2>1 DEF Unwind, dispatchVars
    <2>2. CASE held = 0
      <3>1. Leave("cancelled")
        BY <1>1, <2>2 DEF Unwind, Resolve
      <3>2. QED
        BY <1>1, <3>1, LeavingWay DEF Driving
    <2>3. QED
      BY <2>1, <2>2
  <1>2. CASE pc \in {"sending", "succeeding", "failing"}
    <2>1. Unwind("cancelled", "return")
      BY <1>2 DEF DriverHears, HoldsCancellation
    <2>2. QED
      BY <1>1, <1>2, <2>1 DEF Driving
  <1>3. CASE pc = "closing"
    BY <1>3 DEF DriverHears, dispatchVars, Driving
  <1>4. QED
    BY <1>2, <1>3 DEF DriverHears

LEMMA DeliveryTurns ==
  ASSUME IInv, DeliveryHears
  PROVE  /\ UNCHANGED <<ended, winner>> /\ Replaying
         /\ \/ pc \in {"starting", "writing"} /\ pc' = "cleaning"
            \/ pc = "reading" /\ pc' = "settling" /\ primary' = "cancelled"
            \/ pc = "settling" /\ pc' = "settling" /\ deferred' = TRUE
  BY DEF DeliveryHears, dispatchVars, IInv, Dispatched, Delivering

(* A close under way when the interruption is heard is the driver's last.    *)
LEMMA LastClose ==
  ASSUME FInv, Heard, NEW closed \in BOOLEAN, Close(closed)
  PROVE  /\ pc' \in {"joining", "cleaning"} /\ ended' = ended
         /\ pc' = "cleaning" => Replaying
         /\ winner' = winner \/ winner = "none"
         /\ pc = "closing" /\ UNCHANGED cancelVars
  <1>1. pc = "closing" /\ UNCHANGED cancelVars /\ Resolve(Exit(closed), then)
    BY DEF Close
  <1>2. primary \in {"none", "cancelled", "failed"} /\ (primary # "none" \/ deferred)
    BY <1>1 DEF FInv, IInv, TypeOK, Standing, Struck, Heard
  <1>3. Exit(closed) \in {"cancelled", "failed"}
    BY <1>2 DEF Exit
  <1>4. Leave(Exit(closed))
    BY <1>1, <1>3 DEF Resolve
  <1>5. QED
    BY <1>1, <1>3, <1>4, LeavingWay DEF FInv, Driving

-----------------------------------------------------------------------------
(* Struck and Caused hold throughout.                                        *)

(* What goes on only while nothing was heard.                                *)
Unheeding ==
  \/ Obtain \/ Fail \/ Succeed \/ HandleFailure \/ Deliver
  \/ \E error \in {"none", "failed"} : BodyEnds(error)

LEMMA UnheedingFacts ==
  ASSUME Unheeding
  PROVE  /\ scope # "heard" /\ UNCHANGED cancelVars
         /\ pc \in {"sending", "succeeding", "failing", "starting", "reading", "writing"}
  BY DEF Unheeding, Obtain, Fail, Succeed, HandleFailure, Deliver, BodyEnds, Uncancelled

LEMMA StruckStep ==
  ASSUME FInv, [Next]_vars
  PROVE  Struck'
  <1> USE DEF Struck, Replaying, cancelVars
  <1>0. IInv /\ Struck
    BY DEF FInv
  <1>1. CASE Unheeding
    BY <1>1, UnheedingFacts
  <1>2. ASSUME NEW closed \in BOOLEAN, Close(closed) PROVE Struck'
    <2>1. scope' = scope
      BY <1>2 DEF Close
    <2>2. CASE scope = "heard"
      <3>1. Heard
        BY <2>2 DEF Heard
      <3>2. pc' \in {"joining", "cleaning"}
        BY <1>2, <3>1, LastClose
      <3>3. QED
        BY <3>2
    <2>3. QED
      BY <2>1, <2>2
  <1>3. CASE DeadlineFires
    BY <1>0, <1>3, DriverTurns DEF DeadlineFires
  <1>4. CASE ScopeStrikes
    BY <1>0, <1>4, DriverTurns, DeliveryTurns DEF ScopeStrikes
  <1>5. CASE StopHost \/ \E how \in {"disconnect", "listener"} : ListenerEnds(how)
    BY <1>0, <1>5 DEF StopHost, ListenerEnds, CancelScope, closeVars, dispatchVars
  <1>6. CASE Join
    BY <1>0, <1>6 DEF Join
  <1>7. CASE Discard \/ SendFails \/ CloseContent \/ CloseReply
    BY <1>7 DEF Discard, SendFails, CloseContent, CloseReply
  <1>8. ASSUME NEW closed \in BOOLEAN, Settle(closed) PROVE Struck'
    <2>1. Replaying /\ ended' = ended /\ pc' \in {"cleaning", "writing", "sending"}
      BY <1>0, <1>8 DEF Settle, Begin, dispatchVars, IInv, Dispatched, Delivering
    <2>2. QED
      BY <2>1
  <1>9. CASE UNCHANGED vars
    BY <1>0, <1>9 DEF vars
  <1>10. QED
    BY <1>1, <1>2, <1>3, <1>4, <1>5, <1>6, <1>7, <1>8, <1>9 DEF Next, Unheeding

LEMMA CausedStep ==
  ASSUME FInv, [Next]_vars
  PROVE  Caused'
  <1> USE DEF Caused, Decided, Replaying, cancelVars, Driving
  <1>0. IInv /\ Caused /\ Struck
    BY DEF FInv
  <1>1. CASE Obtain \/ Fail
    BY <1>0, <1>1 DEF Obtain, Fail, dispatchVars
  <1>2. CASE Succeed
    BY <1>0, <1>2 DEF Succeed, Uncancelled, Leave
  <1>3. ASSUME NEW error \in {"none", "failed"}, NEW next \in {"retry", "return"},
               scope # "heard", UNCHANGED cancelVars, pc = "failing", Unwind(error, next)
        PROVE  Caused'
    <2>1. CASE held # 0
      BY <1>0, <1>3, <2>1 DEF Unwind, dispatchVars
    <2>2. CASE held = 0 /\ error = "none" /\ next = "retry"
      BY <1>0, <1>3, <2>2 DEF Unwind, Resolve, Begin, dispatchVars
    <2>3. ASSUME NEW how, Leave(how) PROVE Caused'
      BY <1>0, <1>3, <2>3 DEF Leave
    <2>4. QED
      BY <1>3, <2>1, <2>2, <2>3 DEF Unwind, Resolve
  <1>4. CASE HandleFailure
    BY <1>3, <1>4 DEF HandleFailure, Uncancelled
  <1>5. ASSUME NEW closed \in BOOLEAN, Close(closed) PROVE Caused'
    <2>1. CASE Heard
      BY <1>0, <1>5, <2>1, LastClose DEF FInv
    <2>2. CASE ~Heard
      <3>1. pc = "closing" /\ scope # "heard" /\ UNCHANGED cancelVars
        BY <1>5, <2>2 DEF Close, Heard
      <3>2. ASSUME NEW how, Leave(how) PROVE Caused'
        BY <1>0, <3>1, <3>2 DEF Leave
      <3>3. CASE Begin /\ UNCHANGED dispatchVars
        BY <1>0, <3>1, <3>3 DEF Begin, dispatchVars
      <3>4. QED
        BY <1>5, <3>2, <3>3 DEF Close, Resolve
    <2>3. QED
      BY <2>1, <2>2
  <1>6. CASE DeadlineFires
    BY <1>0, <1>6, DriverTurns DEF DeadlineFires
  <1>7. CASE ScopeStrikes
    <2>1. CASE DriverHears
      BY <1>0, <1>7, <2>1, DriverTurns DEF ScopeStrikes
    <2>2. CASE DeliveryHears
      BY <1>0, <1>7, <2>2, DeliveryTurns DEF ScopeStrikes
    <2>3. QED
      BY <1>7, <2>1, <2>2 DEF ScopeStrikes
  <1>8. CASE StopHost
    <2>1. stop' = TRUE /\ UNCHANGED <<pc, ended, winner>>
      BY <1>8 DEF StopHost, dispatchVars
    <2>2. ~Replaying /\ pc \in Driving => winner # "operation"
      BY <1>0
    <2>3. QED
      BY <2>1, <2>2
  <1>9. ASSUME NEW how \in {"disconnect", "listener"}, ListenerEnds(how) PROVE Caused'
    <2>1. winner \in {"none", "operation", "disconnect", "listener"}
      BY <1>0 DEF IInv, TypeOK
    <2>2. /\ winner' = (IF winner = "none" THEN how ELSE winner)
          /\ UNCHANGED <<pc, stop, ended>> /\ (scope' = "heard" => scope = "heard")
      BY <1>9 DEF ListenerEnds, CancelScope
    <2>3. QED
      BY <1>0, <2>1, <2>2
  <1>10. CASE Join
    BY <1>10 DEF Join
  <1>11. CASE Discard \/ SendFails \/ CloseContent \/ CloseReply
    BY <1>11 DEF Discard, SendFails, CloseContent, CloseReply
  <1>12. CASE Deliver \/ \E error \in {"none", "failed"} : BodyEnds(error)
    BY <1>12 DEF Deliver, BodyEnds
  <1>13. ASSUME NEW closed \in BOOLEAN, Settle(closed) PROVE Caused'
    BY <1>0, <1>13 DEF Settle, dispatchVars, IInv, Dispatched, Delivering
  <1>14. CASE UNCHANGED vars
    BY <1>0, <1>14 DEF vars
  <1>15. QED
    BY <1>1, <1>2, <1>4, <1>5, <1>6, <1>7, <1>8, <1>9, <1>10, <1>11, <1>12, <1>13, <1>14
       DEF Next

LEMMA FurtherInvariant == Spec => []FInv
  <1>1. Init => Struck /\ Caused
    BY DEF Init, Struck, Caused
  <1>2. FInv /\ [Next]_vars => Struck' /\ Caused'
    BY StruckStep, CausedStep
  <1>3. QED
    BY <1>1, <1>2, OwnershipInvariant, PTL DEF Spec, FInv

-----------------------------------------------------------------------------
(* A request that has heard of an interruption stays interrupted, and every  *)
(* step it or anybody else takes brings its end nearer: no retry, no replay  *)
(* and no second signal can keep it alive, be there budget left or not.      *)
HeardEnds == [][Heard => Heard' /\ Rank \in Nat /\ Rank' \in Nat /\ Rank' < Rank]_vars

LEMMA HeardNears ==
  ASSUME FInv, pc' \in Steps, Next, Heard
  PROVE  Heard' /\ Rank' < Rank
  <1> USE DEF Heard, cancelVars
  <1>0. IInv /\ Struck /\ Caused /\ TypeOK
    BY DEF FInv, IInv
  <1>1. deadline # "armed" => pc \in {"closing", "joining", "discarding", "gone"}
    BY <1>0 DEF IInv, Standing
  <1>2. ~Unheeding
    BY <1>1, UnheedingFacts
  <1>3. ASSUME NEW closed \in BOOLEAN, Close(closed) PROVE Heard' /\ Rank' < Rank
    <2>1. pc = "closing" /\ pc' \in {"joining", "cleaning"} /\ UNCHANGED cancelVars
      BY <1>3, LastClose
    <2>2. QED
      BY <1>0, <2>1, NearerPlace DEF Place
  <1>4. ASSUME DriverHears, pc # "closing" PROVE Rank' < Rank
    <2>1. /\ pc \in {"sending", "succeeding", "failing"}
          /\ pc' \in {"closing", "joining", "cleaning"}
      BY <1>0, <1>4, DriverTurns DEF Driving
    <2>2. QED
      BY <1>0, <2>1, NearerPlace DEF Place
  <1>5. CASE DeadlineFires
    <2>1. Heard'
      BY <1>5 DEF DeadlineFires
    <2>2. CASE pc = "closing"
      <3>1. /\ pc' = pc /\ deferred' = TRUE /\ deadline = "armed" /\ deadline' # "armed"
            /\ UNCHANGED <<scope, stop, listener>>
        BY <1>0, <1>5, <2>2, DriverTurns DEF DeadlineFires
      <3>2. QED
        BY <1>0, <2>1, <2>2, <3>1 DEF Rank, Coming, Yet, Place
    <2>3. QED
      BY <1>4, <1>5, <2>1, <2>2 DEF DeadlineFires
  <1>6. CASE ScopeStrikes
    <2>1. Heard' /\ scope' = "heard" /\ UNCHANGED <<deadline, stop, listener>>
      BY <1>6 DEF ScopeStrikes
    <2>2. CASE pc \in {"closing", "settling"}
      <3>1. pc' = pc /\ deferred' = TRUE
        BY <1>0, <1>6, <2>2, DriverTurns, DeliveryTurns DEF ScopeStrikes, Driving
      <3>2. scope # "heard" \/ ~deferred
        BY <1>6 DEF ScopeStrikes
      <3>3. QED
        BY <1>0, <2>1, <2>2, <3>1, <3>2 DEF Rank, Coming, Yet, Place
    <2>3. CASE DriverHears /\ pc # "closing"
      BY <1>4, <2>1, <2>3
    <2>4. CASE DeliveryHears /\ pc # "settling"
      <3>1. pc = "writing" /\ pc' = "cleaning"
        BY <1>0, <1>1, <2>4, DeliveryTurns DEF Struck
      <3>2. QED
        BY <1>0, <2>1, <3>1, NearerPlace DEF Place
    <2>5. QED
      BY <1>6, <2>2, <2>3, <2>4 DEF ScopeStrikes
  <1>7. CASE StopHost
    <2>1. /\ ~stop /\ stop' = TRUE /\ UNCHANGED <<pc, deferred, deadline, listener>>
          /\ scope = "heard" => scope' = "heard"
      BY <1>7 DEF StopHost, CancelScope, closeVars
    <2>2. QED
      BY <1>0, <2>1 DEF Rank, Coming, Yet, Place, TypeOK, Steps, Driving, Delivering
  <1>8. ASSUME NEW how \in {"disconnect", "listener"}, ListenerEnds(how)
        PROVE  Heard' /\ Rank' < Rank
    <2>1. /\ listener = "listening" /\ listener' # "listening"
          /\ UNCHANGED <<pc, deferred, deadline, stop>>
          /\ scope = "heard" => scope' = "heard"
      BY <1>8 DEF ListenerEnds, CancelScope, closeVars
    <2>2. QED
      BY <1>0, <2>1 DEF Rank, Coming, Yet, Place, TypeOK, Steps, Driving, Delivering
  <1>9. CASE Join
    <2>1. Verdict # "handed"
      <3>1. ~Replaying /\ pc = "joining"
        BY <1>0, <1>9 DEF Join, IInv, Dispatched, Replaying
      <3>2. CASE deadline # "armed"
        <4>1. outcome # "reply"
          BY <1>0, <3>1, <3>2 DEF IInv, Standing
        <4>2. QED
          BY <4>1 DEF Verdict
      <3>3. CASE scope = "heard"
        <4>1. Decided
          BY <1>0, <3>1, <3>3 DEF Caused
        <4>2. QED
          BY <4>1 DEF Verdict, Decided
      <3>4. QED
        BY <3>2, <3>3
    <2>2. Heard' /\ pc = "joining" /\ pc' \in {"discarding", "gone"}
      BY <1>9, <2>1 DEF Join
    <2>3. QED
      BY <1>0, <2>2, NearerPlace DEF Place
  <1>10. CASE Discard \/ CloseContent \/ CloseReply
    BY <1>0, <1>10, NearerPlace DEF Discard, CloseContent, CloseReply, Place
  <1>11. CASE SendFails
    <2>1. pc = "writing" /\ pc' = "cleaning" /\ UNCHANGED cancelVars
      BY <1>0, <1>1, <1>11 DEF SendFails, Struck
    <2>2. QED
      BY <1>0, <2>1, NearerPlace DEF Place
  <1>12. ASSUME NEW closed \in BOOLEAN, Settle(closed) PROVE Heard' /\ Rank' < Rank
    <2>1. pc = "settling" /\ pc' \in {"cleaning", "writing", "sending"} /\ UNCHANGED cancelVars
      BY <1>12 DEF Settle, Begin
    <2>2. QED
      BY <1>0, <2>1, NearerPlace DEF Place
  <1>13. QED
    BY <1>2, <1>3, <1>5, <1>6, <1>7, <1>8, <1>9, <1>10, <1>11, <1>12 DEF Next, Unheeding

THEOREM HeardRequestsEnd == Spec => HeardEnds
  <1>1. ASSUME FInv, (pc \in Steps)', Rank \in Nat, (Rank \in Nat)', [Next]_vars
        PROVE  [Heard => Heard' /\ Rank \in Nat /\ Rank' \in Nat /\ Rank' < Rank]_vars
    BY <1>1, HeardNears
  <1>2. TypeOK => pc \in Steps
    BY DEF TypeOK
  <1>3. QED
    BY <1>1, <1>2, TypeCorrect, FurtherInvariant, RankNat, PTL DEF Spec, HeardEnds
=============================================================================
