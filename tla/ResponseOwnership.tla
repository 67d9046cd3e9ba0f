--------------------------- MODULE ResponseOwnership ---------------------------
(***************************************************************************)
(* Who has to close the upstream's responses of one streamed request: the  *)
(* direct driver until it hands a response over, the dispatch until        *)
(* delivery begins, the delivery generator and its response object after   *)
(* that, and the driver again under a replay                               *)
(* (pipeline/direct_driver/base.py, server/routes/inference.py).           *)
(*                                                                         *)
(* The request runs in a task of its own, the operation, beside a listener *)
(* for the client's disconnect; both belong to a task group, whose host is *)
(* the task the server started. The client's deadline cancels the          *)
(* operation once. The group's scope, which a disconnect or a cancellation *)
(* of the host makes it do, cancels the operation again at every await     *)
(* until the task ends. A close runs in a third task, so that it always    *)
(* finishes; a cancellation that arrives meanwhile is remembered.          *)
(***************************************************************************)
EXTENDS Naturals, FiniteSets

CONSTANT MaxAttempts  (* the attempts that budget and ceiling allow, in all *)

ASSUME OwnershipAssumption == MaxAttempts \in Nat \ {0}

VARIABLES
  pc,        (* where the operation stands, or the host once that is over    *)
  attempts,  (* attempts begun; a response bears the number of its attempt   *)
  open,      (* the responses obtained and not closed                        *)
  held,      (* the driver's local response, 0 if none                       *)
  reply,     (* the response the streaming response is to close, 0 if none   *)
  chain,     (* the response under the delivery generator, 0 if none         *)
  pulled,    (* whether that generator has been started                      *)
  primary,   (* with which error a close under way was entered               *)
  then,      (* what follows it otherwise: another attempt, or the failure   *)
  deferred,  (* whether a cancellation arrived during it                     *)
  deadline,  (* the client's deadline; "late" if an error was on its way out *)
  scope,     (* the group's scope: not cancelled, cancelled, delivered       *)
  stop,      (* whether the host was cancelled                               *)
  listener,  (* the disconnect listener                                      *)
  winner,    (* which of the two ended first                                 *)
  outcome,   (* how the operation ended                                      *)
  ended      (* how the dispatch ended                                       *)

vars == <<pc, attempts, open, held, reply, chain, pulled, primary, then, deferred,
          deadline, scope, stop, listener, winner, outcome, ended>>

cancelVars == <<deadline, scope, stop, listener>>
closeVars == <<primary, then, deferred>>
deliveryVars == <<reply, chain, pulled>>
dispatchVars == <<winner, outcome, ended>>

Driving == {"sending", "succeeding", "failing", "closing"}
Delivering == {"starting", "reading", "writing", "settling"}
Steps == Driving \cup Delivering \cup {"joining", "discarding", "cleaning", "releasing", "gone"}

TypeOK ==
  /\ pc \in Steps
  /\ attempts \in 1..MaxAttempts
  /\ open \subseteq 1..attempts
  /\ held \in 0..attempts /\ reply \in 0..attempts /\ chain \in 0..attempts
  /\ pulled \in BOOLEAN /\ deferred \in BOOLEAN /\ stop \in BOOLEAN
  /\ primary \in {"none", "cancelled", "failed"}
  /\ then \in {"retry", "return"}
  /\ deadline \in {"armed", "heard", "late"}
  /\ scope \in {"calm", "asked", "heard"}
  /\ listener \in {"listening", "ended", "broken"}
  /\ winner \in {"none", "operation", "disconnect", "listener"}
  /\ outcome \in {"none", "reply", "failed", "timeout", "cancelled"}
  /\ ended \in {"none", "handed", "answered", "cancelled", "failed", "disconnected"}

Init ==
  /\ pc = "sending" /\ attempts = 1
  /\ open = {} /\ held = 0 /\ reply = 0 /\ chain = 0 /\ pulled = FALSE
  /\ primary = "none" /\ then = "return" /\ deferred = FALSE
  /\ deadline = "armed" /\ scope = "calm" /\ stop = FALSE
  /\ listener = "listening" /\ winner = "none"
  /\ outcome = "none" /\ ended = "none"

(* The driver runs under a replay, not under the dispatch. *)
Replaying == ended = "handed"

(* An await may complete; in a scope that has begun to cancel none does.     *)
Uncancelled == scope # "heard"

(* Mutant: a failing close hides the cancellation that came meanwhile. *)
ExitOwnFailure(closed) ==
  CASE primary # "none" -> primary
    [] primary = "none" /\ ~closed -> "failed"
    [] primary = "none" /\ closed /\ deferred -> "cancelled"
    [] OTHER -> "none"

(* Mutant: a cancellation during the close is forgotten. *)
ExitForgetting(closed) ==
  IF primary = "none" /\ ~closed THEN "failed" ELSE primary

(* What is raised when a shielded close is over: the error it was entered    *)
(* with, else a cancellation that came meanwhile, else its own failure.      *)
Exit(closed) ==
  CASE primary # "none" -> primary
    [] primary = "none" /\ deferred -> "cancelled"
    [] primary = "none" /\ ~deferred /\ ~closed -> "failed"
    [] OTHER -> "none"

(* A clean-up on the way may have replaced the cancellation by an error that *)
(* still holds it; that is a cancellation too.                               *)
HoldsCancellation(form) == form \in {"cancelled", "wrapped"}

-----------------------------------------------------------------------------
(* The driver                                                                *)

(* Mutant: the budget is not asked. *)
BeginUnfunded ==
  attempts' = attempts + 1 /\ pc' = "sending" /\ held' = 0

(* The budget pays for another attempt. *)
Begin ==
  /\ attempts < MaxAttempts
  /\ attempts' = attempts + 1 /\ pc' = "sending" /\ held' = 0

(* The deadline turns its own cancellation into a timeout, and no other.     *)
Told(how) ==
  CASE how = "reply" -> "reply"
    [] how = "cancelled" -> IF deadline' # "armed" /\ scope' # "heard" THEN "timeout" ELSE "cancelled"
    [] OTHER -> "failed"

(* run() is over. Under a replay the delivery goes on over the new response, *)
(* writes its ending, or unwinds; else the operation ends with it.           *)
Leave(how) ==
  /\ held' = 0 /\ UNCHANGED <<attempts, ended>>
  /\ IF Replaying
       THEN /\ pc' = CASE how = "reply" -> "reading"
                       [] how = "returned" -> "writing"
                       [] OTHER -> "cleaning"
            /\ chain' = IF how = "reply" THEN held ELSE 0
            /\ pulled' = (how = "reply")
            /\ UNCHANGED <<reply, outcome, winner>>
       ELSE /\ pc' = "joining"
            /\ outcome' = Told(how)
            /\ reply' = IF how = "reply" THEN held ELSE 0
            /\ winner' = IF winner = "none" THEN "operation" ELSE winner
            /\ UNCHANGED <<chain, pulled>>

(* The way out of one attempt, with an error or into what comes next.        *)
Resolve(error, next) ==
  CASE error # "none" -> Leave(error)
    [] error = "none" /\ next = "retry" -> Begin /\ UNCHANGED <<deliveryVars, dispatchVars>>
    [] OTHER -> Leave("returned")

(* Mutant: a cancelled driver leaves without closing. *)
UnwindAtOnce(error, next) ==
  IF held # 0 /\ error # "cancelled"
    THEN /\ pc' = "closing" /\ primary' = error /\ then' = next /\ deferred' = FALSE
         /\ UNCHANGED <<attempts, open, held, deliveryVars, dispatchVars>>
    ELSE Resolve(error, next) /\ UNCHANGED <<open, closeVars>>

(* The finally of run(): the response it still holds is closed first.        *)
Unwind(error, next) ==
  IF held # 0
    THEN /\ pc' = "closing" /\ primary' = error /\ then' = next /\ deferred' = FALSE
         /\ UNCHANGED <<attempts, open, held, deliveryVars, dispatchVars>>
    ELSE Resolve(error, next) /\ UNCHANGED <<open, closeVars>>

(* Upstream answers; a limited status goes the way of a failure.             *)
Obtain ==
  /\ pc = "sending" /\ Uncancelled
  /\ open' = open \cup {attempts} /\ held' = attempts
  /\ pc' \in {"succeeding", "failing"}
  /\ UNCHANGED <<attempts, deliveryVars, closeVars, cancelVars, dispatchVars>>

(* The attempt, or a subscriber of its success, raises.                      *)
Fail ==
  /\ pc \in {"sending", "succeeding"} /\ Uncancelled
  /\ pc' = "failing"
  /\ UNCHANGED <<attempts, open, held, deliveryVars, closeVars, cancelVars, dispatchVars>>

Succeed ==
  /\ pc = "succeeding" /\ Uncancelled
  /\ UNCHANGED <<open, closeVars, cancelVars>>
  /\ Leave("reply")

(* _handle_failure: a subscriber raises, or the budget decides.              *)
HandleFailure ==
  /\ pc = "failing" /\ Uncancelled
  /\ UNCHANGED cancelVars
  /\ \/ Unwind("failed", "return")
     \/ Unwind("none", "return")
     \/ attempts < MaxAttempts /\ Unwind("none", "retry")

(* The response is closed, whether or not the close reports a failure.       *)
Close(closed) ==
  /\ pc = "closing"
  /\ open' = open \ {held}
  /\ primary' = "none" /\ then' = "return" /\ deferred' = FALSE
  /\ UNCHANGED cancelVars
  /\ Resolve(Exit(closed), then)

-----------------------------------------------------------------------------
(* Cancellation                                                              *)

(* The driver hears a cancellation at an await, or during its close.         *)
DriverHears ==
  \/ /\ pc \in {"sending", "succeeding"}
     /\ \E form \in {"cancelled", "wrapped"} :
          IF HoldsCancellation(form)
            THEN Unwind("cancelled", "return")
            ELSE pc' = "failing" /\ UNCHANGED <<attempts, open, held, deliveryVars, closeVars, dispatchVars>>
  \/ pc = "failing" /\ Unwind("cancelled", "return")
  \/ /\ pc = "closing" /\ deferred' = TRUE
     /\ UNCHANGED <<pc, attempts, open, held, deliveryVars, primary, then, dispatchVars>>

(* The client's deadline; the body has a clock of its own.                   *)
DeadlineFires ==
  /\ ~Replaying /\ deadline = "armed"
  /\ deadline' = IF pc = "closing" /\ primary = "failed" THEN "late" ELSE "heard"
  /\ UNCHANGED <<scope, stop, listener>>
  /\ DriverHears

(* So does the delivery: its generator unwinds if the cancellation finds it  *)
(* reading, and stays suspended if it finds the server writing.              *)
DeliveryHears ==
  \/ /\ pc \in {"starting", "writing"} /\ pc' = "cleaning"
     /\ UNCHANGED <<attempts, open, held, deliveryVars, closeVars, dispatchVars>>
  \/ /\ pc = "reading" /\ pc' = "settling"
     /\ primary' = "cancelled" /\ then' = "return" /\ deferred' = FALSE
     /\ UNCHANGED <<attempts, open, held, deliveryVars, dispatchVars>>
  \/ /\ pc = "settling" /\ deferred' = TRUE
     /\ UNCHANGED <<pc, attempts, open, held, deliveryVars, primary, then, dispatchVars>>

ScopeStrikes ==
  /\ scope = "asked" \/ (scope = "heard" /\ ~deferred)
  /\ scope' = "heard"
  /\ UNCHANGED <<deadline, stop, listener>>
  /\ DriverHears \/ DeliveryHears

CancelScope == scope' = IF scope = "calm" THEN "asked" ELSE scope

(* The client leaves, or receive() raises.                                   *)
ListenerEnds(how) ==
  /\ listener = "listening" /\ pc \in Driving \cup Delivering \cup {"joining"}
  /\ listener' = IF how = "disconnect" THEN "ended" ELSE "broken"
  /\ winner' = IF winner = "none" THEN how ELSE winner
  /\ CancelScope
  /\ UNCHANGED <<pc, attempts, open, held, deliveryVars, closeVars, deadline, stop, outcome, ended>>

(* The server cancels the host, which waits for the group or closes.         *)
StopHost ==
  /\ ~stop /\ pc # "gone"
  /\ stop' = TRUE
  /\ IF pc \in Driving \cup Delivering THEN CancelScope ELSE UNCHANGED scope
  /\ UNCHANGED <<pc, attempts, open, held, deliveryVars, closeVars, deadline, listener, dispatchVars>>

-----------------------------------------------------------------------------
(* The end of the dispatch                                                   *)

(* The first to end decides. An error is answered inside the operation, so   *)
(* only a cancellation leaves it as one; a response is handed over, and an   *)
(* answer sent, only if the listener has stopped cleanly.                    *)
Verdict ==
  CASE stop -> "cancelled"
    [] ~stop /\ winner = "disconnect" -> "disconnected"
    [] ~stop /\ winner = "listener" -> "failed"
    [] OTHER ->
         CASE outcome = "cancelled" -> "cancelled"
           [] outcome # "cancelled" /\ listener = "broken" -> "failed"
           [] outcome = "reply" /\ listener # "broken" -> "handed"
           [] OTHER -> "answered"

(* Both tasks of the group have ended.                                       *)
Join ==
  /\ pc = "joining"
  /\ ended' = Verdict
  /\ pc' = CASE Verdict = "handed" -> "starting"
             [] Verdict # "handed" /\ reply # 0 -> "discarding"
             [] OTHER -> "gone"
  /\ IF Verdict = "handed"
       THEN chain' = reply /\ scope' = "calm" /\ listener' = "listening"
       ELSE UNCHANGED <<chain, scope, listener>>
  /\ UNCHANGED <<attempts, open, held, reply, pulled, closeVars, deadline, stop, winner, outcome>>

(* A response that nobody will deliver is closed, shielded like the others.  *)
Discard ==
  /\ pc = "discarding" /\ pc' = "gone"
  /\ open' = open \ {reply}
  /\ UNCHANGED <<attempts, held, deliveryVars, closeVars, cancelVars, dispatchVars>>

-----------------------------------------------------------------------------
(* The delivery                                                              *)

(* The status is sent, then a chunk is pulled and written, and so on.        *)
Deliver ==
  /\ pc \in {"starting", "reading", "writing"} /\ Uncancelled
  /\ pc' = CASE pc = "reading" -> "writing"
             [] pc = "writing" /\ chain = 0 -> "cleaning"
             [] OTHER -> "reading"
  /\ pulled' = (pulled \/ pc = "starting")
  /\ UNCHANGED <<attempts, open, held, reply, chain, closeVars, cancelVars, dispatchVars>>

(* The server cannot write to the client.                                    *)
SendFails ==
  /\ pc \in {"starting", "writing"} /\ pc' = "cleaning"
  /\ UNCHANGED <<attempts, open, held, deliveryVars, closeVars, cancelVars, dispatchVars>>

(* The body ends or tears, or assembling what it brought fails.              *)
BodyEnds(error) ==
  /\ pc = "reading" /\ Uncancelled
  /\ pc' = "settling"
  /\ primary' = error /\ then' = "return" /\ deferred' = FALSE
  /\ UNCHANGED <<attempts, open, held, deliveryVars, cancelVars, dispatchVars>>

(* The generator has closed its response; after a failure that is worth it   *)
(* the driver runs again, else the ending is written.                        *)
Settle(closed) ==
  /\ pc = "settling"
  /\ open' = open \ {chain}
  /\ chain' = 0 /\ pulled' = FALSE
  /\ \/ Exit(closed) = "cancelled" /\ pc' = "cleaning" /\ UNCHANGED <<attempts, held>>
     \/ Exit(closed) # "cancelled" /\ pc' = "writing" /\ UNCHANGED <<attempts, held>>
     \/ Exit(closed) = "failed" /\ Begin
  /\ primary' = "none" /\ then' = "return" /\ deferred' = FALSE
  /\ UNCHANGED <<reply, cancelVars, dispatchVars>>

(* The streaming response closes its generator, which does nothing if that   *)
(* has not been started, and then, whatever came of it, the first response.  *)
CloseContent ==
  /\ pc = "cleaning" /\ pc' = "releasing"
  /\ open' = IF pulled THEN open \ {chain} ELSE open
  /\ UNCHANGED <<attempts, held, deliveryVars, closeVars, cancelVars, dispatchVars>>

CloseReply ==
  /\ pc = "releasing" /\ pc' = "gone"
  /\ open' = open \ {reply}
  /\ UNCHANGED <<attempts, held, deliveryVars, closeVars, cancelVars, dispatchVars>>

-----------------------------------------------------------------------------
Next ==
  \/ Obtain \/ Fail \/ Succeed \/ HandleFailure
  \/ \E closed \in BOOLEAN : Close(closed)
  \/ DeadlineFires \/ ScopeStrikes \/ StopHost
  \/ \E how \in {"disconnect", "listener"} : ListenerEnds(how)
  \/ Join \/ Discard \/ Deliver \/ SendFails
  \/ \E error \in {"none", "failed"} : BodyEnds(error)
  \/ \E closed \in BOOLEAN : Settle(closed)
  \/ CloseContent \/ CloseReply

Spec == Init /\ [][Next]_vars

(* A cancellation arrives, a close ends, the loop runs on. *)
FairSpec ==
  /\ Spec
  /\ WF_vars(ScopeStrikes)
  /\ WF_vars(\E closed \in BOOLEAN : Close(closed) \/ Settle(closed))
  /\ WF_vars(Join \/ Discard \/ CloseContent \/ CloseReply)

-----------------------------------------------------------------------------
(* Properties.                                                               *)

(* Every response that was obtained and is open is in the hands of somebody  *)
(* who will close it, a torn one is closed before another is opened, what is *)
(* delivered is not closed under the delivery, and nothing is left open when *)
(* the request is gone, however cancellations, failing subscribers, failing  *)
(* closes and a client that leaves meet.                                     *)
Owned ==
  /\ open \subseteq {held, reply, chain} /\ Cardinality(open) <= 1
  /\ pc = "starting" => reply \in open
  /\ pc \in {"reading", "writing"} /\ chain # 0 => chain \in open
  /\ pc = "gone" => open = {}

(* A client whose deadline interrupted the request is told so: it gets no    *)
(* reply and no other error, though the cancellation may have been wrapped   *)
(* by a clean-up, or have come while a response was closed for a retry and   *)
(* that close have failed too.                                               *)
DeadlineTold ==
  /\ deadline # "armed" => ended # "handed"
  /\ deadline = "heard" /\ ended = "answered" => outcome = "timeout"

(* No response is obtained once the request has heard that it is cancelled,  *)
(* although a close may have kept the cancellation to itself for a while.    *)
NothingOpenedLate ==
  [][~(open' \subseteq open) => scope # "heard" /\ deadline = "armed"]_vars

(* A request that is interrupted ends, and with it, by Owned, its response.  *)
Interrupted ==
  deadline # "armed" \/ stop \/ winner \in {"disconnect", "listener"} \/ (Replaying /\ scope # "calm")

InterruptedEnds == Interrupted ~> pc = "gone"

=============================================================================
