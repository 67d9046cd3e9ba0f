--------------------------- MODULE BlockDelivery ---------------------------
(***************************************************************************)
(* One streaming client request: the upstream attempts the driver opens,   *)
(* the assembler that turns upstream events into complete blocks, the      *)
(* buffer that holds blocks until the policy lets them go, the session     *)
(* that writes them, and everything `_deliver` does when the upstream body *)
(* ends, tears, is refused by one of the proxy's own protections, or runs  *)
(* out of the client's time (pipeline/delivery/stream.py, blocks.py,       *)
(* retry.py, driver.py, direct_driver/base.py).                            *)
(*                                                                         *)
(* A block is its number in the attempt that produced it. What the client  *)
(* holds is `got`, a sequence of <<attempt, block>> pairs kept as records, *)
(* so that a block of a discarded attempt, a repeated one and a missing    *)
(* one can be told apart. Keep-alive comments carry nothing a client       *)
(* stores and are not modelled; the same-format Responses leg, whose unit  *)
(* is a run of raw events, is not this module's.                           *)
(***************************************************************************)
EXTENDS RetryLedger, Sequences

CONSTANTS
  Policies,        (* the buffering policies under test                        *)
  Clients,         (* the dialects clients ask in                              *)
  Upstreams,       (* the dialects upstreams answer in                         *)
  Cap,             (* buffer_cap_bytes, 0 for none                             *)
  Sizes,           (* sizes an admission batch may have                        *)
  MaxUnits,        (* bound: blocks one attempt produces                       *)
  MaxGroup,        (* bound: blocks joined in one admission batch              *)
  ToolConfigured,  (* whether auto_retry_tool_call_full_name names a tool      *)
  Unterminated     (* unterminated_stream_stop_reason, "" for off              *)

AllPolicies == {"block", "full", "until-tool-use"}
AllClients == {"anthropic", "responses", "chat"}

(* A chat upstream announces no block's end; the others do. Only Anthropic  *)
(* splits its ending over two events. A commandcode stream with neither     *)
(* terminal nor output is a failure.                                        *)
UpstreamKinds == {"anthropic", "responses", "chat", "commandcode"}

(* delivers_blocks, carries_upstream_natively: a chat or Responses client   *)
(* of an upstream of its own dialect gets upstream's bytes or events.       *)
DeliversBlocks(c, u) == c = u => c = "anthropic"

ASSUME DeliveryAssumption ==
  /\ Policies \subseteq AllPolicies
  /\ Clients \subseteq AllClients
  /\ Upstreams \subseteq UpstreamKinds
  /\ Cap \in Nat
  /\ Sizes \subseteq Nat
  /\ MaxUnits \in Nat
  /\ MaxGroup \in Nat
  /\ ToolConfigured \in BOOLEAN
  /\ Unterminated \in {"", "incomplete", "end_turn"}
  /\ Reasons \cap {"none", "unnamed", "deadline", "cap", "fault"} = {}

StopReasons == {"end_turn", "max_tokens"}

(* continuation.stop_reasons *)
HandOverReasons == {"max_tokens"}

(* Failures of this side: the cap, and a fault while assembling or framing. *)
Ours == {"cap", "fault"}

(* Everything `torn` may hold. "unnamed" is an upstream failure the retry   *)
(* taxonomy has no word for; "deadline" is client_request_deadline.         *)
Tears == Reasons \cup {"none", "unnamed", "deadline"} \cup Ours

Endings == {"open", "terminal", "handover", "reported", "failed", "truncated",
            "unspellable", "deadline", "empty", "raised", "refused", "gone"}

(* Which of the payloads a recovery has stripped: none; the one the request  *)
(* was answered on, which every replay sends again; or only a replay's copy. *)
Recoveries == {"no", "source", "replay"}

Steps == {"opening", "pulling", "admitting", "torn", "reopening", "abandoning",
          "closing", "finishing", "ending", "done"}

VARIABLES
  policy, client, upstream,                 (* fixed for the request         *)
  pc, tear,                                 (* where `_deliver` stands       *)
  att, ledger, recovered, draining,         (* attempts and their budget     *)
  made, open, seen, stop, failed,           (* the current assembler         *)
  held, heldBytes, toolReleased, delivered, (* its buffer and session        *)
  opened,                                   (* client_has_bytes              *)
  preambles, got, terminals, errors, call,  (* what the client received      *)
  ending

config == <<policy, client, upstream>>
attempts == <<att, ledger, recovered>>
assembler == <<made, open, seen, stop, failed>>
session == <<held, heldBytes, toolReleased, delivered>>
wire == <<opened, preambles, got, terminals, errors, call, ending>>
vars == <<config, pc, tear, attempts, draining, assembler, session, wire>>

Unit == [attempt: Nat, index: Nat]

TypeOK ==
  /\ policy \in Policies /\ client \in Clients /\ upstream \in Upstreams
  /\ pc \in Steps
  /\ tear \in Tears
  /\ att \in Nat /\ ledger \in Ledger
  /\ recovered \in Recoveries /\ draining \in BOOLEAN
  /\ made \in Nat
  /\ open \in BOOLEAN /\ seen \in BOOLEAN /\ failed \in BOOLEAN
  /\ stop \in StopReasons \cup {""}
  /\ held \in Seq(Nat) /\ heldBytes \in Nat
  /\ toolReleased \in BOOLEAN
  /\ delivered \in Seq(Nat)
  /\ opened \in BOOLEAN
  /\ preambles \in Nat /\ got \in Seq(Unit)
  /\ terminals \in Nat /\ errors \in Nat /\ call \in Nat \cup {-1}
  /\ ending \in Endings

Init ==
  /\ policy \in Policies /\ client \in Clients /\ upstream \in Upstreams
  /\ DeliversBlocks(client, upstream)
  /\ pc = "opening" /\ tear = "none"
  /\ att = 1 /\ ledger = EmptyLedger /\ recovered = "no" /\ draining = FALSE
  /\ made = 0 /\ open = FALSE /\ seen = FALSE /\ stop = "" /\ failed = FALSE
  /\ held = <<>> /\ heldBytes = 0 /\ toolReleased = FALSE /\ delivered = <<>>
  /\ opened = FALSE /\ preambles = 0 /\ got = <<>>
  /\ terminals = 0 /\ errors = 0 /\ call = -1 /\ ending = "open"

-----------------------------------------------------------------------------
(* The driver's attempt loop, before the response headers ("opening") and    *)
(* again under a replay ("reopening").                                       *)

Driving == pc \in {"opening", "reopening"}

(* The attempt failed and its failure is funded: LedgerBudget.take_for.      *)
DriverRetries(r) ==
  /\ Driving
  /\ ~draining
  /\ Funded(ledger, r)
  /\ ledger' = Spend(ledger, r)
  /\ att' = att + 1
  /\ UNCHANGED <<config, pc, tear, recovered, draining, assembler, session, wire>>

(* ConnectionBoundInputIdRetry: one more attempt with the offending state    *)
(* stripped from the payload, outside the ledger and before its drain check. *)
(* A stripped payload has nothing left to strip. Responses upstreams only.   *)
DriverRecovers ==
  /\ Driving
  /\ upstream = "responses"
  /\ recovered = "no"
  /\ recovered' = IF pc = "opening" THEN "source" ELSE "replay"
  /\ att' = att + 1
  /\ UNCHANGED <<config, pc, tear, ledger, draining, assembler, session, wire>>

(* Mutant: the replacement attempt inherits the torn attempt's buffer. *)
SucceedsKeepingBuffer ==
  /\ Driving
  /\ pc' = "pulling" /\ tear' = "none"
  /\ made' = 0 /\ open' = FALSE /\ seen' = FALSE /\ stop' = "" /\ failed' = FALSE
  /\ UNCHANGED <<config, attempts, draining, session, wire>>

(* Headers arrived. A replacement drops everything the torn attempt built.   *)
DriverSucceeds ==
  /\ Driving
  /\ pc' = "pulling" /\ tear' = "none"
  /\ made' = 0 /\ open' = FALSE /\ seen' = FALSE /\ stop' = "" /\ failed' = FALSE
  /\ held' = <<>> /\ heldBytes' = 0 /\ toolReleased' = FALSE /\ delivered' = <<>>
  /\ UNCHANGED <<config, attempts, draining, wire>>

(* No attempt is left. Before the headers that is an ordinary HTTP error.    *)
DriverGivesUp ==
  /\ Driving
  /\ IF pc = "opening"
     THEN pc' = "done" /\ ending' = "refused"
     ELSE pc' = "abandoning" /\ UNCHANGED ending
  /\ UNCHANGED <<config, tear, attempts, draining, assembler, session,
                 opened, preambles, got, terminals, errors, call>>

(* Anything `reopen` itself raises leaves `_deliver` unframed.               *)
ReopenRaises ==
  /\ pc = "reopening"
  /\ pc' = "done" /\ ending' = "raised"
  /\ UNCHANGED <<config, tear, attempts, draining, assembler, session,
                 opened, preambles, got, terminals, errors, call>>

-----------------------------------------------------------------------------
(* Reading upstream.                                                         *)

(* One event is pushed into the assembler. Its blocks follow in Admit. The   *)
(* terminal is the last event that changes an assembler; Anthropic may give  *)
(* the stop reason earlier, in a message_delta, the others only with it.     *)
UpstreamEvent ==
  /\ pc = "pulling"
  /\ ~seen
  /\ pc' = "admitting"
  /\ open' \in BOOLEAN /\ seen' \in BOOLEAN /\ failed' \in BOOLEAN
  /\ upstream = "chat" /\ seen' => ~open'
  /\ \/ stop' = stop
     \/ stop = "" /\ stop' \in StopReasons /\ (upstream = "anthropic" \/ seen')
  /\ UNCHANGED <<config, tear, attempts, draining, made, session, wire>>

(* The next k blocks of the attempt, as one admission batch.                 *)
Batch(k) == [i \in 1 .. k |-> made + i - 1]

(* BlockBuffer._enforce_cap *)
OverCap(bytes) == Cap > 0 /\ heldBytes + bytes > Cap

(* BlockBuffer.add_many: what leaves the buffer once the batch is in it.     *)
Released(queue, owes) ==
  IF \/ policy = "block"
     \/ policy = "until-tool-use" /\ (toolReleased \/ owes)
  THEN queue
  ELSE <<>>

(* Mutant: block numbers taken to start at one. *)
FramedShifted(units) ==
  [i \in DOMAIN units |-> [attempt |-> att, index |-> units[i] - 1]]

Framed(units) ==
  [i \in DOMAIN units |-> [attempt |-> att, index |-> units[i]]]

(* The chat framer's preamble is empty; the others open with a frame.        *)
HasPreamble == client # "chat"

(* Mutant: every release is opened again. *)
PreambleAlwaysOwed(ready) == ready # <<>>

(* The preamble goes out with the first block and only then.                 *)
PreambleOwed(ready) == ready # <<>> /\ ~opened

(* `_commit`: the batch enters the buffer, the released blocks enter the     *)
(* session together, the preamble goes out ahead of the first one, and       *)
(* framing reaches only the first `sent` of them when it faults.             *)
Commit(k, bytes, owes, sent) ==
  LET queue == held \o Batch(k)
      ready == Released(queue, owes)
  IN  /\ sent \in 0 .. Len(ready)
      /\ held' = IF ready = <<>> THEN queue ELSE <<>>
      /\ heldBytes' = IF ready = <<>> THEN heldBytes + bytes ELSE 0
      /\ toolReleased' = (toolReleased \/ (policy = "until-tool-use" /\ owes))
      /\ delivered' = delivered \o ready
      /\ preambles' = IF PreambleOwed(ready) THEN preambles + 1 ELSE preambles
      /\ opened' = (opened \/ (ready # <<>> /\ (HasPreamble \/ sent > 0)))
      /\ got' = got \o Framed(SubSeq(ready, 1, sent))
      /\ made' = made + k
      /\ UNCHANGED <<terminals, errors, call>>

(* How many of the released blocks a fault-free commit frames.               *)
AllOf(k, owes) == Len(Released(held \o Batch(k), owes))

(* Blocks may be completed by the event just pushed, or by chat's close().   *)
Completing ==
  \/ pc = "admitting"
  \/ pc = "closing" /\ upstream = "chat" /\ open

Admit(k, bytes, owes) ==
  /\ Completing
  /\ made + k <= MaxUnits
  /\ ~OverCap(bytes)
  /\ Commit(k, bytes, owes, AllOf(k, owes))
  /\ UNCHANGED <<config, pc, tear, attempts, draining,
                 open, seen, stop, failed, ending>>

(* An exception from `_commit` tears the stream, except from close(), where  *)
(* nothing catches it and it leaves `_deliver` without a frame.              *)
Faults ==
  IF pc = "admitting"
  THEN pc' = "torn" /\ UNCHANGED ending
  ELSE pc' = "done" /\ ending' = "raised"

(* BufferCapExceeded: the batch is refused before any of it is held.         *)
RefuseBatch(k, bytes) ==
  /\ Completing
  /\ made + k <= MaxUnits
  /\ OverCap(bytes)
  /\ made' = made + k
  /\ tear' = "cap"
  /\ Faults
  /\ UNCHANGED <<config, attempts, draining, open, seen, stop, failed, session,
                 opened, preambles, got, terminals, errors, call>>

(* A released block the client's framer cannot spell.                        *)
FramingFault(k, bytes, owes) ==
  /\ Completing
  /\ made + k <= MaxUnits
  /\ ~OverCap(bytes)
  /\ \E sent \in 0 .. AllOf(k, owes) - 1 : Commit(k, bytes, owes, sent)
  /\ tear' = "fault"
  /\ Faults
  /\ UNCHANGED <<config, attempts, draining, open, seen, stop, failed>>

EventDone ==
  /\ pc = "admitting" /\ ~failed
  /\ pc' = "pulling"
  /\ UNCHANGED <<config, tear, attempts, draining, assembler, session, wire>>

-----------------------------------------------------------------------------
(* Endings. Each writes at most one terminal or one error frame.             *)

End(how) ==
  /\ pc' = "done"
  /\ ending' = how

EndWithError(how) ==
  /\ End(how)
  /\ errors' = errors + 1
  /\ UNCHANGED <<config, tear, attempts, draining, assembler, session,
                 opened, preambles, got, terminals, call>>

EndWithTerminal ==
  /\ End("terminal")
  /\ terminals' = terminals + 1
  /\ UNCHANGED <<config, tear, attempts, draining, assembler, session,
                 opened, preambles, got, errors, call>>

(* `_hand_over`: what is still held, the synthesised call, and the close. A  *)
(* preamble goes out only if the session never released a block.             *)
EndWithHandOver ==
  /\ End("handover")
  /\ delivered' = delivered \o held
  /\ held' = <<>> /\ heldBytes' = 0
  /\ preambles' = IF delivered = <<>> THEN preambles + 1 ELSE preambles
  /\ got' = got \o Framed(held)
  /\ call' = Len(delivered \o held)
  /\ terminals' = terminals + 1
  /\ UNCHANGED <<config, tear, attempts, draining, assembler, toolReleased,
                 opened, errors>>

(* Mutant: the client's dialect is not asked. *)
ContinuableByAnyone == ToolConfigured

(* hand_back_block: an Anthropic client and a configured tool name.          *)
Continuable == client = "anthropic" /\ ToolConfigured

(* Mutant: the loop goes on after the error frame. *)
ReportFailureAndGoOn ==
  /\ pc \in {"admitting", "finishing"} /\ failed
  /\ pc' = "pulling"
  /\ errors' = errors + 1
  /\ UNCHANGED <<config, tear, attempts, draining, assembler, session,
                 opened, preambles, got, terminals, call, ending>>

(* Upstream reported the turn failed; blocks of the same event went first.   *)
ReportFailure ==
  /\ pc \in {"admitting", "finishing"} /\ failed
  /\ EndWithError("reported")

-----------------------------------------------------------------------------
(* The pull raised, or the assembler did: transport, idle and attempt        *)
(* deadlines under a named reason, anything else upstream produced, a bug of *)
(* this side, or the client's deadline.                                      *)
Tear(class) ==
  /\ pc = "pulling"
  /\ pc' = "torn" /\ tear' = class
  /\ UNCHANGED <<config, attempts, draining, assembler, session, wire>>

(* The client's time is up: said first, and nothing buffered is flushed.     *)
TornDeadline ==
  /\ pc = "torn" /\ tear = "deadline"
  /\ EndWithError("deadline")

(* Mutant: `terminal.seen` is asked before the client's deadline. *)
TornFinishedFirst ==
  /\ pc = "torn" /\ seen
  /\ pc' = "closing"
  /\ UNCHANGED <<config, tear, attempts, draining, assembler, session, wire>>

(* Upstream had finished: the tear changes nothing and the loop breaks.      *)
TornFinished ==
  /\ pc = "torn" /\ tear # "deadline" /\ seen
  /\ pc' = "closing"
  /\ UNCHANGED <<config, tear, attempts, draining, assembler, session, wire>>

(* Mutant: a replay is funded whatever the client holds. *)
ReplayableAnyTime == tear \in Reasons /\ Funded(ledger, tear)

(* decide_stream_ending: nothing the client can see, and the budget allows.  *)
Replayable ==
  /\ tear \in Reasons
  /\ ~opened
  /\ Funded(ledger, tear)

(* A replay sends the answered payload again, not what a replay made of it.  *)
SourcePayload == IF recovered = "source" THEN "source" ELSE "no"

(* The budget is spent first; a draining process then declines to reopen.    *)
Replay ==
  /\ pc = "torn" /\ ~seen
  /\ Replayable
  /\ ledger' = Spend(ledger, tear)
  /\ IF draining
     THEN pc' = "abandoning" /\ UNCHANGED <<att, recovered>>
     ELSE pc' = "reopening" /\ att' = att + 1 /\ recovered' = SourcePayload
  /\ UNCHANGED <<config, tear, draining, assembler, session, wire>>

Abandoned ==
  \/ pc = "abandoning"
  \/ pc = "torn" /\ tear # "deadline" /\ ~seen /\ ~Replayable

(* An upstream failure is offered to the hand-over, ours never is.           *)
Offered == tear \notin Ours /\ Continuable /\ delivered # <<>>

TornHandOver == Abandoned /\ Offered /\ EndWithHandOver

TornError == Abandoned /\ ~Offered /\ EndWithError("failed")

-----------------------------------------------------------------------------
(* Upstream's body ended.                                                    *)
Eof ==
  /\ pc = "pulling"
  /\ pc' = "closing"
  /\ UNCHANGED <<config, tear, attempts, draining, assembler, session, wire>>

(* close() returned: chat has flushed its open drafts (Admit), commandcode   *)
(* calls a stream with neither terminal nor output a failure.                *)
Close ==
  /\ pc = "closing"
  /\ pc' = "finishing"
  /\ open' = (open /\ upstream # "chat")
  /\ failed' = (failed \/ (upstream = "commandcode" /\ ~seen /\ made = 0))
  /\ UNCHANGED <<config, tear, attempts, draining, made, seen, stop, session, wire>>

(* session.finish(): what the policy was holding goes out.                   *)
Flush(sent) ==
  /\ held' = <<>> /\ heldBytes' = 0
  /\ delivered' = delivered \o held
  /\ preambles' = IF PreambleOwed(held) THEN preambles + 1 ELSE preambles
  /\ opened' = (opened \/ held # <<>>)
  /\ got' = got \o Framed(SubSeq(held, 1, sent))
  /\ UNCHANGED <<config, attempts, draining, assembler, toolReleased,
                 terminals, errors, call>>

(* Mutant: only the `full` policy is flushed at the end. *)
FinishFullOnly ==
  /\ pc = "finishing" /\ ~failed
  /\ pc' = "ending"
  /\ policy = "full" => Flush(Len(held))
  /\ policy # "full" => UNCHANGED <<config, attempts, draining, assembler, session,
                                     opened, preambles, got, terminals, errors, call>>
  /\ UNCHANGED <<tear, ending>>

Finish ==
  /\ pc = "finishing" /\ ~failed
  /\ pc' = "ending"
  /\ Flush(Len(held))
  /\ UNCHANGED <<tear, ending>>

FinishFault ==
  /\ pc = "finishing" /\ ~failed
  /\ \E sent \in 0 .. Len(held) - 1 : Flush(sent)
  /\ tear' = "fault"
  /\ End("raised")

(* Upstream ran out of room and said so: always handed over.                 *)
OutOfRoom == Continuable /\ seen /\ stop \in HandOverReasons

EndOutOfRoom ==
  /\ pc = "ending" /\ OutOfRoom
  /\ EndWithHandOver

(* Nothing ever went out: an empty body and no frame.                        *)
EndEmpty ==
  /\ pc = "ending" /\ ~OutOfRoom /\ ~opened
  /\ End("empty")
  /\ UNCHANGED <<config, tear, attempts, draining, assembler, session,
                 opened, preambles, got, terminals, errors, call>>

EndNormally ==
  /\ pc = "ending" /\ ~OutOfRoom /\ opened /\ seen
  /\ EndWithTerminal

(* No terminal event, and the stream was not cut inside a block.             *)
AtBoundary == ~open /\ Unterminated # ""

SynthesisedReason == IF stop # "" THEN stop ELSE Unterminated

(* Only Responses has a word for "incomplete".                               *)
SupportsStopReason(reason) == reason # "incomplete" \/ client = "responses"

EndAtBoundary ==
  /\ pc = "ending" /\ opened /\ ~seen /\ AtBoundary
  /\ IF SupportsStopReason(SynthesisedReason)
     THEN EndWithTerminal
     ELSE EndWithError("unspellable")

EndCutShort ==
  /\ pc = "ending" /\ opened /\ ~seen /\ ~AtBoundary
  /\ IF Continuable /\ delivered # <<>>
     THEN EndWithHandOver
     ELSE EndWithError("truncated")

-----------------------------------------------------------------------------
(* The rest of the world.                                                    *)

BeginDrain ==
  /\ ~draining
  /\ draining' = TRUE
  /\ UNCHANGED <<config, pc, tear, attempts, assembler, session, wire>>

(* The client went away: a cancellation, which `except Exception` never sees. *)
ClientGone ==
  /\ pc # "done"
  /\ End("gone")
  /\ UNCHANGED <<config, tear, attempts, draining, assembler, session,
                 opened, preambles, got, terminals, errors, call>>

Terminated == pc = "done" /\ UNCHANGED vars

TearClasses == Reasons \cup {"unnamed", "deadline", "fault"}

Drive ==
  \/ \E r \in Reasons : DriverRetries(r)
  \/ DriverRecovers
  \/ DriverSucceeds
  \/ DriverGivesUp
  \/ ReopenRaises

Read ==
  \/ UpstreamEvent
  \/ \E k \in 1 .. MaxGroup, bytes \in Sizes :
       \/ RefuseBatch(k, bytes)
       \/ \E owes \in BOOLEAN : Admit(k, bytes, owes) \/ FramingFault(k, bytes, owes)
  \/ EventDone
  \/ ReportFailure
  \/ \E class \in TearClasses : Tear(class)
  \/ Eof

Settle ==
  \/ TornDeadline \/ TornFinished \/ Replay \/ TornHandOver \/ TornError
  \/ Close \/ Finish \/ FinishFault
  \/ EndOutOfRoom \/ EndEmpty \/ EndNormally \/ EndAtBoundary \/ EndCutShort

Next == Drive \/ Read \/ Settle \/ BeginDrain \/ ClientGone \/ Terminated

Spec == Init /\ [][Next]_vars

(* Upstream may talk for ever, so `pulling` is left only because             *)
(* client_request_deadline cuts it; a driver run ends because each attempt   *)
(* has a deadline; the rest is this side's own code, which keeps running.    *)
Fairness ==
  /\ WF_vars(Drive)
  /\ WF_vars(EventDone \/ ReportFailure)
  /\ WF_vars(Settle)
  /\ SF_vars(Tear("deadline"))

FairSpec == Spec /\ Fairness
-----------------------------------------------------------------------------
(* Properties.                                                               *)

(* Every upstream attempt but the first was paid for, out of the one ledger  *)
(* the driver's retries and delivery's replays share, or is a recovery of    *)
(* connection-bound input: one for the request when it came before the       *)
(* headers, otherwise at most one under each replay the ledger paid for.     *)
(* ledger_for used to build a ledger per call, which bounded only a call.    *)
AttemptsFunded ==
  /\ att <= 1 + ledger.total + (IF recovered = "source" THEN 1 ELSE ledger.total)
  /\ WithinBudget(ledger)

(* The client's reply is a prefix of one attempt: blocks 0, 1, 2, ... of the *)
(* attempt now running. Nothing of a discarded attempt survives a replay,    *)
(* nothing is delivered twice by a flush, and no block is skipped.           *)
InOrder ==
  \A i \in 1 .. Len(got) : got[i] = [attempt |-> att, index |-> i - 1]

(* The message opens once, before its first block, whichever of the three    *)
(* doors (admission, final flush, hand-over) lets that block out; a client   *)
(* that is handed a synthesised call has a message to put it in.             *)
OpensOnce ==
  /\ preambles <= 1
  /\ got # <<>> \/ terminals > 0 => preambles = 1

(* A finished delivery wrote exactly one closing frame, a terminal or an     *)
(* error, unless it ended in one of the four ways that write none.           *)
OneEnding ==
  /\ terminals + errors <= 1
  /\ terminals + errors = 1 <=>
       ending \notin {"open", "empty", "raised", "refused", "gone"}

(* When a reply closes as a reply, every block the attempt completed is in   *)
(* it, under every policy and from every ending; an empty body means nothing *)
(* was completed. The exception are failures of the proxy's own (Ours), such *)
(* as a refused batch, on the event that also brought upstream's terminal:   *)
(* they pass for a finished turn (stream.py:527).                            *)
NothingLost ==
  ending \in {"terminal", "handover", "empty"} /\ tear \notin Ours
    => Len(got) = made

(* The synthesised call is numbered right after the last block the client    *)
(* holds, and goes only to a client that can execute it.                     *)
CallFollowsReply ==
  ending = "handover" =>
    /\ client = "anthropic"
    /\ tear \notin Ours => call = Len(got)

(* The client's deadline always says so, and outranks a finished turn.       *)
DeadlineSaid ==
  tear = "deadline" /\ pc = "done" /\ ending # "gone" =>
    ending = "deadline" /\ errors = 1 /\ terminals = 0

(* Once draining, no attempt is opened out of the retry budget.              *)
NoRetryWhileDraining ==
  [][draining /\ att' # att => recovered' # recovered]_vars

-----------------------------------------------------------------------------
(* What the client is promised, see DeliveryPromise.                         *)
Promise ==
  INSTANCE DeliveryPromise WITH
    source <- att, shown <- got, outcome <- ending

PromiseKept == Promise!FairSpec
=============================================================================
