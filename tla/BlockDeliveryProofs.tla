------------------------ MODULE BlockDeliveryProofs ------------------------
(***************************************************************************)
(* Proofs about BlockDelivery for every value of its constants.            *)
(*                                                                         *)
(* IInv carries what the reply promises, Funding its attempts. The last    *)
(* theorem is what the end of a delivery rests on: what the ledger and the *)
(* recoveries under it still pay for shrinks with every attempt, and each  *)
(* attempt only goes on to later places.                                   *)
(***************************************************************************)
EXTENDS BlockDelivery, SequenceTheorems, TLAPS

-----------------------------------------------------------------------------
(* The inductive invariant.                                                  *)

Numbered(s, from) == \A i \in 1 .. Len(s) : s[i] = from + i - 1

(* While upstream is read nothing has torn; a tear that reaches close() left *)
(* a finished turn; a finished chat turn has no open draft.                  *)
Phases ==
  /\ pc \in {"opening", "pulling", "admitting"} => tear = "none"
  /\ pc = "closing" /\ tear # "none" => seen
  /\ upstream = "chat" /\ seen => ~open
  /\ pc \in {"opening", "reopening", "abandoning"} => tear \notin Ours

(* Released and held blocks are consecutive, the client holds the released   *)
(* ones, and only a failure of this side may leave the client behind.        *)
Consecutive ==
  /\ Numbered(delivered, 0)
  /\ Numbered(held, Len(delivered))
  /\ Len(got) <= Len(delivered)
  /\ InOrder
  /\ Len(got) = Len(delivered) \/ held = <<>>
  /\ tear \notin Ours => /\ Len(got) = Len(delivered)
                         /\ Len(delivered) + Len(held) = made
  /\ pc = "ending" => held = <<>>
  /\ ending \in {"terminal", "handover", "empty"} => held = <<>>

(* The message is open exactly when a block has left the session, or when a  *)
(* hand-over had to open it for its call.                                    *)
Opening ==
  /\ preambles = IF delivered = <<>> /\ ending # "handover" THEN 0 ELSE 1
  /\ ending = "terminal" => delivered # <<>>
  /\ opened => delivered # <<>>
  /\ tear # "fault" /\ pc # "done" /\ delivered # <<>> => opened
  /\ delivered # <<>> /\ pc # "done" => opened \/ held = <<>>
  /\ pc \in {"opening", "reopening"} => delivered = <<>> /\ ~opened

(* The frame that closed the stream is the one its ending calls for. *)
Closing ==
  /\ pc = "done" <=> ending # "open"
  /\ terminals = IF ending \in {"terminal", "handover"} THEN 1 ELSE 0
  /\ errors = IF ending \in {"reported", "failed", "truncated", "unspellable", "deadline"}
              THEN 1 ELSE 0

IInv == Phases /\ Consecutive /\ Opening /\ Closing

-----------------------------------------------------------------------------
(* The ledger.                                                               *)

(* Spending what `consider` allowed keeps both budgets. *)
LEMMA SpendKeepsBudget ==
  ASSUME NEW L \in Ledger, NEW r \in Reasons, Funded(L, r), WithinBudget(L)
  PROVE  /\ Spend(L, r) \in Ledger
         /\ Spend(L, r).total = L.total + 1
         /\ WithinBudget(Spend(L, r))
  BY LedgerAssumption DEF LedgerAssumption, Ledger, Funded, WithinBudget, Spend

LEMMA SpendType ==
  ASSUME NEW L \in Ledger, NEW r \in Reasons
  PROVE  Spend(L, r) \in Ledger
  BY DEF Ledger, Spend

-----------------------------------------------------------------------------
(* What the sequence operators of the model return.                          *)

LEMMA BatchType ==
  ASSUME NEW k \in Nat, made \in Nat
  PROVE  Batch(k) \in Seq(Nat) /\ Len(Batch(k)) = k
  BY DEF Batch

LEMMA QueueType ==
  ASSUME NEW k \in Nat, made \in Nat, held \in Seq(Nat)
  PROVE  held \o Batch(k) \in Seq(Nat)
  BY BatchType, ConcatProperties

LEMMA ReleasedType ==
  ASSUME NEW queue \in Seq(Nat), NEW owes
  PROVE  Released(queue, owes) \in Seq(Nat)
  BY DEF Released

LEMMA FramedType ==
  ASSUME NEW units \in Seq(Nat), att \in Nat
  PROVE  /\ Framed(units) \in Seq(Unit)
         /\ Len(Framed(units)) = Len(units)
         /\ \A i \in 1 .. Len(units) :
              Framed(units)[i] = [attempt |-> att, index |-> units[i]]
<1>1. DOMAIN units = 1 .. Len(units) /\ Len(units) \in Nat
  BY LenProperties
<1>2. \A i \in 1 .. Len(units) : units[i] \in Nat
  BY ElementOfSeq
<1> QED
  BY <1>1, <1>2 DEF Framed, Unit

LEMMA PrefixType ==
  ASSUME NEW units \in Seq(Nat), NEW n \in 0 .. Len(units)
  PROVE  /\ SubSeq(units, 1, n) \in Seq(Nat)
         /\ Len(SubSeq(units, 1, n)) = n
         /\ \A i \in 1 .. n : SubSeq(units, 1, n)[i] = units[i]
  BY SubSeqProperties

-----------------------------------------------------------------------------
(* Type correctness.                                                         *)

LEMMA CommitType ==
  ASSUME TypeOK, NEW k \in Nat, NEW bytes \in Nat, NEW owes \in BOOLEAN,
         NEW sent, Commit(k, bytes, owes, sent)
  PROVE  /\ held' \in Seq(Nat) /\ heldBytes' \in Nat /\ toolReleased' \in BOOLEAN
         /\ delivered' \in Seq(Nat) /\ preambles' \in Nat /\ opened' \in BOOLEAN
         /\ got' \in Seq(Unit) /\ made' \in Nat
         /\ terminals' = terminals /\ errors' = errors /\ call' = call
<1> DEFINE queue == held \o Batch(k)
           ready == Released(queue, owes)
<1>1. queue \in Seq(Nat)
  BY QueueType DEF TypeOK
<1>2. ready \in Seq(Nat)
  BY <1>1, ReleasedType
<1>3. sent \in 0 .. Len(ready)
  BY DEF Commit
<1>4. SubSeq(ready, 1, sent) \in Seq(Nat)
  BY <1>2, <1>3, PrefixType
<1>5. Framed(SubSeq(ready, 1, sent)) \in Seq(Unit)
  BY <1>4, FramedType DEF TypeOK
<1>6. got \o Framed(SubSeq(ready, 1, sent)) \in Seq(Unit)
  BY <1>5, ConcatProperties DEF TypeOK
<1>7. delivered \o ready \in Seq(Nat)
  BY <1>2, ConcatProperties DEF TypeOK
<1>8. <<>> \in Seq(Nat)
  BY EmptySeq
<1>9. /\ held' = IF ready = <<>> THEN queue ELSE <<>>
      /\ delivered' = delivered \o ready
      /\ got' = got \o Framed(SubSeq(ready, 1, sent))
      /\ heldBytes' = IF ready = <<>> THEN heldBytes + bytes ELSE 0
      /\ preambles' = IF PreambleOwed(ready) THEN preambles + 1 ELSE preambles
      /\ made' = made + k
      /\ toolReleased' = (toolReleased \/ (policy = "until-tool-use" /\ owes))
      /\ opened' = (opened \/ (ready # <<>> /\ (HasPreamble \/ sent > 0)))
      /\ terminals' = terminals /\ errors' = errors /\ call' = call
  BY DEF Commit
<1> HIDE DEF queue, ready
<1>10. held' \in Seq(Nat) /\ delivered' \in Seq(Nat) /\ got' \in Seq(Unit)
  BY <1>1, <1>6, <1>7, <1>8, <1>9
<1>0. heldBytes \in Nat /\ preambles \in Nat /\ made \in Nat
  BY DEF TypeOK
<1>11. heldBytes' \in Nat /\ preambles' \in Nat /\ made' \in Nat
  BY <1>0, <1>9
<1>12. toolReleased' \in BOOLEAN /\ opened' \in BOOLEAN
  BY <1>9
<1> QED
  BY <1>9, <1>10, <1>11, <1>12

LEMMA FlushType ==
  ASSUME TypeOK, NEW sent \in 0 .. Len(held), Flush(sent)
  PROVE  /\ held' = <<>> /\ held' \in Seq(Nat) /\ heldBytes' = 0
         /\ delivered' \in Seq(Nat) /\ preambles' \in Nat /\ opened' \in BOOLEAN
         /\ got' \in Seq(Unit)
<1>1. SubSeq(held, 1, sent) \in Seq(Nat)
  BY PrefixType DEF TypeOK
<1>2. Framed(SubSeq(held, 1, sent)) \in Seq(Unit)
  BY <1>1, FramedType DEF TypeOK
<1>3. got \o Framed(SubSeq(held, 1, sent)) \in Seq(Unit)
  BY <1>2, ConcatProperties DEF TypeOK
<1>4. delivered \o held \in Seq(Nat)
  BY ConcatProperties DEF TypeOK
<1>5. held' = <<>> /\ heldBytes' = 0 /\ held' \in Seq(Nat)
  BY EmptySeq DEF Flush
<1>6. delivered' \in Seq(Nat) /\ got' \in Seq(Unit)
  BY <1>3, <1>4 DEF Flush
<1>7. preambles \in Nat
  BY DEF TypeOK
<1>8. preambles' \in Nat /\ opened' \in BOOLEAN
  BY <1>7 DEF Flush
<1> QED
  BY <1>5, <1>6, <1>8

LEMMA HandOverType ==
  ASSUME TypeOK, EndWithHandOver
  PROVE  TypeOK'
<1>1. Framed(held) \in Seq(Unit)
  BY FramedType DEF TypeOK
<1>2. got \o Framed(held) \in Seq(Unit)
  BY <1>1, ConcatProperties DEF TypeOK
<1>3. delivered \o held \in Seq(Nat) /\ Len(delivered \o held) \in Nat
  BY ConcatProperties, LenProperties DEF TypeOK
<1>4. held' \in Seq(Nat) /\ heldBytes' \in Nat
  BY EmptySeq DEF EndWithHandOver
<1>5. delivered' \in Seq(Nat) /\ got' \in Seq(Unit) /\ call' \in Nat \cup {-1}
  BY <1>2, <1>3 DEF EndWithHandOver
<1>8. preambles \in Nat /\ terminals \in Nat
  BY DEF TypeOK
<1>6. preambles' \in Nat /\ terminals' \in Nat
  BY <1>8 DEF EndWithHandOver
<1>7. pc' \in Steps /\ ending' \in Endings
  BY DEF EndWithHandOver, End, Endings, Steps
<1> QED
  BY <1>4, <1>5, <1>6, <1>7
  DEF TypeOK, EndWithHandOver, config, attempts, assembler

LEMMA Bounds == Sizes \subseteq Nat /\ MaxGroup \in Nat /\ Cap \in Nat
  BY DeliveryAssumption DEF DeliveryAssumption

LEMMA HeldLength ==
  ASSUME TypeOK
  PROVE  /\ Len(held) \in Nat /\ Len(delivered) \in Nat /\ Len(got) \in Nat
         /\ made \in Nat /\ att \in Nat
  BY LenProperties DEF TypeOK

(* An ending that writes nothing but its frame. *)
LEMMA EndType ==
  ASSUME TypeOK, NEW how \in Endings, EndWithError(how) \/ EndWithTerminal
  PROVE  TypeOK'
<1>1. terminals \in Nat /\ errors \in Nat
  BY DEF TypeOK
<1>2. terminals' \in Nat /\ errors' \in Nat /\ pc' \in Steps /\ ending' \in Endings
  BY <1>1 DEF EndWithError, EndWithTerminal, End, Endings, Steps
<1>3. UNCHANGED <<config, tear, attempts, draining, assembler, session,
                  opened, preambles, got, call>>
  BY DEF EndWithError, EndWithTerminal
<1> QED
  BY <1>2, <1>3 DEF TypeOK, config, attempts, assembler, session

LEMMA DriveType ==
  ASSUME TypeOK, Drive
  PROVE  TypeOK'
<1> USE DEF config, attempts, assembler, session, wire
<1>1. ASSUME NEW r \in Reasons, DriverRetries(r)
      PROVE  TypeOK'
  <2>1. att' \in Nat /\ ledger' \in Ledger
    <3>1. att \in Nat /\ ledger \in Ledger
      BY DEF TypeOK
    <3> QED
      BY <1>1, <3>1, SpendType DEF DriverRetries
  <2> QED
    BY <1>1, <2>1 DEF TypeOK, DriverRetries
<1>2. CASE DriverRecovers
  <2>1. att' \in Nat /\ recovered' \in Recoveries
    <3>1. att \in Nat
      BY DEF TypeOK
    <3> QED
      BY <1>2, <3>1 DEF DriverRecovers, Recoveries
  <2> QED
    BY <1>2, <2>1 DEF TypeOK, DriverRecovers
<1>3. CASE DriverSucceeds
  <2>1. <<>> \in Seq(Nat)
    BY EmptySeq
  <2>2. pc' \in Steps /\ tear' \in Tears
    BY <1>3 DEF DriverSucceeds, Steps, Tears
  <2> QED
    BY <1>3, <2>1, <2>2 DEF TypeOK, DriverSucceeds
<1>4. CASE DriverGivesUp
  <2>1. pc' \in Steps /\ ending' \in Endings
    BY <1>4 DEF TypeOK, DriverGivesUp, Steps, Endings
  <2> QED
    BY <1>4, <2>1 DEF TypeOK, DriverGivesUp
<1>5. CASE ReopenRaises
  <2>1. pc' \in Steps /\ ending' \in Endings
    BY <1>5 DEF ReopenRaises, Steps, Endings
  <2> QED
    BY <1>5, <2>1 DEF TypeOK, ReopenRaises
<1> QED
  BY <1>1, <1>2, <1>3, <1>4, <1>5 DEF Drive

LEMMA ReadType ==
  ASSUME TypeOK, Read
  PROVE  TypeOK'
<1> USE DEF config, attempts, assembler, session, wire
<1>1. CASE UpstreamEvent
  <2>1. pc' \in Steps /\ stop' \in StopReasons \cup {""}
    BY <1>1 DEF TypeOK, UpstreamEvent, Steps
  <2> QED
    BY <1>1, <2>1 DEF TypeOK, UpstreamEvent
<1>2. ASSUME NEW k \in 1 .. MaxGroup, NEW bytes \in Sizes, RefuseBatch(k, bytes)
      PROVE  TypeOK'
  <2>1. made' \in Nat
    <3>1. made \in Nat /\ k \in Nat
      BY Bounds, HeldLength
    <3> QED
      BY <1>2, <3>1 DEF RefuseBatch
  <2>2. pc' \in Steps /\ tear' \in Tears /\ ending' \in Endings
    BY <1>2 DEF TypeOK, RefuseBatch, Faults, Steps, Tears, Ours, Endings
  <2> QED
    BY <1>2, <2>1, <2>2 DEF TypeOK, RefuseBatch
<1>3. ASSUME NEW k \in 1 .. MaxGroup, NEW bytes \in Sizes, NEW owes \in BOOLEAN,
             Admit(k, bytes, owes)
      PROVE  TypeOK'
  <2>1. k \in Nat /\ bytes \in Nat
    BY Bounds
  <2>2. Commit(k, bytes, owes, AllOf(k, owes))
    BY <1>3 DEF Admit
  <2> QED
    BY <1>3, <2>1, <2>2, CommitType DEF TypeOK, Admit
<1>4. ASSUME NEW k \in 1 .. MaxGroup, NEW bytes \in Sizes, NEW owes \in BOOLEAN,
             FramingFault(k, bytes, owes)
      PROVE  TypeOK'
  <2>1. k \in Nat /\ bytes \in Nat
    BY Bounds
  <2>2. PICK sent \in 0 .. AllOf(k, owes) - 1 : Commit(k, bytes, owes, sent)
    BY <1>4 DEF FramingFault
  <2>3. pc' \in Steps /\ tear' \in Tears /\ ending' \in Endings
    BY <1>4 DEF TypeOK, FramingFault, Faults, Steps, Tears, Ours, Endings
  <2> QED
    BY <1>4, <2>1, <2>2, <2>3, CommitType DEF TypeOK, FramingFault
<1>5. CASE EventDone
  <2>1. pc' \in Steps
    BY <1>5 DEF EventDone, Steps
  <2> QED
    BY <1>5, <2>1 DEF TypeOK, EventDone
<1>6. CASE ReportFailure
  BY <1>6, EndType DEF ReportFailure, Endings
<1>7. ASSUME NEW class \in TearClasses, Tear(class)
      PROVE  TypeOK'
  <2>1. pc' \in Steps /\ tear' \in Tears
    BY <1>7 DEF Tear, TearClasses, Steps, Tears, Ours
  <2> QED
    BY <1>7, <2>1 DEF TypeOK, Tear
<1>8. CASE Eof
  <2>1. pc' \in Steps
    BY <1>8 DEF Eof, Steps
  <2> QED
    BY <1>8, <2>1 DEF TypeOK, Eof
<1> QED
  BY <1>1, <1>2, <1>3, <1>4, <1>5, <1>6, <1>7, <1>8 DEF Read

LEMMA SettleType ==
  ASSUME TypeOK, Settle
  PROVE  TypeOK'
<1> USE DEF config, attempts, assembler, session, wire
<1>1. CASE TornDeadline
  BY <1>1, EndType DEF TornDeadline, Endings
<1>2. CASE TornFinished
  <2>1. pc' \in Steps
    BY <1>2 DEF TornFinished, Steps
  <2> QED
    BY <1>2, <2>1 DEF TypeOK, TornFinished
<1>3. CASE Replay
  <2>1. att \in Nat /\ ledger \in Ledger /\ tear \in Reasons
    BY <1>3 DEF TypeOK, Replay, Replayable
  <2>2. att' \in Nat /\ ledger' \in Ledger
    BY <1>3, <2>1, SpendType DEF Replay
  <2>4. recovered' \in Recoveries
    BY <1>3 DEF TypeOK, Replay, SourcePayload, Recoveries
  <2>3. pc' \in Steps
    BY <1>3 DEF Replay, Steps
  <2> QED
    BY <1>3, <2>2, <2>3, <2>4 DEF TypeOK, Replay
<1>4. CASE TornHandOver
  BY <1>4, HandOverType DEF TornHandOver
<1>5. CASE TornError
  BY <1>5, EndType DEF TornError, Endings
<1>6. CASE Close
  <2>1. pc' \in Steps
    BY <1>6 DEF Close, Steps
  <2> QED
    BY <1>6, <2>1 DEF TypeOK, Close
<1>7. CASE Finish
  <2>1. Flush(Len(held)) /\ Len(held) \in 0 .. Len(held)
    BY <1>7, HeldLength DEF Finish
  <2>2. pc' \in Steps
    BY <1>7 DEF Finish, Steps
  <2>3. /\ held' \in Seq(Nat) /\ heldBytes' \in Nat
        /\ delivered' \in Seq(Nat) /\ preambles' \in Nat /\ opened' \in BOOLEAN
        /\ got' \in Seq(Unit)
    BY <2>1, FlushType
  <2> QED
    BY <1>7, <2>1, <2>2, <2>3 DEF TypeOK, Finish, Flush
<1>8. CASE FinishFault
  <2>1. PICK sent \in 0 .. Len(held) - 1 : Flush(sent)
    BY <1>8 DEF FinishFault
  <2>2. sent \in 0 .. Len(held)
    BY HeldLength
  <2>3. pc' \in Steps /\ tear' \in Tears /\ ending' \in Endings
    BY <1>8 DEF FinishFault, End, Steps, Tears, Ours, Endings
  <2> QED
    BY <1>8, <2>1, <2>2, <2>3, FlushType DEF TypeOK, FinishFault, Flush
<1>9. CASE EndOutOfRoom
  BY <1>9, HandOverType DEF EndOutOfRoom
<1>10. CASE EndEmpty
  <2>1. pc' \in Steps /\ ending' \in Endings
    BY <1>10 DEF EndEmpty, End, Steps, Endings
  <2> QED
    BY <1>10, <2>1 DEF TypeOK, EndEmpty
<1>11. CASE EndNormally
  BY <1>11, EndType DEF EndNormally, Endings
<1>12. CASE EndAtBoundary
  BY <1>12, EndType DEF EndAtBoundary, Endings
<1>13. CASE EndCutShort
  BY <1>13, EndType, HandOverType DEF EndCutShort, Endings
<1> QED
  BY <1>1, <1>2, <1>3, <1>4, <1>5, <1>6, <1>7, <1>8, <1>9, <1>10, <1>11, <1>12, <1>13
  DEF Settle

LEMMA TypeStep ==
  ASSUME TypeOK, [Next]_vars
  PROVE  TypeOK'
<1> USE DEF config, attempts, assembler, session, wire
<1>1. CASE BeginDrain
  BY <1>1 DEF TypeOK, BeginDrain
<1>2. CASE ClientGone
  <2>1. pc' \in Steps /\ ending' \in Endings
    BY <1>2 DEF ClientGone, End, Steps, Endings
  <2> QED
    BY <1>2, <2>1 DEF TypeOK, ClientGone
<1>3. CASE UNCHANGED vars
  BY <1>3 DEF TypeOK, vars
<1> QED
  BY <1>1, <1>2, <1>3, DriveType, ReadType, SettleType DEF Next, Terminated

(* Every variable keeps its type: block numbers are naturals, the ledger     *)
(* stays a ledger, and `_deliver` is always at one of its steps.             *)
THEOREM TypeCorrect == Spec => []TypeOK
<1>1. ASSUME Init PROVE TypeOK
  <2>1. held \in Seq(Nat) /\ delivered \in Seq(Nat) /\ got \in Seq(Unit)
    BY <1>1, EmptySeq DEF Init
  <2>2. EmptyLedger \in Ledger
    BY DEF EmptyLedger, Ledger
  <2>3. "opening" \in Steps /\ "none" \in Tears /\ "open" \in Endings
    BY DEF Steps, Tears, Endings
  <2>4. /\ ledger \in Ledger /\ pc \in Steps /\ tear \in Tears /\ ending \in Endings
        /\ call \in Nat \cup {-1} /\ stop \in StopReasons \cup {""}
        /\ recovered \in Recoveries
    BY <1>1, <2>2, <2>3 DEF Init, Recoveries
  <2>5. /\ att \in Nat /\ made \in Nat /\ heldBytes \in Nat /\ preambles \in Nat
        /\ terminals \in Nat /\ errors \in Nat
    BY <1>1 DEF Init
  <2> QED
    BY <1>1, <2>1, <2>4, <2>5 DEF Init, TypeOK
<1> QED
  BY <1>1, TypeStep, PTL DEF Spec

-----------------------------------------------------------------------------
(* The budget.                                                               *)

(* Only the driver's retries, its recovery and a replay touch the attempts,  *)
(* and only a replay enters the driver's loop again.                         *)
LEMMA AttemptsKept ==
  ASSUME [Next]_vars
  PROVE  \/ \E r \in Reasons : DriverRetries(r)
         \/ DriverRecovers
         \/ Replay
         \/ UNCHANGED attempts /\ (Driving' => pc' = pc)
<1> USE DEF vars, Driving
<1>1. CASE Drive
  BY <1>1 DEF Drive, DriverSucceeds, DriverGivesUp, ReopenRaises
<1>2. CASE Read
  BY <1>2 DEF Read, UpstreamEvent, RefuseBatch, Admit, FramingFault, Faults, EventDone,
              ReportFailure, EndWithError, End, Tear, Eof
<1>3. CASE Settle
  BY <1>3 DEF Settle, TornDeadline, TornFinished, TornHandOver, TornError, Close,
              Finish, FinishFault, Flush, EndOutOfRoom, EndEmpty, EndNormally,
              EndAtBoundary, EndCutShort, EndWithError, EndWithTerminal,
              EndWithHandOver, End
<1> QED
  BY <1>1, <1>2, <1>3 DEF Next, BeginDrain, ClientGone, Terminated, End

(* The induction behind AttemptsFunded: while the driver runs on a payload   *)
(* not yet stripped, one unfunded attempt is still to spare.                 *)
Funding ==
  /\ AttemptsFunded
  /\ pc = "opening" /\ recovered = "no" => att <= 1 + ledger.total
  /\ pc = "reopening" /\ recovered = "no" => att <= 2 * ledger.total

LEMMA FundingStep ==
  ASSUME TypeOK, Funding, [Next]_vars
  PROVE  Funding'
<1> DEFINE total == ledger.total
<1>1. /\ att \in Nat /\ total \in Nat /\ ledger \in Ledger /\ WithinBudget(ledger)
      /\ att <= 1 + total + (IF recovered = "source" THEN 1 ELSE total)
      /\ pc = "opening" /\ recovered = "no" => att <= 1 + total
      /\ pc = "reopening" /\ recovered = "no" => att <= 2 * total
  BY DEF TypeOK, Ledger, Funding, AttemptsFunded
<1>2. ASSUME NEW r \in Reasons, DriverRetries(r)
      PROVE  Funding'
  <2>1. WithinBudget(ledger)' /\ total' = total + 1
    BY <1>1, <1>2, SpendKeepsBudget DEF DriverRetries, WithinBudget
  <2>2. att' = att + 1 /\ UNCHANGED <<pc, recovered>>
    BY <1>2 DEF DriverRetries
  <2> HIDE DEF total
  <2>3. /\ att' <= 1 + total' + (IF recovered' = "source" THEN 1 ELSE total')
        /\ pc' = "opening" /\ recovered' = "no" => att' <= 1 + total'
        /\ pc' = "reopening" /\ recovered' = "no" => att' <= 2 * total'
    BY <1>1, <2>1, <2>2
  <2> QED
    BY <2>1, <2>3 DEF Funding, AttemptsFunded, total
<1>3. CASE DriverRecovers
  <2>1. /\ att' = att + 1 /\ UNCHANGED <<pc, ledger>> /\ recovered = "no"
        /\ pc \in {"opening", "reopening"}
        /\ recovered' = IF pc = "opening" THEN "source" ELSE "replay"
    BY <1>3 DEF DriverRecovers, Driving
  <2>2. WithinBudget(ledger)' /\ total' = total
    BY <1>1, <2>1 DEF WithinBudget
  <2> HIDE DEF total
  <2>3. /\ att' <= 1 + total' + (IF recovered' = "source" THEN 1 ELSE total')
        /\ recovered' # "no"
    BY <1>1, <2>1, <2>2
  <2> QED
    BY <2>2, <2>3 DEF Funding, AttemptsFunded, total
<1>4. CASE Replay
  <2>1. tear \in Reasons /\ Funded(ledger, tear) /\ ledger' = Spend(ledger, tear)
    BY <1>4 DEF Replay, Replayable
  <2>2. WithinBudget(ledger)' /\ total' = total + 1
    BY <1>1, <2>1, SpendKeepsBudget DEF WithinBudget
  <2>3. \/ pc' = "abandoning" /\ UNCHANGED <<att, recovered>>
        \/ /\ pc' = "reopening" /\ att' = att + 1
           /\ recovered' = IF recovered = "source" THEN "source" ELSE "no"
    BY <1>4 DEF Replay, SourcePayload
  <2> HIDE DEF total
  <2>4. /\ att' <= 1 + total' + (IF recovered' = "source" THEN 1 ELSE total')
        /\ pc' # "opening"
        /\ pc' = "reopening" /\ recovered' = "no" => att' <= 2 * total'
    BY <1>1, <2>2, <2>3
  <2> QED
    BY <2>2, <2>4 DEF Funding, AttemptsFunded, total
<1>5. CASE UNCHANGED attempts /\ (Driving' => pc' = pc)
  BY <1>1, <1>5 DEF Funding, AttemptsFunded, attempts, WithinBudget, Driving
<1> QED
  BY <1>2, <1>3, <1>4, <1>5, AttemptsKept

(* Every attempt but the first was paid for from the ledger that driver      *)
(* retries and delivery replays share, which is never overdrawn, or is a     *)
(* recovery of connection-bound input, one per request or one per replay.    *)
THEOREM BudgetBounds == Spec => []AttemptsFunded
<1>1. ASSUME Init PROVE Funding
  <2>1. WithinBudget(EmptyLedger) /\ EmptyLedger.total = 0
    BY LedgerAssumption DEF WithinBudget, EmptyLedger, LedgerAssumption
  <2>2. att = 1 /\ ledger = EmptyLedger /\ recovered = "no" /\ pc = "opening"
    BY <1>1 DEF Init
  <2> QED
    BY <2>1, <2>2 DEF Funding, AttemptsFunded
<1>2. Funding => AttemptsFunded
  BY DEF Funding
<1> QED
  BY <1>1, <1>2, TypeCorrect, FundingStep, PTL DEF Spec

-----------------------------------------------------------------------------
(* Where `_deliver` stands.                                                  *)

LEMMA TearNames ==
  /\ Reasons \cap Ours = {}
  /\ "none" \notin Ours /\ "unnamed" \notin Ours /\ "deadline" \notin Ours
  /\ "fault" \notin Reasons /\ "none" \notin Reasons
  BY DeliveryAssumption DEF DeliveryAssumption, Ours

LEMMA PhasesStep ==
  ASSUME Phases, [Next]_vars
  PROVE  Phases'
<1> USE DEF Phases, config, assembler, vars
<1>1. CASE Drive
  <2>1. ASSUME NEW r \in Reasons, DriverRetries(r)
        PROVE  Phases'
    BY <2>1 DEF DriverRetries
  <2>2. CASE DriverRecovers
    BY <2>2 DEF DriverRecovers
  <2>3. CASE DriverSucceeds
    BY <2>3, TearNames DEF DriverSucceeds
  <2>4. CASE DriverGivesUp
    BY <2>4 DEF DriverGivesUp, Driving
  <2>5. CASE ReopenRaises
    BY <2>5 DEF ReopenRaises
  <2> QED
    BY <1>1, <2>1, <2>2, <2>3, <2>4, <2>5 DEF Drive
<1>2. CASE Read
  <2>1. CASE UpstreamEvent
    BY <1>2, <2>1 DEF UpstreamEvent
  <2>2. ASSUME NEW k \in 1 .. MaxGroup, NEW bytes \in Sizes, RefuseBatch(k, bytes)
        PROVE  Phases'
    BY <2>2 DEF RefuseBatch, Faults
  <2>3. ASSUME NEW k \in 1 .. MaxGroup, NEW bytes \in Sizes, NEW owes \in BOOLEAN,
               Admit(k, bytes, owes)
        PROVE  Phases'
    BY <2>3 DEF Admit
  <2>4. ASSUME NEW k \in 1 .. MaxGroup, NEW bytes \in Sizes, NEW owes \in BOOLEAN,
               FramingFault(k, bytes, owes)
        PROVE  Phases'
    BY <2>4 DEF FramingFault, Faults
  <2>5. CASE EventDone \/ ReportFailure \/ Eof
    BY <2>5 DEF EventDone, ReportFailure, Eof, EndWithError, End
  <2>6. ASSUME NEW class \in TearClasses, Tear(class)
        PROVE  Phases'
    BY <2>6 DEF Tear
  <2> QED
    BY <1>2, <2>1, <2>2, <2>3, <2>4, <2>5, <2>6 DEF Read
<1>3. CASE Settle
  <2>1. CASE TornDeadline \/ TornHandOver \/ TornError \/ EndOutOfRoom \/ EndEmpty
             \/ EndNormally \/ EndAtBoundary \/ EndCutShort
    BY <2>1
    DEF TornDeadline, TornHandOver, TornError, EndOutOfRoom, EndEmpty, EndNormally,
        EndAtBoundary, EndCutShort, EndWithError, EndWithTerminal, EndWithHandOver, End
  <2>2. CASE TornFinished
    BY <2>2 DEF TornFinished
  <2>5. CASE Close
    BY <2>5 DEF Close
  <2>3. CASE Replay
    BY <2>3, TearNames DEF Replay, Replayable
  <2>4. CASE Finish \/ FinishFault
    BY <2>4 DEF Finish, FinishFault, Flush, End
  <2> QED
    BY <1>3, <2>1, <2>2, <2>3, <2>4, <2>5 DEF Settle
<1> QED
  BY <1>1, <1>2, <1>3 DEF Next, BeginDrain, ClientGone, Terminated, End

-----------------------------------------------------------------------------
(* The blocks the client holds.                                              *)

LEMMA NumberedConcat ==
  ASSUME NEW s \in Seq(Nat), NEW t \in Seq(Nat), NEW a \in Nat,
         Numbered(s, a), Numbered(t, a + Len(s))
  PROVE  Numbered(s \o t, a)
<1>1. Len(s) \in Nat /\ Len(t) \in Nat
  BY LenProperties
<1>2. Len(s \o t) = Len(s) + Len(t)
  BY ConcatProperties
<1>3. ASSUME NEW i \in 1 .. Len(s) + Len(t)
      PROVE  (s \o t)[i] = a + i - 1
  <2>1. (s \o t)[i] = IF i <= Len(s) THEN s[i] ELSE t[i - Len(s)]
    BY ConcatProperties
  <2>2. CASE i <= Len(s)
    BY <1>1, <2>1, <2>2 DEF Numbered
  <2>3. CASE ~(i <= Len(s))
    <3>1. i - Len(s) \in 1 .. Len(t)
      BY <1>1, <2>3
    <3>2. t[i - Len(s)] = a + Len(s) + (i - Len(s)) - 1
      BY <3>1 DEF Numbered
    <3> QED
      BY <1>1, <2>1, <2>3, <3>2
  <2> QED
    BY <2>2, <2>3
<1> QED
  BY <1>2, <1>3 DEF Numbered

LEMMA NumberedEmpty == \A a : Numbered(<<>>, a)
  BY DEF Numbered

(* Framing the next blocks extends the client's reply in order. *)
LEMMA GotExtended ==
  ASSUME TypeOK, InOrder, NEW units \in Seq(Nat), Numbered(units, Len(got)),
         NEW n \in 0 .. Len(units),
         got' = got \o Framed(SubSeq(units, 1, n)), att' = att
  PROVE  InOrder' /\ Len(got') = Len(got) + n
<1> DEFINE prefix == SubSeq(units, 1, n)
<1> DEFINE more == Framed(prefix)
<1>1. prefix \in Seq(Nat) /\ Len(prefix) = n /\ \A i \in 1 .. n : prefix[i] = units[i]
  BY PrefixType
<1>0. att \in Nat
  BY HeldLength
<1> HIDE DEF prefix
<1>2. /\ more \in Seq(Unit) /\ Len(more) = n
      /\ \A i \in 1 .. n : more[i] = [attempt |-> att, index |-> units[i]]
  <2>1. /\ more \in Seq(Unit) /\ Len(more) = Len(prefix)
        /\ \A i \in 1 .. Len(prefix) : more[i] = [attempt |-> att, index |-> prefix[i]]
    BY <1>0, <1>1, FramedType
  <2> HIDE DEF more
  <2>2. \A i \in 1 .. n : more[i] = [attempt |-> att, index |-> units[i]]
    BY <1>1, <2>1
  <2> QED
    BY <1>1, <2>1, <2>2
<1>3. got \in Seq(Unit) /\ Len(got) \in Nat /\ Len(units) \in Nat
  BY HeldLength, LenProperties DEF TypeOK
<1> HIDE DEF more
<1>4. /\ Len(got \o more) = Len(got) + n
      /\ \A i \in 1 .. Len(got) + n :
           (got \o more)[i] = IF i <= Len(got) THEN got[i] ELSE more[i - Len(got)]
  BY <1>2, <1>3, ConcatProperties
<1>5. got' = got \o more
  BY DEF more, prefix
<1>6. ASSUME NEW i \in 1 .. Len(got) + n
      PROVE  (got \o more)[i] = [attempt |-> att, index |-> i - 1]
  <2>1. CASE i <= Len(got)
    BY <1>3, <1>4, <2>1 DEF InOrder
  <2>2. CASE ~(i <= Len(got))
    <3>1. i - Len(got) \in 1 .. n
      BY <1>3, <2>2
    <3>2. i - Len(got) \in 1 .. Len(units)
      BY <1>3, <3>1
    <3>3. units[i - Len(got)] = Len(got) + (i - Len(got)) - 1
      BY <3>2 DEF Numbered
    <3>4. units[i - Len(got)] = i - 1
      BY <1>3, <3>3
    <3>5. (got \o more)[i] = more[i - Len(got)]
      BY <1>4, <2>2
    <3> QED
      BY <1>2, <3>1, <3>4, <3>5
  <2> QED
    BY <2>1, <2>2
<1> QED
  BY <1>4, <1>5, <1>6 DEF InOrder

(* What one commit does to the sequences, when nothing has torn yet. *)
LEMMA CommitSequences ==
  ASSUME TypeOK, Consecutive, tear \notin Ours, NEW k \in Nat, NEW bytes \in Nat,
         NEW owes \in BOOLEAN, NEW sent,
         Commit(k, bytes, owes, sent), att' = att
  PROVE  /\ Numbered(delivered', 0)
         /\ Numbered(held', Len(delivered'))
         /\ InOrder'
         /\ Len(got) <= Len(got') /\ Len(got') <= Len(delivered')
         /\ Len(delivered') + Len(held') = made'
         /\ sent = AllOf(k, owes) => Len(got') = Len(delivered')
         /\ Len(got') = Len(delivered') \/ held' = <<>>
<1> DEFINE queue == held \o Batch(k)
           ready == Released(queue, owes)
<1>1. /\ held' = IF ready = <<>> THEN queue ELSE <<>>
      /\ delivered' = delivered \o ready
      /\ got' = got \o Framed(SubSeq(ready, 1, sent))
      /\ made' = made + k
      /\ sent \in 0 .. Len(ready)
      /\ AllOf(k, owes) = Len(ready)
  BY DEF Commit, AllOf
<1>2. /\ Len(got) = Len(delivered)
      /\ Len(delivered) + Len(held) = made
      /\ Numbered(delivered, 0) /\ Numbered(held, Len(delivered)) /\ InOrder
  BY DEF Consecutive
<1>3. /\ held \in Seq(Nat) /\ delivered \in Seq(Nat) /\ got \in Seq(Unit)
      /\ Len(held) \in Nat /\ Len(delivered) \in Nat /\ Len(got) \in Nat
      /\ made \in Nat
  BY HeldLength DEF TypeOK
<1>4. Batch(k) \in Seq(Nat) /\ Len(Batch(k)) = k
  BY <1>3, BatchType
<1>5. Numbered(Batch(k), Len(delivered) + Len(held))
  BY <1>2, <1>3, <1>4 DEF Numbered, Batch
<1>6. /\ queue \in Seq(Nat)
      /\ Len(queue) = Len(held) + k
      /\ Numbered(queue, Len(delivered))
  <2>1. queue \in Seq(Nat) /\ Len(queue) = Len(held) + k
    BY <1>3, <1>4, ConcatProperties
  <2>2. Numbered(queue, Len(delivered))
    BY <1>2, <1>3, <1>4, <1>5, NumberedConcat
  <2> QED
    BY <2>1, <2>2
<1>7. ready = queue \/ ready = <<>>
  BY DEF Released
<1>8. ready \in Seq(Nat) /\ Numbered(ready, Len(delivered)) /\ Len(ready) \in Nat
  BY <1>6, <1>7, NumberedEmpty, EmptySeq, LenProperties
<1> HIDE DEF queue, ready
<1>9. /\ Len(delivered') = Len(delivered) + Len(ready)
      /\ Numbered(delivered', 0)
  BY <1>1, <1>2, <1>3, <1>8, NumberedConcat, ConcatProperties
<1>10. InOrder' /\ Len(got') = Len(got) + sent
  BY <1>1, <1>2, <1>8, GotExtended
<1>a. /\ made' = made + k /\ made = Len(delivered) + Len(held)
      /\ Len(delivered) \in Nat /\ Len(held) \in Nat
  BY <1>1, <1>2, <1>3
<1>b. Len(got) = Len(delivered) /\ sent \in 0 .. Len(ready) /\ Len(ready) \in Nat
  BY <1>1, <1>2, <1>8
<1>c. Len(delivered') = Len(delivered) + Len(ready) /\ Len(got') = Len(got) + sent
  BY <1>9, <1>10
<1>11. /\ Numbered(held', Len(delivered'))
       /\ Len(delivered') + Len(held') = made'
       /\ Len(ready) = 0 \/ held' = <<>>
  <2>1. CASE ready = <<>>
    <3>1. Len(ready) = 0 /\ held' = queue
      BY <1>1, <2>1, EmptySeq
    <3>2. Len(delivered') = Len(delivered)
      BY <1>3, <1>9, <3>1
    <3>3. Numbered(held', Len(delivered'))
      BY <1>6, <3>1, <3>2
    <3>4. Len(held') = Len(held) + k
      BY <1>6, <3>1
    <3>5. Len(delivered') + Len(held') = made'
      BY <1>a, <3>2, <3>4
    <3> QED
      BY <3>1, <3>3, <3>5
  <2>2. CASE ready # <<>>
    <3>1. ready = queue /\ held' = <<>> /\ Len(held') = 0
      BY <1>1, <1>7, <2>2, EmptySeq
    <3>2. Numbered(held', Len(delivered'))
      BY <3>1, NumberedEmpty
    <3>3. Len(delivered') = Len(delivered) + (Len(held) + k)
      BY <1>6, <1>9, <3>1
    <3>4. Len(delivered') + Len(held') = made'
      BY <1>a, <3>1, <3>3
    <3> QED
      BY <3>1, <3>2, <3>4
  <2> QED
    BY <2>1, <2>2
<1>12. /\ Len(got) <= Len(got') /\ Len(got') <= Len(delivered')
       /\ sent = Len(ready) => Len(got') = Len(delivered')
       /\ Len(ready) = 0 => Len(got') = Len(delivered')
  BY <1>a, <1>b, <1>c
<1> QED
  BY <1>1, <1>9, <1>10, <1>11, <1>12

(* What the final flush, or the one of a hand-over, does to the sequences. *)
LEMMA FlushSequences ==
  ASSUME TypeOK, Consecutive, NEW sent \in 0 .. Len(held),
         held' = <<>>, delivered' = delivered \o held,
         got' = got \o Framed(SubSeq(held, 1, sent)), att' = att
  PROVE  /\ Numbered(delivered', 0)
         /\ Numbered(held', Len(delivered'))
         /\ InOrder'
         /\ Len(got) <= Len(got') /\ Len(got') <= Len(delivered')
         /\ Len(got) = Len(delivered) /\ sent = Len(held) => Len(got') = Len(delivered')
         /\ Len(delivered') + Len(held') = Len(delivered) + Len(held)
<1>1. /\ Len(got) <= Len(delivered)
      /\ Len(got) = Len(delivered) \/ held = <<>>
      /\ Numbered(delivered, 0) /\ Numbered(held, Len(delivered)) /\ InOrder
  BY DEF Consecutive
<1>2. /\ held \in Seq(Nat) /\ delivered \in Seq(Nat) /\ got \in Seq(Unit)
      /\ Len(held) \in Nat /\ Len(delivered) \in Nat /\ Len(got) \in Nat
  BY HeldLength DEF TypeOK
<1>3. Numbered(held, Len(got))
  <2>1. CASE Len(got) = Len(delivered)
    BY <1>1, <2>1
  <2>2. CASE held = <<>>
    BY <2>2, NumberedEmpty
  <2> QED
    BY <1>1, <2>1, <2>2
<1>4. InOrder' /\ Len(got') = Len(got) + sent
  BY <1>1, <1>2, <1>3, GotExtended
<1>5. Len(delivered') = Len(delivered) + Len(held)
  BY <1>2, ConcatProperties
<1>6. Numbered(delivered', 0)
  BY <1>1, <1>2, NumberedConcat
<1>7. Len(held') = 0 /\ Numbered(held', Len(delivered'))
  BY NumberedEmpty, EmptySeq
<1>8. Len(got') <= Len(delivered')
  <2>1. held = <<>> => Len(held) = 0
    BY EmptySeq
  <2> QED
    BY <1>1, <1>2, <1>4, <1>5, <2>1
<1> QED
  BY <1>2, <1>4, <1>5, <1>6, <1>7, <1>8

(* A whole sequence is its own prefix, which is how a hand-over frames it. *)
LEMMA WholePrefix ==
  ASSUME NEW units \in Seq(Nat)
  PROVE  SubSeq(units, 1, Len(units)) = units
<1>1. Len(units) \in Nat /\ Len(units) \in 0 .. Len(units)
  BY LenProperties
<1>2. /\ SubSeq(units, 1, Len(units)) \in Seq(Nat)
      /\ Len(SubSeq(units, 1, Len(units))) = Len(units)
      /\ \A i \in 1 .. Len(units) : SubSeq(units, 1, Len(units))[i] = units[i]
  BY <1>1, PrefixType
<1> QED
  BY <1>2, SeqEqual

LEMMA HandOverSequences ==
  ASSUME TypeOK, Consecutive, EndWithHandOver
  PROVE  Consecutive' /\ Len(got) <= Len(got') /\ att' = att
<1>a. SubSeq(held, 1, Len(held)) = held /\ Len(held) \in 0 .. Len(held)
  <2>1. held \in Seq(Nat)
    BY DEF TypeOK
  <2> QED
    BY <2>1, WholePrefix, HeldLength
<1>1. /\ held' = <<>> /\ delivered' = delivered \o held
      /\ got' = got \o Framed(SubSeq(held, 1, Len(held)))
      /\ att' = att /\ tear' = tear /\ made' = made
      /\ pc' = "done" /\ Len(held) \in 0 .. Len(held)
  BY <1>a DEF EndWithHandOver, End, attempts, assembler
<1>2. /\ Numbered(delivered', 0)
      /\ Numbered(held', Len(delivered'))
      /\ InOrder'
      /\ Len(got) <= Len(got') /\ Len(got') <= Len(delivered')
      /\ Len(got) = Len(delivered) => Len(got') = Len(delivered')
      /\ Len(delivered') + Len(held') = Len(delivered) + Len(held)
  BY <1>1, FlushSequences
<1>3. tear \notin Ours => Len(got) = Len(delivered) /\ Len(delivered) + Len(held) = made
  BY DEF Consecutive
<1> QED
  BY <1>1, <1>2, <1>3 DEF Consecutive

(* Steps that leave the reply and what was assembled alone. *)
LEMMA ReplyKept ==
  ASSUME Consecutive, UNCHANGED <<held, delivered, got, att>>,
         tear' \notin Ours => made' = made /\ tear \notin Ours,
         pc' = "ending" => held = <<>>,
         ending' \in {"terminal", "handover", "empty"} => held = <<>>
  PROVE  Consecutive'
  BY DEF Consecutive, Numbered, InOrder

(* Nothing the client can see means nothing it holds. *)
LEMMA UnseenEmpty ==
  ASSUME TypeOK, Consecutive, Opening, pc # "done", tear # "fault", ~opened
  PROVE  delivered = <<>> /\ got = <<>>
<1>1. delivered = <<>>
  BY DEF Opening
<1>2. Len(delivered) = 0 /\ Len(got) \in Nat /\ Len(got) <= Len(delivered)
  BY <1>1, HeldLength, EmptySeq DEF Consecutive
<1>3. got \in Seq(Unit)
  BY DEF TypeOK
<1> QED
  BY <1>1, <1>2, <1>3, EmptySeq

(* Steps that change the attempt change it under a client holding nothing. *)
LEMMA AttemptReplaced ==
  ASSUME Consecutive, got = <<>>, UNCHANGED <<held, delivered, got, made, tear>>,
         pc' # "ending", ending' = ending
  PROVE  Consecutive'
<1>1. Len(got) = 0
  BY EmptySeq
<1> QED
  BY <1>1 DEF Consecutive, Numbered, InOrder

LEMMA DriveConsecutive ==
  ASSUME TypeOK, Phases, Consecutive, Opening, Closing, Drive
  PROVE  Consecutive'
<1> USE DEF config, attempts, assembler, session, wire
<1>1. ASSUME pc \in {"opening", "reopening"}
      PROVE  got = <<>> /\ delivered = <<>>
  <2>1. delivered = <<>> /\ ~opened /\ tear # "fault" /\ pc # "done"
    BY <1>1, TearNames DEF Opening, Phases, Ours
  <2> QED
    BY <2>1, UnseenEmpty
<1>2. ASSUME NEW r \in Reasons, DriverRetries(r)
      PROVE  Consecutive'
  BY <1>1, <1>2, AttemptReplaced DEF DriverRetries, Driving
<1>3. CASE DriverRecovers
  BY <1>1, <1>3, AttemptReplaced DEF DriverRecovers, Driving
<1>4. CASE DriverSucceeds
  <2>1. got' = <<>> /\ delivered' = <<>> /\ held' = <<>> /\ made' = 0 /\ pc' = "pulling"
    BY <1>1, <1>4 DEF DriverSucceeds, Driving
  <2>2. Len(got') = 0 /\ Len(delivered') = 0 /\ Len(held') = 0
    BY <2>1, EmptySeq
  <2> QED
    BY <2>1, <2>2 DEF Consecutive, Numbered, InOrder
<1>5. CASE DriverGivesUp
  BY <1>5, ReplyKept DEF DriverGivesUp, Consecutive
<1>6. CASE ReopenRaises
  BY <1>6, ReplyKept DEF ReopenRaises
<1> QED
  BY <1>2, <1>3, <1>4, <1>5, <1>6 DEF Drive

(* Blocks are completed only while nothing has torn. *)
LEMMA CompletingUntorn ==
  ASSUME Phases, Closing, Completing
  PROVE  tear \notin Ours /\ pc # "ending" /\ ending = "open"
  BY TearNames DEF Phases, Closing, Completing

LEMMA ReadConsecutive ==
  ASSUME TypeOK, Phases, Consecutive, Opening, Closing, Read
  PROVE  Consecutive'
<1> USE DEF config, attempts, assembler, session, wire
<1>1. CASE UpstreamEvent
  BY <1>1, ReplyKept DEF UpstreamEvent, Consecutive
<1>2. ASSUME NEW k \in 1 .. MaxGroup, NEW bytes \in Sizes, RefuseBatch(k, bytes)
      PROVE  Consecutive'
  <2>1. tear' \in Ours /\ pc' # "ending"
    BY <1>2 DEF RefuseBatch, Faults, Ours
  <2>2. ending' \notin {"terminal", "handover", "empty"}
    BY <1>2, CompletingUntorn DEF RefuseBatch, Faults
  <2> QED
    BY <1>2, <2>1, <2>2, ReplyKept DEF RefuseBatch
<1>3. ASSUME NEW k \in 1 .. MaxGroup, NEW bytes \in Sizes, NEW owes \in BOOLEAN,
             Admit(k, bytes, owes)
      PROVE  Consecutive'
  <2>1. k \in Nat /\ bytes \in Nat
    BY Bounds
  <2>2. tear \notin Ours /\ pc' # "ending" /\ ending' = "open" /\ att' = att
    BY <1>3, CompletingUntorn DEF Admit
  <2>3. Commit(k, bytes, owes, AllOf(k, owes))
    BY <1>3 DEF Admit
  <2>4. /\ Numbered(delivered', 0)
        /\ Numbered(held', Len(delivered'))
        /\ InOrder'
        /\ Len(got') <= Len(delivered')
        /\ Len(delivered') + Len(held') = made'
        /\ Len(got') = Len(delivered')
    BY <2>1, <2>2, <2>3, CommitSequences
  <2> QED
    BY <2>2, <2>4 DEF Consecutive
<1>4. ASSUME NEW k \in 1 .. MaxGroup, NEW bytes \in Sizes, NEW owes \in BOOLEAN,
             FramingFault(k, bytes, owes)
      PROVE  Consecutive'
  <2>1. k \in Nat /\ bytes \in Nat
    BY Bounds
  <2>2. tear \notin Ours /\ att' = att
    BY <1>4, CompletingUntorn DEF FramingFault
  <2>3. PICK sent \in 0 .. AllOf(k, owes) - 1 : Commit(k, bytes, owes, sent)
    BY <1>4 DEF FramingFault
  <2>4. /\ Numbered(delivered', 0)
        /\ Numbered(held', Len(delivered'))
        /\ InOrder'
        /\ Len(got') <= Len(delivered')
        /\ Len(got') = Len(delivered') \/ held' = <<>>
    BY <2>1, <2>2, <2>3, CommitSequences
  <2>5. tear' \in Ours /\ pc' # "ending" /\ ending' \notin {"terminal", "handover", "empty"}
    BY <1>4, CompletingUntorn DEF FramingFault, Faults, Ours
  <2> QED
    BY <2>4, <2>5 DEF Consecutive
<1>5. CASE EventDone
  BY <1>5, ReplyKept DEF EventDone, Consecutive
<1>6. CASE ReportFailure
  BY <1>6, ReplyKept DEF ReportFailure, EndWithError, End
<1>7. ASSUME NEW class \in TearClasses, Tear(class)
      PROVE  Consecutive'
  <2>1. tear \notin Ours
    BY <1>7, TearNames DEF Phases, Tear
  <2> QED
    BY <1>7, <2>1, ReplyKept DEF Tear, Consecutive
<1>8. CASE Eof
  BY <1>8, ReplyKept DEF Eof, Consecutive
<1> QED
  BY <1>1, <1>2, <1>3, <1>4, <1>5, <1>6, <1>7, <1>8 DEF Read

LEMMA FinalFlushConsecutive ==
  ASSUME TypeOK, Consecutive, NEW sent \in 0 .. Len(held), Flush(sent),
         \/ tear' = tear /\ sent = Len(held)
         \/ tear' \in Ours
  PROVE  Consecutive'
<1>1. /\ held' = <<>> /\ delivered' = delivered \o held
      /\ got' = got \o Framed(SubSeq(held, 1, sent))
      /\ att' = att /\ made' = made
  BY DEF Flush, attempts, assembler
<1>2. /\ Numbered(delivered', 0)
      /\ Numbered(held', Len(delivered'))
      /\ InOrder'
      /\ Len(got) <= Len(got') /\ Len(got') <= Len(delivered')
      /\ Len(got) = Len(delivered) /\ sent = Len(held) => Len(got') = Len(delivered')
      /\ Len(delivered') + Len(held') = Len(delivered) + Len(held)
  BY <1>1, FlushSequences
<1>3. tear \notin Ours => Len(got) = Len(delivered) /\ Len(delivered) + Len(held) = made
  BY DEF Consecutive
<1>4. tear' \notin Ours => Len(got') = Len(delivered')
                           /\ Len(delivered') + Len(held') = made'
  BY <1>1, <1>2, <1>3
<1> QED
  BY <1>1, <1>2, <1>4 DEF Consecutive

LEMMA SettleConsecutive ==
  ASSUME TypeOK, Phases, Consecutive, Opening, Closing, Settle
  PROVE  Consecutive'
<1> USE DEF config, attempts, assembler, session, wire
<1>1. CASE TornDeadline
  BY <1>1, ReplyKept DEF TornDeadline, EndWithError, End, Consecutive
<1>2. CASE TornFinished
  BY <1>2, ReplyKept DEF TornFinished, Consecutive
<1>3. CASE Replay
  <2>1. pc # "done" /\ tear # "fault" /\ ~opened
    BY <1>3, TearNames DEF Replay, Replayable
  <2>2. got = <<>>
    BY <2>1, UnseenEmpty
  <2> QED
    BY <1>3, <2>2, AttemptReplaced DEF Replay
<1>4. CASE TornHandOver
  BY <1>4, HandOverSequences DEF TornHandOver
<1>5. CASE TornError
  BY <1>5, ReplyKept DEF TornError, EndWithError, End, Consecutive
<1>6. CASE Close
  BY <1>6, ReplyKept DEF Close, Consecutive
<1>7. CASE Finish
  <2>1. Flush(Len(held)) /\ Len(held) \in 0 .. Len(held) /\ tear' = tear
    BY <1>7, HeldLength DEF Finish
  <2> QED
    BY <2>1, FinalFlushConsecutive
<1>8. CASE FinishFault
  <2>1. PICK sent \in 0 .. Len(held) - 1 : Flush(sent)
    BY <1>8 DEF FinishFault
  <2>2. sent \in 0 .. Len(held) /\ tear' \in Ours
    BY <1>8, HeldLength DEF FinishFault, Ours
  <2> QED
    BY <2>1, <2>2, FinalFlushConsecutive
<1>9. CASE EndOutOfRoom
  BY <1>9, HandOverSequences DEF EndOutOfRoom
<1>10. CASE EndEmpty
  BY <1>10, ReplyKept DEF EndEmpty, End, Consecutive
<1>11. CASE EndNormally
  BY <1>11, ReplyKept DEF EndNormally, EndWithTerminal, End, Consecutive
<1>12. CASE EndAtBoundary
  BY <1>12, ReplyKept DEF EndAtBoundary, EndWithTerminal, EndWithError, End, Consecutive
<1>13. CASE EndCutShort
  <2>1. CASE EndWithHandOver
    BY <2>1, HandOverSequences
  <2>2. CASE EndWithError("truncated")
    BY <2>2, ReplyKept DEF EndWithError, End, Consecutive
  <2> QED
    BY <1>13, <2>1, <2>2 DEF EndCutShort
<1> QED
  BY <1>1, <1>2, <1>3, <1>4, <1>5, <1>6, <1>7, <1>8, <1>9, <1>10, <1>11, <1>12, <1>13
  DEF Settle

LEMMA ConsecutiveStep ==
  ASSUME TypeOK, Phases, Consecutive, Opening, Closing, [Next]_vars
  PROVE  Consecutive'
<1> USE DEF config, attempts, assembler, session, wire
<1>1. CASE BeginDrain
  BY <1>1, ReplyKept DEF BeginDrain, Consecutive
<1>2. CASE ClientGone
  BY <1>2, ReplyKept DEF ClientGone, End, Consecutive
<1>3. CASE UNCHANGED vars
  BY <1>3, ReplyKept DEF vars, Consecutive
<1> QED
  BY <1>1, <1>2, <1>3, DriveConsecutive, ReadConsecutive, SettleConsecutive
  DEF Next, Terminated

-----------------------------------------------------------------------------
(* How the message opens and closes.                                         *)

LEMMA ClosingStep ==
  ASSUME TypeOK, Closing, [Next]_vars
  PROVE  Closing'
<1> USE DEF Closing, config, attempts, assembler, session, wire, vars
<1>1. CASE Drive
  <2>1. ASSUME NEW r \in Reasons, DriverRetries(r)
        PROVE  Closing'
    BY <2>1 DEF DriverRetries
  <2>2. CASE DriverRecovers
    BY <2>2 DEF DriverRecovers
  <2>3. CASE DriverSucceeds
    BY <2>3 DEF DriverSucceeds, Driving
  <2>4. CASE DriverGivesUp
    BY <2>4 DEF DriverGivesUp, Driving
  <2>5. CASE ReopenRaises
    BY <2>5 DEF ReopenRaises
  <2> QED
    BY <1>1, <2>1, <2>2, <2>3, <2>4, <2>5 DEF Drive
<1>2. CASE Read
  <2>1. CASE UpstreamEvent
    BY <2>1 DEF UpstreamEvent
  <2>2. ASSUME NEW k \in 1 .. MaxGroup, NEW bytes \in Sizes, RefuseBatch(k, bytes)
        PROVE  Closing'
    BY <2>2 DEF RefuseBatch, Faults, Completing
  <2>3. ASSUME NEW k \in 1 .. MaxGroup, NEW bytes \in Sizes, NEW owes \in BOOLEAN,
               Admit(k, bytes, owes)
        PROVE  Closing'
    BY <2>3 DEF Admit, Commit
  <2>4. ASSUME NEW k \in 1 .. MaxGroup, NEW bytes \in Sizes, NEW owes \in BOOLEAN,
               FramingFault(k, bytes, owes)
        PROVE  Closing'
    <3>1. terminals' = terminals /\ errors' = errors
      BY <2>4 DEF FramingFault, Commit
    <3> QED
      BY <2>4, <3>1 DEF FramingFault, Faults, Completing
  <2>5. CASE EventDone \/ Eof
    BY <2>5 DEF EventDone, Eof
  <2>6. CASE ReportFailure
    BY <2>6 DEF ReportFailure, EndWithError, End
  <2>7. ASSUME NEW class \in TearClasses, Tear(class)
        PROVE  Closing'
    BY <2>7 DEF Tear
  <2> QED
    BY <1>2, <2>1, <2>2, <2>3, <2>4, <2>5, <2>6, <2>7 DEF Read
<1>3. CASE Settle
  <2>1. CASE TornDeadline \/ TornError
    BY <2>1 DEF TornDeadline, TornError, Abandoned, EndWithError, End
  <2>2. CASE TornFinished \/ Replay \/ Close
    BY <2>2 DEF TornFinished, Replay, Close
  <2>3. CASE TornHandOver \/ EndOutOfRoom
    BY <2>3 DEF TornHandOver, EndOutOfRoom, Abandoned, EndWithHandOver, End
  <2>4. CASE Finish \/ FinishFault
    BY <2>4 DEF Finish, FinishFault, Flush, End
  <2>5. CASE EndEmpty \/ EndNormally \/ EndAtBoundary
    BY <2>5 DEF EndEmpty, EndNormally, EndAtBoundary, EndWithTerminal, EndWithError, End
  <2>6. CASE EndCutShort
    <3>1. ending = "open"
      BY <2>6 DEF EndCutShort
    <3>2. CASE EndWithHandOver
      BY <3>1, <3>2 DEF EndWithHandOver, End
    <3>3. CASE EndWithError("truncated")
      BY <3>1, <3>3 DEF EndWithError, End
    <3> QED
      BY <2>6, <3>2, <3>3 DEF EndCutShort
  <2> QED
    BY <1>3, <2>1, <2>2, <2>3, <2>4, <2>5, <2>6 DEF Settle
<1> QED
  BY <1>1, <1>2, <1>3 DEF Next, BeginDrain, ClientGone, Terminated, End

(* One commit opens the message if it is the first to release a block. *)
LEMMA CommitOpens ==
  ASSUME TypeOK, Opening, tear # "fault", pc # "done", ending = "open",
         NEW k \in Nat, NEW bytes \in Nat, NEW owes \in BOOLEAN, NEW sent,
         Commit(k, bytes, owes, sent)
  PROVE  /\ preambles' = IF delivered' = <<>> THEN 0 ELSE 1
         /\ opened' => delivered' # <<>>
         /\ sent = AllOf(k, owes) /\ delivered' # <<>> => opened'
         /\ delivered' # <<>> => opened' \/ held' = <<>>
<1> DEFINE queue == held \o Batch(k)
           ready == Released(queue, owes)
<1>1. /\ held' = IF ready = <<>> THEN queue ELSE <<>>
      /\ delivered' = delivered \o ready
      /\ preambles' = IF PreambleOwed(ready) THEN preambles + 1 ELSE preambles
      /\ opened' = (opened \/ (ready # <<>> /\ (HasPreamble \/ sent > 0)))
      /\ sent \in 0 .. Len(ready)
      /\ AllOf(k, owes) = Len(ready)
  BY DEF Commit, AllOf
<1>2. ready \in Seq(Nat) /\ delivered \in Seq(Nat)
  BY QueueType, ReleasedType DEF TypeOK
<1> HIDE DEF queue, ready
<1>3. /\ preambles = IF delivered = <<>> THEN 0 ELSE 1
      /\ opened <=> delivered # <<>>
  BY DEF Opening, TypeOK
<1>4. delivered' = <<>> <=> delivered = <<>> /\ ready = <<>>
  BY <1>1, <1>2, ConcatEqualIffEmpty
<1>5. ready # <<>> /\ sent = Len(ready) => sent > 0
  <2>1. Len(ready) \in Nat /\ (ready = <<>> <=> Len(ready) = 0)
    BY <1>2, LenProperties, EmptySeq
  <2> QED
    BY <2>1
<1>6. preambles' = IF delivered' = <<>> THEN 0 ELSE 1
  <2>1. PreambleOwed(ready) <=> ready # <<>> /\ delivered = <<>>
    BY <1>3 DEF PreambleOwed
  <2> QED
    BY <1>1, <1>3, <1>4, <2>1
<1> QED
  BY <1>1, <1>3, <1>4, <1>5, <1>6

(* So does the last flush. *)
LEMMA FlushOpens ==
  ASSUME TypeOK, Opening, pc # "done", ending = "open",
         NEW sent \in 0 .. Len(held), Flush(sent)
  PROVE  /\ preambles' = IF delivered' = <<>> THEN 0 ELSE 1
         /\ opened' => delivered' # <<>>
         /\ tear # "fault" /\ delivered' # <<>> => opened'
         /\ held' = <<>>
<1>1. /\ held' = <<>> /\ delivered' = delivered \o held
      /\ preambles' = IF PreambleOwed(held) THEN preambles + 1 ELSE preambles
      /\ opened' = (opened \/ held # <<>>)
  BY DEF Flush
<1>2. /\ preambles = IF delivered = <<>> THEN 0 ELSE 1
      /\ opened => delivered # <<>>
      /\ tear # "fault" /\ delivered # <<>> => opened
      /\ delivered # <<>> => opened \/ held = <<>>
  BY DEF Opening
<1>3. delivered' = <<>> <=> delivered = <<>> /\ held = <<>>
  <2>1. delivered \in Seq(Nat) /\ held \in Seq(Nat)
    BY DEF TypeOK
  <2> QED
    BY <1>1, <2>1, ConcatEqualIffEmpty
<1>4. PreambleOwed(held) <=> held # <<>> /\ delivered = <<>>
  BY <1>2 DEF PreambleOwed
<1>5. preambles' = IF delivered' = <<>> THEN 0 ELSE 1
  BY <1>1, <1>2, <1>3, <1>4
<1> QED
  BY <1>1, <1>2, <1>3, <1>5

LEMMA HandOverOpens ==
  ASSUME TypeOK, Opening, pc # "done", ending = "open", EndWithHandOver
  PROVE  Opening'
<1>1. /\ delivered' = delivered \o held
      /\ preambles' = IF delivered = <<>> THEN preambles + 1 ELSE preambles
      /\ opened' = opened /\ pc' = "done" /\ ending' = "handover"
  BY DEF EndWithHandOver, End
<1>2. preambles = IF delivered = <<>> THEN 0 ELSE 1
  BY DEF Opening
<1>3. preambles' = 1
  BY <1>1, <1>2
<1>4. opened' => delivered' # <<>>
  <2>1. delivered \in Seq(Nat) /\ held \in Seq(Nat)
    BY DEF TypeOK
  <2>2. opened => delivered # <<>>
    BY DEF Opening
  <2> QED
    BY <1>1, <2>1, <2>2, ConcatEqualIffEmpty
<1> QED
  BY <1>1, <1>3, <1>4 DEF Opening

(* Steps that leave the message and the session alone. *)
LEMMA OpeningKept ==
  ASSUME Opening, UNCHANGED <<preambles, delivered, opened, held>>,
         pc # "done" \/ pc' = "done",
         tear' = "fault" \/ tear # "fault" \/ pc' = "done",
         ending' = ending \/ (ending = "open" /\ ending' # "handover"),
         ending' = "terminal" => opened \/ ending = "terminal",
         pc' \in {"opening", "reopening"} => delivered = <<>> /\ ~opened
  PROVE  Opening'
  BY DEF Opening

LEMMA DriveOpening ==
  ASSUME Phases, Opening, Closing, Drive
  PROVE  Opening'
<1> USE DEF config, attempts, assembler, session, wire
<1>1. ASSUME NEW r \in Reasons, DriverRetries(r)
      PROVE  Opening'
  BY <1>1 DEF DriverRetries, Opening
<1>2. CASE DriverRecovers
  BY <1>2 DEF DriverRecovers, Opening
<1>3. CASE DriverSucceeds
  <2>1. delivered = <<>> /\ ~opened
    BY <1>3 DEF DriverSucceeds, Driving, Opening
  <2> QED
    BY <1>3, <2>1 DEF DriverSucceeds, Opening
<1>4. CASE DriverGivesUp
  BY <1>4 DEF DriverGivesUp, Driving, Opening, Closing
<1>5. CASE ReopenRaises
  BY <1>5 DEF ReopenRaises, Opening, Closing
<1> QED
  BY <1>1, <1>2, <1>3, <1>4, <1>5 DEF Drive

LEMMA ReadOpening ==
  ASSUME TypeOK, Phases, Opening, Closing, Read
  PROVE  Opening'
<1> USE DEF config, attempts, assembler, session, wire
<1>0. ASSUME Completing
      PROVE  tear # "fault" /\ pc # "done" /\ ending = "open"
  BY <1>0, CompletingUntorn DEF Completing, Ours
<1>1. CASE UpstreamEvent
  BY <1>1, OpeningKept DEF UpstreamEvent, Phases
<1>2. ASSUME NEW k \in 1 .. MaxGroup, NEW bytes \in Sizes, RefuseBatch(k, bytes)
      PROVE  Opening'
  <2>1. tear # "fault" /\ pc # "done" /\ ending = "open"
    BY <1>0, <1>2 DEF RefuseBatch
  <2>2. pc' \in {"torn", "done"} /\ ending' \in {"open", "raised"}
    BY <1>2, <2>1 DEF RefuseBatch, Faults
  <2> QED
    BY <1>2, <2>1, <2>2, OpeningKept DEF RefuseBatch
<1>3. ASSUME NEW k \in 1 .. MaxGroup, NEW bytes \in Sizes, NEW owes \in BOOLEAN,
             Admit(k, bytes, owes)
      PROVE  Opening'
  <2>1. k \in Nat /\ bytes \in Nat
    BY Bounds
  <2>2. tear # "fault" /\ pc # "done" /\ ending = "open"
    BY <1>0, <1>3 DEF Admit
  <2>3. Commit(k, bytes, owes, AllOf(k, owes))
    BY <1>3 DEF Admit
  <2>4. /\ preambles' = IF delivered' = <<>> THEN 0 ELSE 1
        /\ opened' => delivered' # <<>>
        /\ delivered' # <<>> => opened'
    BY <2>1, <2>2, <2>3, CommitOpens
  <2>5. ending' = "open" /\ pc' = pc /\ pc \notin {"opening", "reopening"}
    BY <1>3, <2>2 DEF Admit, Completing
  <2> QED
    BY <2>4, <2>5 DEF Opening
<1>4. ASSUME NEW k \in 1 .. MaxGroup, NEW bytes \in Sizes, NEW owes \in BOOLEAN,
             FramingFault(k, bytes, owes)
      PROVE  Opening'
  <2>1. k \in Nat /\ bytes \in Nat
    BY Bounds
  <2>2. tear # "fault" /\ pc # "done" /\ ending = "open"
    BY <1>0, <1>4 DEF FramingFault
  <2>3. PICK sent \in 0 .. AllOf(k, owes) - 1 : Commit(k, bytes, owes, sent)
    BY <1>4 DEF FramingFault
  <2>4. /\ preambles' = IF delivered' = <<>> THEN 0 ELSE 1
        /\ opened' => delivered' # <<>>
        /\ delivered' # <<>> => opened' \/ held' = <<>>
    BY <2>1, <2>2, <2>3, CommitOpens
  <2>5. tear' = "fault" /\ pc' \in {"torn", "done"} /\ ending' \in {"open", "raised"}
    BY <1>4, <2>2 DEF FramingFault, Faults
  <2> QED
    BY <2>4, <2>5 DEF Opening
<1>5. CASE EventDone
  BY <1>5, OpeningKept DEF EventDone, Phases
<1>6. CASE ReportFailure
  BY <1>6, OpeningKept DEF ReportFailure, EndWithError, End, Closing
<1>7. ASSUME NEW class \in TearClasses, Tear(class)
      PROVE  Opening'
  BY <1>7, OpeningKept DEF Tear, Phases
<1>8. CASE Eof
  BY <1>8, OpeningKept DEF Eof, Phases
<1> QED
  BY <1>1, <1>2, <1>3, <1>4, <1>5, <1>6, <1>7, <1>8 DEF Read

LEMMA SettleOpening ==
  ASSUME TypeOK, Phases, Consecutive, Opening, Closing, Settle
  PROVE  Opening'
<1> USE DEF config, attempts, assembler, session, wire
<1>1. CASE TornDeadline
  BY <1>1, OpeningKept DEF TornDeadline, EndWithError, End, Closing
<1>2. CASE TornFinished
  BY <1>2, OpeningKept DEF TornFinished
<1>3. CASE Replay
  <2>1. pc # "done" /\ tear # "fault" /\ ~opened
    BY <1>3, TearNames DEF Replay, Replayable
  <2>2. delivered = <<>>
    BY <2>1, UnseenEmpty
  <2> QED
    BY <1>3, <2>1, <2>2, OpeningKept DEF Replay
<1>4. CASE TornHandOver
  <2>1. pc # "done" /\ ending = "open"
    BY <1>4 DEF TornHandOver, Abandoned, Closing
  <2> QED
    BY <1>4, <2>1, HandOverOpens DEF TornHandOver
<1>5. CASE TornError
  <2>1. pc # "done" /\ ending = "open"
    BY <1>5 DEF TornError, Abandoned, Closing
  <2> QED
    BY <1>5, <2>1, OpeningKept DEF TornError, EndWithError, End
<1>6. CASE Close
  BY <1>6, OpeningKept DEF Close
<1>7. CASE Finish
  <2>1. Flush(Len(held)) /\ Len(held) \in 0 .. Len(held) /\ tear' = tear
    BY <1>7, HeldLength DEF Finish
  <2>2. pc # "done" /\ ending = "open" /\ ending' = "open" /\ pc' = "ending"
    BY <1>7 DEF Finish, Closing
  <2>3. /\ preambles' = IF delivered' = <<>> THEN 0 ELSE 1
        /\ opened' => delivered' # <<>>
        /\ tear # "fault" /\ delivered' # <<>> => opened'
        /\ held' = <<>>
    BY <2>1, <2>2, FlushOpens
  <2> QED
    BY <2>1, <2>2, <2>3 DEF Opening
<1>8. CASE FinishFault
  <2>1. PICK sent \in 0 .. Len(held) - 1 : Flush(sent)
    BY <1>8 DEF FinishFault
  <2>2. sent \in 0 .. Len(held)
    BY HeldLength
  <2>3. pc # "done" /\ ending = "open" /\ ending' = "raised" /\ pc' = "done"
    BY <1>8 DEF FinishFault, Closing, End
  <2>4. /\ preambles' = IF delivered' = <<>> THEN 0 ELSE 1
        /\ opened' => delivered' # <<>>
    BY <2>1, <2>2, <2>3, FlushOpens
  <2> QED
    BY <2>3, <2>4 DEF Opening
<1>9. CASE EndOutOfRoom
  BY <1>9, HandOverOpens DEF EndOutOfRoom, Closing
<1>10. CASE EndEmpty
  BY <1>10, OpeningKept DEF EndEmpty, End, Closing
<1>11. CASE EndNormally
  BY <1>11, OpeningKept DEF EndNormally, EndWithTerminal, End, Closing
<1>12. CASE EndAtBoundary
  <2>1. pc # "done" /\ ending = "open" /\ opened
    BY <1>12 DEF EndAtBoundary, Closing
  <2>2. CASE EndWithTerminal
    BY <2>1, <2>2, OpeningKept DEF EndWithTerminal, End
  <2>3. CASE EndWithError("unspellable")
    BY <2>1, <2>3, OpeningKept DEF EndWithError, End
  <2> QED
    BY <1>12, <2>2, <2>3 DEF EndAtBoundary
<1>13. CASE EndCutShort
  <2>1. pc # "done" /\ ending = "open"
    BY <1>13 DEF EndCutShort, Closing
  <2>2. CASE EndWithHandOver
    BY <2>1, <2>2, HandOverOpens
  <2>3. CASE EndWithError("truncated")
    BY <2>1, <2>3, OpeningKept DEF EndWithError, End
  <2> QED
    BY <1>13, <2>2, <2>3 DEF EndCutShort
<1> QED
  BY <1>1, <1>2, <1>3, <1>4, <1>5, <1>6, <1>7, <1>8, <1>9, <1>10, <1>11, <1>12, <1>13
  DEF Settle

LEMMA OpeningStep ==
  ASSUME TypeOK, Phases, Consecutive, Opening, Closing, [Next]_vars
  PROVE  Opening'
<1> USE DEF config, attempts, assembler, session, wire
<1>1. CASE BeginDrain
  BY <1>1 DEF BeginDrain, Opening
<1>2. CASE ClientGone
  BY <1>2, OpeningKept DEF ClientGone, End, Closing
<1>3. CASE UNCHANGED vars
  BY <1>3 DEF vars, Opening
<1> QED
  BY <1>1, <1>2, <1>3, DriveOpening, ReadOpening, SettleOpening DEF Next, Terminated

-----------------------------------------------------------------------------
(* The theorems.                                                             *)

(* The inductive invariant holds in every reachable state. *)
THEOREM Invariant == Spec => []IInv
<1>1. ASSUME Init PROVE IInv
  <2>1. /\ held = <<>> /\ Len(got) = 0 /\ Len(delivered) = 0 /\ Len(held) = 0
        /\ made = 0 /\ pc = "opening"
    BY <1>1, EmptySeq DEF Init
  <2>2. Consecutive
    BY <2>1 DEF Consecutive, Numbered, InOrder
  <2>3. Phases /\ Opening /\ Closing
    BY <1>1, TearNames DEF Init, Phases, Opening, Closing
  <2> QED
    BY <2>2, <2>3 DEF IInv
<1>2. ASSUME TypeOK, IInv, [Next]_vars PROVE IInv'
  BY <1>2, PhasesStep, ConsecutiveStep, OpeningStep, ClosingStep DEF IInv
<1> QED
  BY <1>1, <1>2, TypeCorrect, PTL DEF Spec

(* The client's reply is blocks 0, 1, 2, ... of the attempt now running,     *)
(* however many attempts, replays and policies stood behind it.              *)
THEOREM ReplyInOrder == Spec => []InOrder
<1>1. IInv => InOrder
  BY DEF IInv, Consecutive
<1> QED
  BY <1>1, Invariant, PTL

(* A reply that closes as one holds every block its attempt completed.       *)
THEOREM ReplyComplete == Spec => []NothingLost
<1>1. ASSUME TypeOK, IInv PROVE NothingLost
  <2>1. SUFFICES ASSUME ending \in {"terminal", "handover", "empty"}, tear \notin Ours
                 PROVE  Len(got) = made
    BY DEF NothingLost
  <2>2. held = <<>> /\ Len(got) = Len(delivered) /\ Len(delivered) + Len(held) = made
    BY <1>1, <2>1 DEF IInv, Consecutive
  <2>3. Len(held) = 0 /\ Len(delivered) \in Nat
    BY <1>1, <2>2, EmptySeq, HeldLength
  <2> QED
    BY <2>2, <2>3
<1> QED
  BY <1>1, TypeCorrect, Invariant, PTL

(* The message opens once, ahead of its first block or its synthesised call. *)
THEOREM MessageOpensOnce == Spec => []OpensOnce
<1>1. ASSUME TypeOK, IInv PROVE OpensOnce
  <2>1. preambles = IF delivered = <<>> /\ ending # "handover" THEN 0 ELSE 1
    BY <1>1 DEF IInv, Opening
  <2>2. got # <<>> => delivered # <<>>
    <3>1. Len(got) \in Nat /\ Len(delivered) \in Nat /\ Len(got) <= Len(delivered)
      BY <1>1, HeldLength DEF IInv, Consecutive
    <3>2. (got = <<>> <=> Len(got) = 0) /\ (delivered = <<>> <=> Len(delivered) = 0)
      BY <1>1, EmptySeq DEF TypeOK
    <3> QED
      BY <3>1, <3>2
  <2>3. terminals > 0 => delivered # <<>> \/ ending = "handover"
    BY <1>1 DEF IInv, Opening, Closing
  <2> QED
    BY <2>1, <2>2, <2>3 DEF OpensOnce
<1> QED
  BY <1>1, TypeCorrect, Invariant, PTL

(* One closing frame ends a reply, a terminal or an error and never both.    *)
THEOREM EndsOnce == Spec => []OneEnding
<1>1. ASSUME TypeOK, IInv PROVE OneEnding
  <2>1. ending \in Endings
    BY <1>1 DEF TypeOK
  <2>2. Closing
    BY <1>1 DEF IInv
  <2> QED
    BY <2>1, <2>2 DEF Closing, OneEnding, Endings
<1> QED
  BY <1>1, TypeCorrect, Invariant, PTL

(* Once draining, only the unfunded recovery opens another attempt. *)
THEOREM DrainOpensNothing == Spec => NoRetryWhileDraining
<1>1. ASSUME TypeOK, [Next]_vars
      PROVE  [draining /\ att' # att => recovered' # recovered]_vars
  <2>1. ASSUME NEW r \in Reasons, DriverRetries(r)
        PROVE  ~draining
    BY <2>1 DEF DriverRetries
  <2>2. CASE DriverRecovers
    BY <1>1, <2>2 DEF DriverRecovers, TypeOK
  <2>3. CASE Replay
    BY <2>3 DEF Replay
  <2>4. CASE UNCHANGED attempts
    BY <2>4 DEF attempts
  <2> QED
    BY <1>1, <2>1, <2>2, <2>3, <2>4, AttemptsKept
<1> QED
  BY <1>1, TypeCorrect, PTL DEF Spec, NoRetryWhileDraining

(* Every way a step may end the reply, and what it leaves when it does not. *)
LEMMA EndingsNamed ==
  ASSUME Closing, [Next]_vars
  PROVE  \/ UNCHANGED <<ending, client, call, tear>> /\ (pc = "done" => UNCHANGED got)
         \/ ending = "open" /\ UNCHANGED client /\ ending' # "handover"
         \/ ending = "open" /\ UNCHANGED client /\ EndWithHandOver /\ Continuable
<1> USE DEF Closing, config, attempts, assembler, session, wire, vars
<1>1. CASE Drive
  BY <1>1 DEF Drive, Driving, DriverRetries, DriverRecovers, DriverSucceeds, DriverGivesUp,
              ReopenRaises
<1>2. CASE Read
  <2>1. CASE UpstreamEvent \/ EventDone \/ Eof
    BY <2>1 DEF UpstreamEvent, EventDone, Eof
  <2>2. ASSUME NEW k \in 1 .. MaxGroup, NEW bytes \in Sizes, RefuseBatch(k, bytes)
        PROVE  ending = "open" /\ UNCHANGED client /\ ending' # "handover"
    BY <2>2 DEF RefuseBatch, Faults, Completing
  <2>3. ASSUME NEW k \in 1 .. MaxGroup, NEW bytes \in Sizes, NEW owes \in BOOLEAN,
               Admit(k, bytes, owes)
        PROVE  ending = "open" /\ UNCHANGED client /\ ending' # "handover"
    BY <2>3 DEF Admit, Completing
  <2>4. ASSUME NEW k \in 1 .. MaxGroup, NEW bytes \in Sizes, NEW owes \in BOOLEAN,
               FramingFault(k, bytes, owes)
        PROVE  ending = "open" /\ UNCHANGED client /\ ending' # "handover"
    BY <2>4 DEF FramingFault, Faults, Completing
  <2>5. CASE ReportFailure
    BY <2>5 DEF ReportFailure, EndWithError, End
  <2>6. ASSUME NEW class \in TearClasses, Tear(class)
        PROVE  ending = "open" /\ UNCHANGED client /\ ending' # "handover"
    BY <2>6 DEF Tear
  <2> QED
    BY <1>2, <2>1, <2>2, <2>3, <2>4, <2>5, <2>6 DEF Read
<1>3. CASE Settle
  <2>1. CASE TornDeadline \/ TornFinished \/ Replay \/ Close \/ TornError
    BY <2>1 DEF TornDeadline, TornFinished, Replay, Close, TornError, Abandoned,
                EndWithError, End
  <2>2. CASE TornHandOver \/ EndOutOfRoom
    BY <2>2 DEF TornHandOver, EndOutOfRoom, Abandoned, Offered, OutOfRoom, EndWithHandOver
  <2>3. CASE Finish \/ FinishFault
    BY <2>3 DEF Finish, FinishFault, Flush, End
  <2>4. CASE EndEmpty \/ EndNormally \/ EndAtBoundary
    BY <2>4 DEF EndEmpty, EndNormally, EndAtBoundary, EndWithTerminal, EndWithError, End
  <2>5. CASE EndCutShort
    <3>1. CASE EndWithHandOver /\ Continuable
      BY <2>5, <3>1 DEF EndCutShort, EndWithHandOver
    <3>2. CASE EndWithError("truncated")
      BY <2>5, <3>2 DEF EndCutShort, EndWithError, End
    <3> QED
      BY <2>5, <3>1, <3>2 DEF EndCutShort
  <2> QED
    BY <1>3, <2>1, <2>2, <2>3, <2>4, <2>5 DEF Settle
<1> QED
  BY <1>1, <1>2, <1>3 DEF Next, BeginDrain, ClientGone, Terminated, End

(* The synthesised call follows the last block the client holds and goes     *)
(* only to a client that can execute it.                                     *)
THEOREM CallInPlace == Spec => []CallFollowsReply
<1>1. Init => CallFollowsReply
  BY DEF Init, CallFollowsReply
<1>2. ASSUME TypeOK, IInv, CallFollowsReply, [Next]_vars
      PROVE  CallFollowsReply'
  <2>1. Closing /\ Consecutive
    BY <1>2 DEF IInv
  <2>2. CASE UNCHANGED <<ending, client, call, tear>> /\ (pc = "done" => UNCHANGED got)
    BY <1>2, <2>1, <2>2 DEF CallFollowsReply, Closing
  <2>3. CASE ending = "open" /\ UNCHANGED client /\ ending' # "handover"
    BY <2>3 DEF CallFollowsReply
  <2>4. CASE ending = "open" /\ UNCHANGED client /\ EndWithHandOver /\ Continuable
    <3>1. Consecutive'
      BY <1>2, <2>1, <2>4, HandOverSequences
    <3>2. tear' \notin Ours => Len(got') = Len(delivered')
      BY <3>1 DEF Consecutive
    <3>3. call' = Len(delivered') /\ client' = "anthropic"
      BY <2>4 DEF EndWithHandOver, Continuable
    <3> QED
      BY <3>2, <3>3 DEF CallFollowsReply
  <2> QED
    BY <1>2, <2>1, <2>2, <2>3, <2>4, EndingsNamed
<1> QED
  BY <1>1, <1>2, TypeCorrect, Invariant, PTL DEF Spec

(* A torn-by-deadline delivery can only say so, or lose its client first. *)
DeadlineStanding ==
  tear = "deadline" => pc = "torn" \/ (pc = "done" /\ ending \in {"deadline", "gone"})

LEMMA DeadlineStep ==
  ASSUME DeadlineStanding, Closing, [Next]_vars
  PROVE  DeadlineStanding'
<1> USE DEF DeadlineStanding, config, attempts, assembler, session, wire, vars
<1>1. CASE Drive
  BY <1>1 DEF Drive, Driving, DriverRetries, DriverRecovers, DriverSucceeds, DriverGivesUp,
              ReopenRaises
<1>2. CASE Read
  <2>1. ASSUME NEW k \in 1 .. MaxGroup, NEW bytes \in Sizes, RefuseBatch(k, bytes)
        PROVE  DeadlineStanding'
    BY <2>1 DEF RefuseBatch
  <2>2. ASSUME NEW k \in 1 .. MaxGroup, NEW bytes \in Sizes, NEW owes \in BOOLEAN,
               Admit(k, bytes, owes)
        PROVE  DeadlineStanding'
    BY <2>2 DEF Admit, Completing
  <2>3. ASSUME NEW k \in 1 .. MaxGroup, NEW bytes \in Sizes, NEW owes \in BOOLEAN,
               FramingFault(k, bytes, owes)
        PROVE  DeadlineStanding'
    BY <2>3 DEF FramingFault
  <2>4. CASE UpstreamEvent \/ EventDone \/ Eof
    BY <2>4 DEF UpstreamEvent, EventDone, Eof
  <2>5. CASE ReportFailure
    BY <2>5 DEF ReportFailure, EndWithError, End
  <2>6. ASSUME NEW class \in TearClasses, Tear(class)
        PROVE  DeadlineStanding'
    BY <2>6 DEF Tear
  <2> QED
    BY <1>2, <2>1, <2>2, <2>3, <2>4, <2>5, <2>6 DEF Read
<1>3. CASE Settle
  <2>1. "deadline" \notin Reasons
    BY DeliveryAssumption DEF DeliveryAssumption
  <2>2. CASE TornDeadline \/ TornFinished \/ Close
    BY <2>2 DEF TornDeadline, TornFinished, Close, EndWithError, End
  <2>3. CASE Replay
    BY <2>1, <2>3 DEF Replay, Replayable
  <2>4. CASE TornHandOver \/ TornError
    BY <2>4 DEF TornHandOver, TornError, Abandoned, EndWithHandOver, EndWithError, End
  <2>5. CASE Finish \/ FinishFault
    BY <2>5 DEF Finish, FinishFault
  <2>6. CASE EndOutOfRoom \/ EndEmpty \/ EndNormally
    BY <2>6 DEF EndOutOfRoom, EndEmpty, EndNormally, EndWithHandOver, EndWithTerminal, End
  <2>7. CASE EndAtBoundary
    BY <2>7 DEF EndAtBoundary, EndWithTerminal, EndWithError, End
  <2>8. CASE EndCutShort
    BY <2>8 DEF EndCutShort, EndWithHandOver, EndWithError, End
  <2> QED
    BY <1>3, <2>2, <2>3, <2>4, <2>5, <2>6, <2>7, <2>8 DEF Settle
<1> QED
  BY <1>1, <1>2, <1>3 DEF Next, BeginDrain, ClientGone, Terminated, End

(* When the client's own deadline cuts the wait, the client is told so, even *)
(* if upstream had finished the turn, and nothing but that error ends it.    *)
THEOREM DeadlineIsSaid == Spec => []DeadlineSaid
<1>1. Init => DeadlineStanding
  BY DEF Init, DeadlineStanding
<1>2. IInv => Closing
  BY DEF IInv
<1>3. Spec => []DeadlineStanding
  BY <1>1, <1>2, DeadlineStep, Invariant, PTL DEF Spec
<1>4. ASSUME DeadlineStanding, IInv
      PROVE  DeadlineSaid
  BY <1>2, <1>4 DEF DeadlineStanding, DeadlineSaid, Closing
<1> QED
  BY <1>3, <1>4, Invariant, PTL

-----------------------------------------------------------------------------
(* Block delivery implements its promise.                                    *)

LEMMA ReplyGrows ==
  ASSUME TypeOK, IInv, [Next]_vars
  PROVE  Len(got) <= Len(got')
<1> USE DEF config, attempts, assembler, session, wire, vars
<1>0. Len(got) \in Nat /\ Len(held) \in Nat /\ Consecutive /\ Phases /\ Closing
  BY HeldLength DEF IInv
<1>1. ASSUME NEW k \in 1 .. MaxGroup, NEW bytes \in Sizes, NEW owes \in BOOLEAN,
             Admit(k, bytes, owes) \/ FramingFault(k, bytes, owes)
      PROVE  Len(got) <= Len(got')
  <2>1. k \in Nat /\ bytes \in Nat
    BY Bounds
  <2>2. PICK sent : Commit(k, bytes, owes, sent)
    BY <1>1 DEF Admit, FramingFault
  <2>3. att' = att /\ tear \notin Ours
    BY <1>0, <1>1, CompletingUntorn DEF Admit, FramingFault
  <2> QED
    BY <1>0, <2>1, <2>2, <2>3, CommitSequences
<1>2. CASE Finish \/ FinishFault
  <2>1. PICK sent \in 0 .. Len(held) : Flush(sent)
    BY <1>0, <1>2 DEF Finish, FinishFault
  <2> QED
    BY <1>0, <2>1, FlushSequences DEF Flush
<1>3. CASE EndWithHandOver
  BY <1>0, <1>3, HandOverSequences
<1>4. CASE UNCHANGED got
  BY <1>0, <1>4
<1>5. CASE Drive
  BY <1>4, <1>5 DEF Drive, DriverRetries, DriverRecovers, DriverSucceeds, DriverGivesUp,
                    ReopenRaises
<1>6. CASE Read
  <2>1. ASSUME NEW k \in 1 .. MaxGroup, NEW bytes \in Sizes, RefuseBatch(k, bytes)
        PROVE  UNCHANGED got
    BY <2>1 DEF RefuseBatch
  <2>2. CASE UpstreamEvent \/ EventDone \/ ReportFailure \/ Eof
    BY <1>4, <2>2 DEF UpstreamEvent, EventDone, ReportFailure, EndWithError, Eof
  <2>3. ASSUME NEW class \in TearClasses, Tear(class)
        PROVE  UNCHANGED got
    BY <2>3 DEF Tear
  <2> QED
    BY <1>1, <1>4, <1>6, <2>1, <2>2, <2>3 DEF Read
<1>7. CASE Settle
  <2>1. \/ Finish \/ FinishFault \/ EndWithHandOver
        \/ UNCHANGED got
    BY <1>7 DEF Settle, TornDeadline, TornFinished, Replay, TornHandOver, TornError, Close,
                EndOutOfRoom, EndEmpty, EndNormally, EndAtBoundary, EndCutShort,
                EndWithError, EndWithTerminal
  <2> QED
    BY <1>2, <1>3, <1>4, <2>1
<1> QED
  BY <1>4, <1>5, <1>6, <1>7 DEF Next, BeginDrain, ClientGone, Terminated

(* A step that replaces the attempt replaces one the client saw nothing of.  *)
LEMMA ReplacementUnseen ==
  ASSUME TypeOK, IInv, [Next]_vars, att' # att
  PROVE  /\ ending = "open" /\ got = <<>>
         /\ att' = att + 1 /\ UNCHANGED <<got, ending>>
<1> USE DEF attempts, wire
<1>1. \/ \E r \in Reasons : DriverRetries(r)
      \/ DriverRecovers
      \/ Replay
  BY AttemptsKept
<1>2. pc # "done" /\ tear # "fault" /\ ~opened
  <2>1. CASE Replay
    BY <2>1, TearNames DEF Replay, Replayable
  <2>2. ASSUME Driving
        PROVE  pc # "done" /\ tear # "fault" /\ ~opened
    BY <2>2, TearNames DEF Driving, IInv, Phases, Opening, Ours
  <2> QED
    BY <1>1, <2>1, <2>2 DEF DriverRetries, DriverRecovers
<1>3. ending = "open" /\ got = <<>>
  BY <1>2, UnseenEmpty DEF IInv, Closing
<1>4. att' = att + 1 /\ UNCHANGED <<got, ending>>
  BY <1>1 DEF DriverRetries, DriverRecovers, Replay
<1> QED
  BY <1>3, <1>4

(* n blocks of an attempt, from the given one on. *)
Blocks(n, attempt, first) == [i \in 1 .. n |-> [attempt |-> attempt, index |-> first + i - 1]]

LEMMA UnitsInOrder ==
  ASSUME NEW n \in Nat, NEW a \in Nat, NEW b \in Nat
  PROVE  /\ Blocks(n, a, b) \in Seq(Unit) /\ Len(Blocks(n, a, b)) = n
         /\ \A i \in 1 .. n : Blocks(n, a, b)[i] = [attempt |-> a, index |-> b + i - 1]
<1> DEFINE units == Blocks(n, a, b)
<1> USE DEF Blocks
<1>1. \A i \in 1 .. n : [attempt |-> a, index |-> b + i - 1] \in Unit
  BY DEF Unit
<1>2. units \in [1 .. n -> Unit]
  BY <1>1
<1>3. units \in Seq(Unit)
  BY <1>2, SeqDef
<1>4. Len(units) = n
  BY <1>2, <1>3, LenProperties
<1> QED
  BY <1>3, <1>4

(* A reply that grew under one attempt grew by that attempt's next blocks. *)
LEMMA GrowsByNextBlocks ==
  ASSUME TypeOK, InOrder, TypeOK', InOrder', att' = att, Len(got) <= Len(got')
  PROVE  got' = got \o Promise!NextBlocks(Len(got') - Len(got))
<1> DEFINE more == Promise!NextBlocks(Len(got') - Len(got))
<1>1. /\ got \in Seq(Unit) /\ got' \in Seq(Unit) /\ att \in Nat
      /\ Len(got) \in Nat /\ Len(got') \in Nat
  BY LenProperties DEF TypeOK
<1>2. Len(got') - Len(got) \in Nat
  BY <1>1
<1>3. /\ more \in Seq(Unit) /\ Len(more) = Len(got') - Len(got)
      /\ \A i \in 1 .. Len(got') - Len(got) :
           more[i] = [attempt |-> att, index |-> Len(got) + i - 1]
  <2> DEFINE n == Len(got') - Len(got)
  <2>1. more = Blocks(n, att, Len(got))
    BY DEF Promise!NextBlocks, Blocks
  <2>2. n \in Nat
    BY <1>2
  <2> HIDE DEF n, more
  <2>3. /\ more \in Seq(Unit) /\ Len(more) = n
        /\ \A i \in 1 .. n : more[i] = [attempt |-> att, index |-> Len(got) + i - 1]
    <3>1. att \in Nat /\ Len(got) \in Nat
      BY <1>1
    <3>2. /\ Blocks(n, att, Len(got)) \in Seq(Unit) /\ Len(Blocks(n, att, Len(got))) = n
          /\ \A i \in 1 .. n : Blocks(n, att, Len(got))[i]
                                   = [attempt |-> att, index |-> Len(got) + i - 1]
      BY <2>2, <3>1, UnitsInOrder, Zenon
    <3> QED
      BY <2>1, <3>2, Zenon
  <2> QED
    BY <2>3 DEF n
<1> HIDE DEF more
<1>4. /\ got \o more \in Seq(Unit)
      /\ Len(got \o more) = Len(got) + Len(more)
      /\ \A i \in 1 .. Len(got) + Len(more) :
           (got \o more)[i] = IF i <= Len(got) THEN got[i] ELSE more[i - Len(got)]
  <2>1. got \in Seq(Unit) /\ more \in Seq(Unit)
    BY <1>1, <1>3
  <2> QED
    BY <2>1, ConcatProperties, Zenon
<1>5. Len(got \o more) = Len(got')
  BY <1>1, <1>3, <1>4
<1>6. ASSUME NEW i \in 1 .. Len(got')
      PROVE  (got \o more)[i] = got'[i]
  <2>0. i \in 1 .. Len(got) + Len(more)
    BY <1>1, <1>3
  <2>1. got'[i] = [attempt |-> att, index |-> i - 1]
    BY DEF InOrder
  <2>2. CASE i <= Len(got)
    BY <1>1, <1>4, <2>0, <2>1, <2>2 DEF InOrder
  <2>3. CASE ~(i <= Len(got))
    <3>1. i - Len(got) \in 1 .. Len(got') - Len(got)
      BY <1>1, <2>3
    <3>2. Len(got) + (i - Len(got)) - 1 = i - 1
      BY <1>1
    <3>3. more[i - Len(got)] = [attempt |-> att, index |-> i - 1]
      BY <1>3, <3>1, <3>2
    <3> QED
      BY <1>4, <2>0, <2>1, <2>3, <3>3
  <2> QED
    BY <2>2, <2>3
<1>7. got' = got \o more
  BY <1>1, <1>4, <1>5, <1>6, SeqEqual
<1> QED
  BY <1>7 DEF more

(* What a client is promised, whatever the buffer, the policy, the budget    *)
(* and the upstream do: whole blocks of one source, replaced only unseen,    *)
(* and one ending. (That it ends at all is liveness, left to TLC.)           *)
THEOREM ImplementsPromise == Spec => Promise!Spec
<1>1. Init => Promise!Init
  BY DEF Init, Promise!Init
<1>2. ASSUME TypeOK, IInv, TypeOK', IInv', [Next]_vars
      PROVE  [Promise!Next]_(Promise!promise)
  <2>1. CASE att' # att
    <3>1. Promise!Replace
      BY <1>2, <2>1, ReplacementUnseen DEF Promise!Replace
    <3> QED
      BY <3>1 DEF Promise!Next
  <2>2. CASE att' = att /\ UNCHANGED <<got, ending>>
    BY <2>2 DEF Promise!promise
  <2>3. CASE att' = att /\ ~UNCHANGED <<got, ending>>
    <3>1. ending = "open"
      <4>1. Closing
        BY <1>2 DEF IInv
      <4>2. ending # "open" => pc = "done"
        BY <4>1 DEF Closing
      <4> QED
        BY <1>2, <2>3, <4>1, <4>2, EndingsNamed
    <3>2. Len(got) <= Len(got')
      BY <1>2, ReplyGrows
    <3>3. got' = got \o Promise!NextBlocks(Len(got') - Len(got))
      BY <1>2, <2>3, <3>2, GrowsByNextBlocks DEF IInv, Consecutive
    <3>4. Promise!Advance
      BY <2>3, <3>1, <3>2, <3>3 DEF Promise!Advance
    <3> QED
      BY <3>4 DEF Promise!Next
  <2> QED
    BY <2>1, <2>2, <2>3
<1> QED
  BY <1>1, <1>2, TypeCorrect, Invariant, PTL DEF Spec, Promise!Spec


-----------------------------------------------------------------------------
(* How far a delivery is from its end, if upstream says nothing more: what   *)
(* the ledger still pays for, with a recovery under each of those attempts,  *)
(* the place it stands at, and a drain that has not begun.                   *)

Place(step) ==
  CASE step \in {"opening", "reopening"} -> 7
    [] step \in {"pulling", "admitting"} -> 6
    [] step = "torn" -> 5
    [] step \in {"closing", "abandoning"} -> 4
    [] step = "finishing" -> 3
    [] step = "ending" -> 2
    [] step = "done" -> 0

Spare == 2 * (MaxTotal - ledger.total) + (IF recovered = "no" THEN 1 ELSE 0)

Rank == 9 * Spare + Place(pc) + (IF draining THEN 0 ELSE 1)

(* The steps that read: an event, the blocks it completed, and back.         *)
Reads ==
  \/ UpstreamEvent \/ EventDone
  \/ \E k \in 1 .. MaxGroup, bytes \in Sizes, owes \in BOOLEAN : Admit(k, bytes, owes)

LEMMA PlaceRange == ASSUME NEW step \in Steps PROVE Place(step) \in 0 .. 7
BY DEF Steps, Place

LEMMA SpareNat == TypeOK /\ AttemptsFunded => Spare \in Nat
<1> SUFFICES ASSUME TypeOK, AttemptsFunded PROVE Spare \in Nat
  OBVIOUS
<1>1. ledger.total \in Nat /\ ledger.total <= MaxTotal /\ MaxTotal \in Nat
  BY LedgerAssumption DEF TypeOK, AttemptsFunded, WithinBudget, Ledger
<1> QED
  BY <1>1 DEF Spare

LEMMA RankNat == TypeOK /\ AttemptsFunded => Rank \in Nat
<1> SUFFICES ASSUME TypeOK, AttemptsFunded PROVE Rank \in Nat
  OBVIOUS
<1>1. Place(pc) \in 0 .. 7 /\ Spare \in Nat
  BY PlaceRange, SpareNat DEF TypeOK
<1> QED
  BY <1>1 DEF Rank

(* A step that spends an attempt may put the delivery anywhere.              *)
LEMMA SpendingStep ==
  ASSUME TypeOK, pc' \in Steps, UNCHANGED draining,
         Spare \in Nat, Spare' \in Int, Spare' < Spare
  PROVE  Rank' < Rank
<1>1. Place(pc) \in 0 .. 7 /\ Place(pc') \in 0 .. 7
  BY PlaceRange DEF TypeOK
<1> QED
  BY <1>1 DEF Rank

(* One that spends none goes on to a later place, or begins the drain.       *)
LEMMA LaterPlace ==
  ASSUME TypeOK, Spare \in Nat, pc' \in Steps, UNCHANGED <<ledger, recovered, draining>>,
         Place(pc') <= Place(pc)
  PROVE  /\ Rank' <= Rank
         /\ Place(pc') < Place(pc) => Rank' < Rank
<1>1. Place(pc) \in 0 .. 7 /\ Place(pc') \in 0 .. 7
  BY PlaceRange DEF TypeOK
<1>2. Spare' = Spare
  BY DEF Spare
<1> QED
  BY <1>1, <1>2 DEF Rank

LEMMA DriveNears ==
  ASSUME TypeOK, Spare \in Nat, pc' \in Steps, Drive
  PROVE  Rank' < Rank
<1>0. ledger.total \in Nat /\ MaxTotal \in Nat
  BY LedgerAssumption DEF TypeOK, Ledger
<1>1. ASSUME NEW r \in Reasons, DriverRetries(r) PROVE Rank' < Rank
  <2>1. ledger'.total = ledger.total + 1 /\ UNCHANGED <<recovered, draining>>
    BY <1>1 DEF DriverRetries, Spend
  <2>2. Spare' \in Int /\ Spare' < Spare
    BY <1>0, <2>1 DEF Spare
  <2> QED
    BY <2>1, <2>2, SpendingStep
<1>2. CASE DriverRecovers
  <2>1. /\ recovered = "no" /\ recovered' # "no" /\ UNCHANGED <<ledger, draining>>
    BY <1>2 DEF DriverRecovers
  <2>2. Spare' \in Int /\ Spare' < Spare
    BY <1>0, <2>1 DEF Spare
  <2> QED
    BY <2>1, <2>2, SpendingStep
<1>3. CASE DriverSucceeds \/ DriverGivesUp \/ ReopenRaises
  <2>1. /\ pc \in {"opening", "reopening"} /\ pc' \in {"pulling", "done", "abandoning"}
        /\ UNCHANGED <<ledger, recovered, draining>>
    BY <1>3 DEF DriverSucceeds, DriverGivesUp, ReopenRaises, Driving, attempts
  <2>2. Place(pc') < Place(pc) /\ Place(pc') <= Place(pc)
    BY <2>1 DEF Place
  <2> QED
    BY <2>1, <2>2, LaterPlace
<1> QED
  BY <1>1, <1>2, <1>3 DEF Drive

LEMMA ReadNears ==
  ASSUME TypeOK, Spare \in Nat, pc' \in Steps, Read
  PROVE  Rank' <= Rank /\ (~Reads => Rank' < Rank)
<1>1. CASE UpstreamEvent \/ EventDone
  <2>1. /\ pc \in {"pulling", "admitting"} /\ pc' \in {"pulling", "admitting"}
        /\ UNCHANGED <<ledger, recovered, draining>>
    BY <1>1 DEF UpstreamEvent, EventDone, attempts
  <2>2. Place(pc') = 6 /\ Place(pc) = 6
    BY <2>1 DEF Place
  <2>3. Rank' <= Rank
    BY <2>1, <2>2, LaterPlace
  <2> QED
    BY <1>1, <2>3 DEF Reads
<1>2. ASSUME NEW k \in 1 .. MaxGroup, NEW bytes \in Sizes, NEW owes \in BOOLEAN,
             Admit(k, bytes, owes)
      PROVE  Rank' <= Rank /\ Reads
  <2>1. UNCHANGED <<pc, ledger, recovered, draining>>
    BY <1>2 DEF Admit, attempts
  <2>2. Place(pc') = Place(pc)
    BY <2>1
  <2>3. Place(pc') <= Place(pc)
    <3>1. Place(pc) \in 0 .. 7
      BY PlaceRange DEF TypeOK
    <3> QED
      BY <2>2, <3>1
  <2>4. Rank' <= Rank
    BY <2>1, <2>3, LaterPlace
  <2> QED
    BY <1>2, <2>4 DEF Reads
<1>3. ASSUME /\ pc \in {"pulling", "admitting"} /\ pc' \in {"torn", "done", "closing"}
             /\ UNCHANGED <<ledger, recovered, draining>>
      PROVE  Rank' < Rank
  <2>1. Place(pc') < Place(pc) /\ Place(pc') <= Place(pc)
    BY <1>3 DEF Place
  <2> QED
    BY <1>3, <2>1, LaterPlace
<1>4. ASSUME /\ pc \in {"closing", "finishing"} /\ pc' = "done"
             /\ UNCHANGED <<ledger, recovered, draining>>
      PROVE  Rank' < Rank
  <2>1. Place(pc') < Place(pc) /\ Place(pc') <= Place(pc)
    BY <1>4 DEF Place
  <2> QED
    BY <1>4, <2>1, LaterPlace
<1>5. ASSUME NEW k \in 1 .. MaxGroup, NEW bytes \in Sizes, RefuseBatch(k, bytes)
      PROVE  Rank' < Rank
  <2>1. /\ \/ pc = "admitting" /\ pc' = "torn"
           \/ pc = "closing" /\ pc' = "done"
        /\ UNCHANGED <<ledger, recovered, draining>>
    BY <1>5 DEF RefuseBatch, Completing, Faults, End, attempts
  <2> QED
    BY <1>3, <1>4, <2>1
<1>6. ASSUME NEW k \in 1 .. MaxGroup, NEW bytes \in Sizes, NEW owes \in BOOLEAN,
             FramingFault(k, bytes, owes)
      PROVE  Rank' < Rank
  <2>1. /\ \/ pc = "admitting" /\ pc' = "torn"
           \/ pc = "closing" /\ pc' = "done"
        /\ UNCHANGED <<ledger, recovered, draining>>
    BY <1>6 DEF FramingFault, Completing, Faults, End, attempts
  <2> QED
    BY <1>3, <1>4, <2>1
<1>7. ASSUME ReportFailure PROVE Rank' < Rank
  <2>1. /\ pc \in {"admitting", "finishing"} /\ pc' = "done"
        /\ UNCHANGED <<ledger, recovered, draining>>
    BY <1>7 DEF ReportFailure, EndWithError, End, attempts
  <2>2. CASE pc = "admitting"
    BY <1>3, <2>1, <2>2
  <2>3. CASE pc = "finishing"
    BY <1>4, <2>1, <2>3
  <2> QED
    BY <2>1, <2>2, <2>3
<1>8. ASSUME Eof \/ \E class \in TearClasses : Tear(class) PROVE Rank' < Rank
  <2>1. /\ pc = "pulling" /\ pc' \in {"torn", "closing"}
        /\ UNCHANGED <<ledger, recovered, draining>>
    <3>1. CASE Eof
      BY <3>1 DEF Eof, attempts
    <3>2. ASSUME NEW class \in TearClasses, Tear(class)
          PROVE  /\ pc = "pulling" /\ pc' \in {"torn", "closing"}
                 /\ UNCHANGED <<ledger, recovered, draining>>
      BY <3>2 DEF Tear, attempts
    <3> QED
      BY <1>8, <3>1, <3>2
  <2> QED
    BY <1>3, <2>1
<1>9. Rank' < Rank => Rank' <= Rank
  <2>1. Rank \in Int
    <3>1. Place(pc) \in 0 .. 7
      BY PlaceRange DEF TypeOK
    <3> QED
      BY <3>1 DEF Rank
  <2>2. UNCHANGED <<ledger, recovered, draining>> => Rank' \in Int
    <3>1. Place(pc') \in 0 .. 7
      BY PlaceRange
    <3>2. UNCHANGED <<ledger, recovered, draining>> => Spare' = Spare
      BY DEF Spare
    <3> QED
      BY <3>1, <3>2 DEF Rank
  <2>3. UNCHANGED <<ledger, recovered, draining>>
    BY DEF Read, UpstreamEvent, EventDone, Admit, RefuseBatch, FramingFault, ReportFailure,
       EndWithError, Tear, Eof, attempts
  <2> QED
    BY <2>1, <2>2, <2>3
<1> QED
  BY <1>1, <1>2, <1>5, <1>6, <1>7, <1>8, <1>9 DEF Read

LEMMA SettleNears ==
  ASSUME TypeOK, Spare \in Nat, pc' \in Steps, Settle
  PROVE  Rank' < Rank
<1>1. CASE Replay
  <2>1. /\ ledger'.total = ledger.total + 1 /\ UNCHANGED draining
        /\ recovered' = recovered \/ recovered' = SourcePayload
    BY <1>1 DEF Replay, Spend
  <2>2. ledger.total \in Nat /\ MaxTotal \in Nat
    BY LedgerAssumption DEF TypeOK, Ledger
  <2>3. Spare' \in Int /\ Spare' < Spare
    BY <2>1, <2>2 DEF Spare
  <2> QED
    BY <2>1, <2>3, SpendingStep
<1>2. CASE Settle /\ ~Replay
  <2>1. /\ \/ pc = "torn" /\ pc' \in {"done", "closing"}
           \/ pc = "abandoning" /\ pc' = "done"
           \/ pc = "closing" /\ pc' = "finishing"
           \/ pc = "finishing" /\ pc' \in {"ending", "done"}
           \/ pc = "ending" /\ pc' = "done"
        /\ UNCHANGED <<ledger, recovered, draining>>
    BY <1>2
    DEF Settle, TornDeadline, TornFinished, TornHandOver, TornError, Abandoned, Close,
        Finish, FinishFault, Flush, EndOutOfRoom, EndEmpty, EndNormally, EndAtBoundary,
        EndCutShort, EndWithError, EndWithTerminal, EndWithHandOver, End, attempts
  <2>2. Place(pc') < Place(pc) /\ Place(pc') <= Place(pc)
    BY <2>1 DEF Place
  <2> QED
    BY <2>1, <2>2, LaterPlace
<1> QED
  BY <1>1, <1>2

(* Nothing but reading leaves a delivery as far from its end as it was, and  *)
(* nothing takes it further away: neither retries, replays and recoveries in *)
(* whatever order, nor a drain that begins between them, go on for ever.     *)
(* Only what upstream still has to say can, and the client's deadline cuts   *)
(* that short.                                                               *)
EndNears ==
  [][/\ Rank \in Nat /\ Rank' \in Nat /\ Rank' <= Rank
     /\ ~Reads => Rank' < Rank]_vars

(* What the promise that every delivery ends rests on, beside fairness.      *)
THEOREM DeliveryNearsItsEnd == Spec => EndNears
<1>1. ASSUME TypeOK, AttemptsFunded, Rank \in Nat, (Rank \in Nat)', (pc \in Steps)',
             [Next]_vars
      PROVE  [/\ Rank \in Nat /\ Rank' \in Nat /\ Rank' <= Rank
              /\ ~Reads => Rank' < Rank]_vars
  <2> SUFFICES ASSUME Next, ~UNCHANGED vars
               PROVE  Rank' <= Rank /\ (~Reads => Rank' < Rank)
    BY <1>1
  <2>0. Spare \in Nat
    BY <1>1, SpareNat
  <2>1. CASE Drive \/ Settle
    <3>1. Rank' < Rank
      BY <1>1, <2>0, <2>1, DriveNears, SettleNears
    <3> QED
      BY <1>1, <3>1
  <2>2. CASE Read
    BY <1>1, <2>0, <2>2, ReadNears
  <2>3. CASE BeginDrain
    <3>1. ~draining /\ draining' /\ UNCHANGED <<pc, ledger, recovered>>
      BY <2>3 DEF BeginDrain, attempts
    <3>2. Place(pc) \in 0 .. 7 /\ Spare' = Spare
      BY <1>1, <3>1, PlaceRange DEF TypeOK, Spare
    <3>3. Rank' < Rank
      BY <2>0, <3>1, <3>2 DEF Rank
    <3> QED
      BY <1>1, <3>3
  <2>4. CASE ClientGone
    <3>1. pc # "done" /\ pc' = "done" /\ UNCHANGED <<ledger, recovered, draining>>
      BY <2>4 DEF ClientGone, End, attempts
    <3>2. pc \in {"opening", "pulling", "admitting", "torn", "reopening", "abandoning",
                   "closing", "finishing", "ending"}
      BY <1>1, <3>1 DEF TypeOK, Steps
    <3>3. Place(pc') < Place(pc) /\ Place(pc') <= Place(pc)
      BY <3>1, <3>2 DEF Place
    <3> QED
      BY <1>1, <2>0, <3>1, <3>3, LaterPlace
  <2> QED
    BY <2>1, <2>2, <2>3, <2>4 DEF Next, Terminated
<1>2. TypeOK => pc \in Steps
  BY DEF TypeOK
<1> QED
  BY <1>1, <1>2, TypeCorrect, BudgetBounds, RankNat, PTL DEF Spec, EndNears
=============================================================================
