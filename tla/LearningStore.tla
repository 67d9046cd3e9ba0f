---------------------------- MODULE LearningStore ----------------------------
(***************************************************************************)
(* One process's token-learning store and the SQLite database it shares    *)
(* with another process of the proxy (tokenization/learning_store.py).     *)
(*                                                                         *)
(* Three asyncio locks order everything: a queue each, its head the holder.*)
(* A write holds the lifecycle lock until the writer lock is its own, a    *)
(* snapshot until the reader lock is its own, and the close of the store   *)
(* takes all three. No awaited step is cut short: a cancellation is        *)
(* remembered and answered when the step is over (_confirmed), and so the  *)
(* model has a step for each stretch between two answers. Of the stored    *)
(* rows only the global revision is kept, and the number by which SQLite   *)
(* tells a connection that the file has changed (data_version).            *)
(***************************************************************************)
EXTENDS Naturals, Sequences, FiniteSets

CONSTANTS
  Samples,      (* calls of apply_sample                                       *)
  Events,       (* calls of record_event                                       *)
  Uses,         (* calls of record_anchor_use                                  *)
  Prunes,       (* calls of prune                                              *)
  Reads,        (* calls of snapshot_for_prediction                            *)
  Closers,      (* callers of close                                            *)
  Starter, Owner,  (* the call of start, and the task that closes the store    *)
  MaxForeign,   (* bound: write transactions of the other process              *)
  MaxCancelled  (* bound: calls cancelled                                      *)

Writes == Samples \cup Events \cup Uses \cup Prunes

(* A cancelled call reports what was stored only for these. *)
Observed == Samples \cup Events

Disjoint(A, B) == A \cap B = {}

ASSUME StoreAssumption ==
  /\ Disjoint(Observed, Uses \cup Prunes) /\ Disjoint(Samples, Events)
  /\ Disjoint(Uses, Prunes)
  /\ Disjoint(Writes, Reads) /\ Disjoint(Writes \cup Reads, {Starter, Owner})
  /\ Starter # Owner
  /\ MaxForeign \in Nat /\ MaxCancelled \in Nat

Lockers == Writes \cup Reads \cup {Starter, Owner}

States == {"new", "starting", "running", "closing", "closed", "failed"}

WritePhases == {"uncalled", "lifecycle", "writer", "begin", "asleep", "work",
                "commit", "committed", "rollback", "done"}

(* What the caller of a write learns. "atCommit": cancelled in the commit,  *)
(* and nothing is said to be stored; "stored": so cancelled, and what was   *)
(* stored is told.                                                          *)
Verdicts == {"none", "refused", "failed", "cancelled", "atCommit", "stored", "done"}

ReadPhases == {"uncalled", "lifecycle", "reader", "version", "read", "publish",
               "done"}

VARIABLES
  state, completion,      (* _state, _close_completion                        *)
  lifecycle, reader, writer,  (* the locks' queues                            *)
  readerOpen, writerOpen, (* the two connections                              *)
  cache,                  (* the global revision of the cached state          *)
  readerVersion,          (* _reader_data_version                             *)
  refreshing,             (* _reader_refreshing                               *)
  revision, version,      (* in the file: global_revision, data_version       *)
  owns,                   (* who has the file's write transaction             *)
  foreign,                (* write transactions of the other process so far   *)
  write, effect,          (* each write's phase, and what it does to the rows *)
  final,                  (* final_state, as a transaction last read it       *)
  read, found, held,      (* each snapshot's phase, and what it has read      *)
  start, startHeld, owner, close,
  cancelled,              (* who has been asked to stop                       *)
  (* History, read by the properties only. *)
  told, durable,          (* each write's verdict; the writes committed       *)
  missed,                 (* what the other process committed between the two *)
                          (* reads of the start, until the next commit        *)
  asked, answer           (* the revision in the file at a snapshot's call,   *)
                          (* and what its last answer held                    *)

locks == <<lifecycle, reader, writer>>
connections == <<readerOpen, writerOpen>>
caching == <<cache, readerVersion, refreshing>>
file == <<revision, version, owns, foreign, missed>>
writes == <<write, effect, final, told, durable>>
reads == <<read, found, held, asked, answer>>
ends == <<state, completion, start, startHeld, owner, close>>
vars == <<locks, connections, caching, file, writes, reads, ends, cancelled>>

Effects(w) ==
  CASE w \in Samples -> {"adds", "repeats"}
    [] w \in Events -> {"adds"}
    [] OTHER -> {"adds", "nothing"}

Unasked == [fresh |-> FALSE, revision |-> 0]

TypeOK ==
  /\ state \in States
  /\ completion \in {"none", "pending", "closed", "failed"}
  /\ lifecycle \in Seq(Lockers) /\ reader \in Seq(Lockers) /\ writer \in Seq(Lockers)
  /\ readerOpen \in BOOLEAN /\ writerOpen \in BOOLEAN
  /\ cache \in Nat /\ readerVersion \in Nat /\ refreshing \in BOOLEAN
  /\ revision \in Nat /\ version \in Nat
  /\ owns \in {"nobody", "us", "them"} /\ foreign \in 0 .. MaxForeign
  /\ missed \in Nat
  /\ write \in [Writes -> WritePhases]
  /\ effect \in [Writes -> {"adds", "repeats", "nothing"}]
  /\ final \in [Writes -> Nat]
  /\ read \in [Reads -> ReadPhases]
  /\ found \in [Reads -> Nat] /\ held \in [Reads -> Nat]
  /\ start \in {"uncalled", "lifecycle", "open", "read", "done"} /\ startHeld \in Nat
  /\ owner \in {"none", "called", "lifecycle", "reader", "writer", "connections", "done"}
  /\ close \in [Closers -> {"idle", "waiting", "closed", "failed", "cancelled"}]
  /\ cancelled \subseteq Writes \cup Reads \cup Closers
  /\ told \in [Writes -> Verdicts] /\ durable \subseteq Writes
  /\ \A w \in Writes : write[w] \in {"rollback", "done"} => told[w] # "none"
  /\ asked \in [Reads -> Nat]
  /\ answer \in [Reads -> [fresh : BOOLEAN, revision : Nat]]

Init ==
  /\ state = "new" /\ completion = "none"
  /\ lifecycle = <<>> /\ reader = <<>> /\ writer = <<>>
  /\ readerOpen = FALSE /\ writerOpen = FALSE
  /\ cache = 0 /\ readerVersion = 0 /\ refreshing = FALSE
  /\ revision = 0 /\ version = 0 /\ owns = "nobody" /\ foreign = 0
  /\ missed = 0
  /\ write = [w \in Writes |-> "uncalled"]
  /\ effect = [w \in Writes |-> "nothing"]
  /\ final = [w \in Writes |-> 0]
  /\ read = [r \in Reads |-> "uncalled"]
  /\ found = [r \in Reads |-> 0] /\ held = [r \in Reads |-> 0]
  /\ start = "uncalled" /\ startHeld = 0 /\ owner = "none"
  /\ close = [c \in Closers |-> "idle"]
  /\ cancelled = {}
  /\ told = [w \in Writes |-> "none"] /\ durable = {}
  /\ asked = [r \in Reads |-> 0]
  /\ answer = [r \in Reads |-> Unasked]

Holds(lock, p) == lock # <<>> /\ Head(lock) = p

(* _require_running, and the check that close has not been called. *)
Open == state = "running" /\ completion = "none"

(* Mutant: whatever was read replaces what is cached. *)
ReplacedBy(seen) == seen

(* _publish_state: an older state than the cached one is dropped. *)
Published(seen) == IF seen < cache THEN cache ELSE seen

-----------------------------------------------------------------------------
(* Writes: apply_sample, record_event, record_anchor_use, prune              *)

CallWrite(w) ==
  /\ write[w] = "uncalled"
  /\ write' = [write EXCEPT ![w] = "lifecycle"]
  /\ lifecycle' = Append(lifecycle, w)
  /\ UNCHANGED <<reader, writer, connections, caching, file, effect, final, told,
                 durable, reads, ends, cancelled>>

(* The call is over before it holds the writer lock. *)
LeaveEarly(w, verdict) ==
  /\ write' = [write EXCEPT ![w] = "done"]
  /\ told' = [told EXCEPT ![w] = verdict]
  /\ lifecycle' = Tail(lifecycle)

(* _acquire_operation_lock, the lifecycle lock reached. *)
AskWriter(w) ==
  /\ write[w] = "lifecycle" /\ Holds(lifecycle, w)
  /\ \/ /\ w \in cancelled
        /\ LeaveEarly(w, "cancelled")
        /\ UNCHANGED writer
     \/ /\ w \notin cancelled /\ ~Open
        /\ LeaveEarly(w, "refused")
        /\ UNCHANGED writer
     \/ /\ w \notin cancelled /\ Open
        /\ write' = [write EXCEPT ![w] = "writer"]
        /\ writer' = Append(writer, w)
        /\ UNCHANGED <<told, lifecycle>>
  /\ UNCHANGED <<reader, connections, caching, file, effect, final, durable,
                 reads, ends, cancelled>>

(* Mutant: the lock reached under a cancellation stays taken. *)
KeepWriter(w) == writer

GivenUp(w) == Tail(writer)

(* The writer lock reached, and the lifecycle lock left. *)
TakeWriter(w) ==
  /\ write[w] = "writer" /\ Holds(writer, w) /\ Holds(lifecycle, w)
  /\ \/ /\ w \in cancelled
        /\ LeaveEarly(w, "cancelled")
        /\ writer' = GivenUp(w)
     \/ /\ w \notin cancelled
        /\ write' = [write EXCEPT ![w] = "begin"]
        /\ lifecycle' = Tail(lifecycle)
        /\ UNCHANGED <<told, writer>>
  /\ UNCHANGED <<reader, connections, caching, file, effect, final, durable,
                 reads, ends, cancelled>>

(* The call is over; its lock goes to the next. *)
Leave(w, verdict) ==
  /\ write' = [write EXCEPT ![w] = "done"]
  /\ told' = [told EXCEPT ![w] = verdict]
  /\ writer' = Tail(writer)

(* What the transaction did and had read goes with it. *)
Forget(w) ==
  /\ effect' = [effect EXCEPT ![w] = "nothing"]
  /\ final' = [final EXCEPT ![w] = 0]

(* A transaction that ends with a rollback says why once that is done. *)
Undo(w, verdict) ==
  /\ write' = [write EXCEPT ![w] = "rollback"]
  /\ told' = [told EXCEPT ![w] = verdict]

(* BEGIN IMMEDIATE, with nobody in the way. *)
Begin(w) ==
  /\ write[w] = "begin" /\ owns = "nobody"
  /\ owns' = "us"
  /\ \/ w \in cancelled /\ Undo(w, "cancelled")
     \/ /\ w \notin cancelled
        /\ write' = [write EXCEPT ![w] = "work"]
        /\ UNCHANGED told
  /\ UNCHANGED <<locks, connections, caching, revision, version, foreign, missed,
                 effect, final, durable, reads, ends, cancelled>>

(* The database is busy: the attempt is rolled back, and made again after a  *)
(* nap unless the call was cancelled.                                        *)
FindBusy(w) ==
  /\ write[w] = "begin" /\ owns = "them"
  /\ \/ w \in cancelled /\ Leave(w, "cancelled")
     \/ /\ w \notin cancelled
        /\ write' = [write EXCEPT ![w] = "asleep"]
        /\ UNCHANGED <<told, writer>>
  /\ UNCHANGED <<lifecycle, reader, connections, caching, file, effect, final,
                 durable, reads, ends, cancelled>>

(* The busy deadline has passed. *)
GiveUp(w) ==
  /\ write[w] = "begin" /\ owns = "them" /\ w \notin cancelled
  /\ Leave(w, "failed")
  /\ UNCHANGED <<lifecycle, reader, connections, caching, file, effect, final,
                 durable, reads, ends, cancelled>>

(* _busy_sleep *)
WakeUp(w) ==
  /\ write[w] = "asleep"
  /\ \/ w \in cancelled /\ Leave(w, "cancelled")
     \/ /\ w \notin cancelled
        /\ write' = [write EXCEPT ![w] = "begin"]
        /\ UNCHANGED <<told, writer>>
  /\ UNCHANGED <<lifecycle, reader, connections, caching, file, effect, final,
                 durable, reads, ends, cancelled>>

(* The revision that a transaction with such an effect leads to. *)
After(e) == IF e = "adds" THEN revision + 1 ELSE revision

(* What the transaction reads, computes and writes before its commit, its    *)
(* own changes read back last: any of it may fail, and a cancellation is     *)
(* answered at the end of any of it.                                         *)
Work(w) ==
  /\ write[w] = "work"
  /\ \/ /\ w \notin cancelled
        /\ write' = [write EXCEPT ![w] = "commit"]
        /\ \E e \in Effects(w) :
             /\ effect' = [effect EXCEPT ![w] = e]
             /\ final' = [final EXCEPT ![w] = After(e)]
        /\ UNCHANGED told
     \/ w \notin cancelled /\ Undo(w, "failed") /\ UNCHANGED <<effect, final>>
     \/ w \in cancelled /\ Undo(w, "cancelled") /\ UNCHANGED <<effect, final>>
  /\ UNCHANGED <<locks, connections, caching, file, durable, reads, ends, cancelled>>

(* The commit reaches the file, whether or not anybody is still waiting. An  *)
(* effect of nothing leaves the file as it was.                              *)
Commit(w) ==
  /\ write[w] = "commit"
  /\ owns' = "nobody"
  /\ revision' = After(effect[w])
  /\ version' = IF effect[w] = "nothing" THEN version ELSE version + 1
  /\ missed' = IF effect[w] = "nothing" THEN missed ELSE 0
  /\ durable' = IF effect[w] = "nothing" THEN durable ELSE durable \cup {w}
  /\ write' = [write EXCEPT ![w] = "committed"]
  /\ UNCHANGED <<locks, connections, caching, foreign, effect, final, told, reads,
                 ends, cancelled>>

FailCommit(w) ==
  /\ write[w] = "commit"
  /\ Undo(w, IF w \in cancelled THEN "atCommit" ELSE "failed")
  /\ UNCHANGED <<locks, connections, caching, file, effect, final, durable, reads,
                 ends, cancelled>>

Rollback(w) ==
  /\ write[w] = "rollback"
  /\ owns' = "nobody"
  /\ Leave(w, told[w]) /\ Forget(w)
  /\ UNCHANGED <<lifecycle, reader, connections, caching, revision, version,
                 foreign, missed, durable, reads, ends, cancelled>>

(* Mutant: a cancellation that comes with the commit is swallowed. *)
Swallowed(w) == IF w \in cancelled THEN "none" ELSE "done"

CommitVerdict(w) ==
  IF w \notin cancelled THEN "done"
  ELSE IF w \in Observed THEN "stored"
  ELSE "atCommit"

(* A use of an anchor that is gone publishes nothing. *)
AfterCommit(w) ==
  IF w \in Uses /\ effect[w] = "nothing" THEN cache ELSE Published(final[w])

(* The commit returns to its caller, and what the transaction had read last  *)
(* is published before anything else can run. That may be old by now: the    *)
(* other process may have committed since, and a refresh have seen it.       *)
CommitReturns(w) ==
  /\ write[w] = "committed"
  /\ Leave(w, CommitVerdict(w)) /\ Forget(w)
  /\ cache' = AfterCommit(w)
  /\ UNCHANGED <<lifecycle, reader, connections, readerVersion, refreshing, file,
                 durable, reads, ends, cancelled>>

-----------------------------------------------------------------------------
(* snapshot_for_prediction                                                   *)

CallRead(r) ==
  /\ read[r] = "uncalled"
  /\ read' = [read EXCEPT ![r] = "lifecycle"]
  /\ lifecycle' = Append(lifecycle, r)
  /\ asked' = [asked EXCEPT ![r] = revision]
  /\ UNCHANGED <<reader, writer, connections, caching, file, writes, found, held,
                 answer, ends, cancelled>>

(* The lifecycle lock reached. A store that is not open raises; while        *)
(* another snapshot refreshes, this one returns what was cached, as stale.   *)
AskReader(r) ==
  /\ read[r] = "lifecycle" /\ Holds(lifecycle, r)
  /\ \/ /\ r \in cancelled \/ ~Open \/ refreshing
        /\ read' = [read EXCEPT ![r] = "done"]
        /\ lifecycle' = Tail(lifecycle)
        /\ UNCHANGED <<reader, refreshing>>
     \/ /\ r \notin cancelled /\ Open /\ ~refreshing
        /\ refreshing' = TRUE
        /\ read' = [read EXCEPT ![r] = "reader"]
        /\ reader' = Append(reader, r)
        /\ UNCHANGED lifecycle
  /\ UNCHANGED <<writer, connections, cache, readerVersion, file, writes, found,
                 held, asked, answer, ends, cancelled>>

(* The snapshot is over, with an answer or without one. *)
Finish(r) ==
  /\ read' = [read EXCEPT ![r] = "done"]
  /\ found' = [found EXCEPT ![r] = 0]
  /\ held' = [held EXCEPT ![r] = 0]
  /\ reader' = Tail(reader)
  /\ refreshing' = FALSE

TakeReader(r) ==
  /\ read[r] = "reader" /\ Holds(reader, r) /\ Holds(lifecycle, r)
  /\ lifecycle' = Tail(lifecycle)
  /\ \/ r \in cancelled /\ Finish(r)
     \/ /\ r \notin cancelled
        /\ read' = [read EXCEPT ![r] = "version"]
        /\ UNCHANGED <<reader, refreshing, found, held>>
  /\ UNCHANGED <<writer, connections, cache, readerVersion, file, writes, asked,
                 answer, ends, cancelled>>

(* A read that fails, or is cancelled, leaves the cache as it is: the caller *)
(* gets the cached state marked as stale, or the cancellation.               *)
FailRead(r) ==
  /\ read[r] \in {"version", "read"}
  /\ Finish(r)
  /\ UNCHANGED <<lifecycle, writer, connections, cache, readerVersion, file,
                 writes, asked, answer, ends, cancelled>>

Answered(r, seen) == answer' = [answer EXCEPT ![r] = [fresh |-> TRUE, revision |-> seen]]

(* PRAGMA data_version: nothing has changed since the cached state was read. *)
SeeUnchanged(r) ==
  /\ read[r] = "version" /\ r \notin cancelled
  /\ readerVersion = version
  /\ Finish(r)
  /\ Answered(r, cache)
  /\ UNCHANGED <<lifecycle, writer, connections, cache, readerVersion, file,
                 writes, asked, ends, cancelled>>

SeeChanged(r) ==
  /\ read[r] = "version" /\ r \notin cancelled
  /\ readerVersion # version
  /\ found' = [found EXCEPT ![r] = version]
  /\ read' = [read EXCEPT ![r] = "read"]
  /\ UNCHANGED <<locks, connections, caching, file, writes, held, asked, answer,
                 ends, cancelled>>

(* _read_validated_transaction: one transaction sees the file at one moment; *)
(* decoding it takes longer.                                                 *)
ReadState(r) ==
  /\ read[r] = "read" /\ r \notin cancelled
  /\ held' = [held EXCEPT ![r] = revision]
  /\ read' = [read EXCEPT ![r] = "publish"]
  /\ UNCHANGED <<locks, connections, caching, file, writes, found, asked, answer,
                 ends, cancelled>>

(* Mutant: the version is read once the state has been. *)
VersionAfter(r) == version

VersionBefore(r) == found[r]

(* The state has been read and its transaction ended. *)
Publish(r) ==
  /\ read[r] = "publish"
  /\ Finish(r)
  /\ \/ /\ r \notin cancelled
        /\ readerVersion' = VersionBefore(r)
        /\ cache' = Published(held[r])
        /\ Answered(r, Published(held[r]))
     \/ UNCHANGED <<readerVersion, cache, answer>>
  /\ UNCHANGED <<lifecycle, writer, connections, file, writes, asked, ends,
                 cancelled>>

-----------------------------------------------------------------------------
(* start and close                                                           *)

CallStart ==
  /\ start = "uncalled"
  /\ start' = "lifecycle"
  /\ lifecycle' = Append(lifecycle, Starter)
  /\ UNCHANGED <<reader, writer, connections, caching, file, writes, reads, state,
                 completion, startHeld, owner, close, cancelled>>

(* A store that is not new raises. *)
StartRefused ==
  /\ start = "lifecycle" /\ Holds(lifecycle, Starter) /\ state # "new"
  /\ start' = "done"
  /\ lifecycle' = Tail(lifecycle)
  /\ UNCHANGED <<reader, writer, connections, caching, file, writes, reads, state,
                 completion, startHeld, owner, close, cancelled>>

(* The schema is made or checked, and the connections opened. *)
StartOpens ==
  /\ start = "lifecycle" /\ Holds(lifecycle, Starter) /\ state = "new"
  /\ state' = "starting" /\ start' = "open"
  /\ readerOpen' = TRUE /\ writerOpen' = TRUE
  /\ UNCHANGED <<locks, caching, file, writes, reads, completion, startHeld, owner,
                 close, cancelled>>

StartReads ==
  /\ start = "open"
  /\ startHeld' = revision /\ start' = "read"
  /\ UNCHANGED <<locks, connections, caching, file, writes, reads, state,
                 completion, owner, close, cancelled>>

(* The data version is read after the state here, unlike in a refresh. *)
StartEnds ==
  /\ start = "read"
  /\ readerVersion' = version
  /\ cache' = Published(startHeld)
  /\ state' = "running" /\ start' = "done" /\ startHeld' = 0
  /\ lifecycle' = Tail(lifecycle)
  /\ UNCHANGED <<reader, writer, connections, refreshing, file, writes, reads,
                 completion, owner, close, cancelled>>

(* An error or a cancellation: the connections are closed again. *)
StartFails ==
  /\ start \in {"open", "read"}
  /\ state' = "failed" /\ start' = "done"
  /\ readerOpen' = FALSE /\ writerOpen' = FALSE
  /\ lifecycle' = Tail(lifecycle)
  /\ UNCHANGED <<reader, writer, caching, file, writes, reads, completion,
                 startHeld, owner, close, cancelled>>

(* The first call starts the task that closes the store; all share its end. *)
CallClose(c) ==
  /\ close[c] = "idle"
  /\ \/ /\ state = "closed"
        /\ close' = [close EXCEPT ![c] = "closed"]
        /\ UNCHANGED <<completion, owner>>
     \/ /\ state # "closed" /\ completion = "none"
        /\ completion' = "pending" /\ owner' = "called"
        /\ close' = [close EXCEPT ![c] = "waiting"]
     \/ /\ state # "closed" /\ completion # "none"
        /\ close' = [close EXCEPT ![c] = "waiting"]
        /\ UNCHANGED <<completion, owner>>
  /\ UNCHANGED <<locks, connections, caching, file, writes, reads, state, start,
                 startHeld, cancelled>>

(* _wait_for_close: a cancelled caller waits for the end all the same. *)
CloseReturns(c) ==
  /\ close[c] = "waiting" /\ completion \in {"closed", "failed"}
  /\ close' = [close EXCEPT ![c] =
                 IF completion = "failed" THEN "failed"
                 ELSE IF c \in cancelled THEN "cancelled" ELSE "closed"]
  /\ UNCHANGED <<locks, connections, caching, file, writes, reads, state,
                 completion, start, startHeld, owner, cancelled>>

OwnerAsks ==
  /\ owner = "called"
  /\ owner' = "lifecycle"
  /\ lifecycle' = Append(lifecycle, Owner)
  /\ UNCHANGED <<reader, writer, connections, caching, file, writes, reads, state,
                 completion, start, startHeld, close, cancelled>>

OwnerClosing ==
  /\ owner = "lifecycle" /\ Holds(lifecycle, Owner)
  /\ state' = "closing" /\ owner' = "reader"
  /\ reader' = Append(reader, Owner)
  /\ UNCHANGED <<lifecycle, writer, connections, caching, file, writes, reads,
                 completion, start, startHeld, close, cancelled>>

OwnerHasReader ==
  /\ owner = "reader" /\ Holds(reader, Owner)
  /\ owner' = "writer"
  /\ writer' = Append(writer, Owner)
  /\ UNCHANGED <<lifecycle, reader, connections, caching, file, writes, reads,
                 state, completion, start, startHeld, close, cancelled>>

(* Mutant: the writer lock is only asked for. *)
WriterAsked == TRUE

WriterReached == Holds(writer, Owner)

(* The checkpoint, and the reader closed: a failure of either is kept. *)
OwnerClosesReader ==
  /\ owner = "writer" /\ WriterReached
  /\ readerOpen' = FALSE /\ owner' = "connections"
  /\ UNCHANGED <<locks, writerOpen, caching, file, writes, reads, state,
                 completion, start, startHeld, close, cancelled>>

(* The writer closed; then the cache goes, the locks are let go, and the     *)
(* callers are told, with no step in between.                                *)
OwnerEnds ==
  /\ owner = "connections"
  /\ writerOpen' = FALSE /\ cache' = 0
  /\ state' = "closed" /\ owner' = "done"
  /\ lifecycle' = Tail(lifecycle) /\ reader' = Tail(reader) /\ writer' = Tail(writer)
  /\ completion' \in {"closed", "failed"}
  /\ UNCHANGED <<readerOpen, readerVersion, refreshing, file, writes, reads, start,
                 startHeld, close, cancelled>>

-----------------------------------------------------------------------------
(* The callers' cancellations, and the other process                         *)

CancelCall ==
  /\ Cardinality(cancelled) < MaxCancelled
  /\ \E p \in Writes \cup Reads \cup Closers :
       /\ p \in Writes => write[p] \notin {"uncalled", "done"}
       /\ p \in Reads => read[p] \notin {"uncalled", "done"}
       /\ p \in Closers => close[p] = "waiting"
       /\ cancelled' = cancelled \cup {p}
  /\ UNCHANGED <<locks, connections, caching, file, writes, reads, ends>>

ForeignBegin ==
  /\ owns = "nobody" /\ foreign < MaxForeign
  /\ owns' = "them" /\ foreign' = foreign + 1
  /\ UNCHANGED <<locks, connections, caching, revision, version, missed, writes,
                 reads, ends, cancelled>>

ForeignEnd ==
  /\ owns = "them" /\ owns' = "nobody"
  /\ \/ /\ revision' = revision + 1 /\ version' = version + 1
        /\ missed' = IF start = "read" THEN missed + 1 ELSE 0
     \/ UNCHANGED <<revision, version, missed>>
  /\ UNCHANGED <<locks, connections, caching, foreign, writes, reads, ends,
                 cancelled>>

-----------------------------------------------------------------------------
WriteStep(w) ==
  \/ AskWriter(w) \/ TakeWriter(w) \/ Begin(w) \/ FindBusy(w) \/ GiveUp(w)
  \/ WakeUp(w) \/ Work(w) \/ Commit(w) \/ FailCommit(w) \/ Rollback(w)
  \/ CommitReturns(w)

ReadStep(r) ==
  \/ AskReader(r) \/ TakeReader(r) \/ FailRead(r) \/ SeeUnchanged(r)
  \/ SeeChanged(r) \/ ReadState(r) \/ Publish(r)

StartStep == StartRefused \/ StartOpens \/ StartReads \/ StartEnds \/ StartFails

OwnerStep ==
  \/ OwnerAsks \/ OwnerClosing \/ OwnerHasReader \/ OwnerClosesReader \/ OwnerEnds

Next ==
  \/ \E w \in Writes : CallWrite(w) \/ WriteStep(w)
  \/ \E r \in Reads : CallRead(r) \/ ReadStep(r)
  \/ CallStart \/ StartStep
  \/ \E c \in Closers : CallClose(c) \/ CloseReturns(c)
  \/ OwnerStep
  \/ CancelCall
  \/ ForeignBegin \/ ForeignEnd

Spec == Init /\ [][Next]_vars

(* Every task runs on, statements on the file return, and a busy deadline    *)
(* passes. Nobody has to call, cancel, or use the other process.             *)
Fairness ==
  /\ \A w \in Writes : WF_vars(WriteStep(w)) /\ SF_vars(GiveUp(w))
  /\ \A r \in Reads : WF_vars(ReadStep(r))
  /\ WF_vars(StartStep) /\ WF_vars(OwnerStep)
  /\ \A c \in Closers : WF_vars(CloseReturns(c))
  /\ WF_vars(ForeignEnd)

FairSpec == Spec /\ Fairness

-----------------------------------------------------------------------------
(* What predictions are made from never goes back to an older state, though  *)
(* a refresh that began before a commit may end after it, and a commit may   *)
(* return after a refresh has seen what the other process did since.         *)
CacheNeverBack == [][state' # "closed" => cache' >= cache]_vars

(* A sample or an event whose caller is told that nothing was stored is not  *)
(* in the file and will not be; one said to be stored is. Neither a          *)
(* cancellation at any point nor a failing commit leaves the caller wrong.   *)
OutcomeKnown ==
  \A w \in Observed :
    /\ write[w] = "done" /\ told[w] \in {"refused", "failed", "cancelled", "atCommit"}
         => w \notin durable
    /\ told[w] \in {"done", "stored"} => w \in durable

InTransaction == {"begin", "asleep", "work", "commit", "committed", "rollback"}

(* Nobody uses a connection that close has shut: the writer's transactions   *)
(* and the refresh are over before their connections are.                    *)
NothingOnClosed ==
  /\ \A w \in Writes : write[w] \in InTransaction => writerOpen
  /\ \A r \in Reads : read[r] \in {"version", "read", "publish"} => readerOpen

(* Who is queued at a lock, or holds it, and is not done with it. *)
NeedsLifecycle(p) ==
  \/ p \in Writes /\ write[p] \in {"lifecycle", "writer"}
  \/ p \in Reads /\ read[p] \in {"lifecycle", "reader"}
  \/ p = Starter /\ start \in {"lifecycle", "open", "read"}
  \/ p = Owner /\ owner \in {"lifecycle", "reader", "writer", "connections"}

NeedsReader(p) ==
  \/ p \in Reads /\ read[p] \in {"reader", "version", "read", "publish"}
  \/ p = Owner /\ owner \in {"reader", "writer", "connections"}

NeedsWriter(p) ==
  \/ p \in Writes /\ write[p] \in {"writer"} \cup InTransaction
  \/ p = Owner /\ owner \in {"writer", "connections"}

(* Who waits for no lock: it has reached the one it last asked for, and the  *)
(* file, if that is what it wants, is not in another of our own hands.       *)
Moves(p) ==
  /\ p \in Writes /\ write[p] = "begin" => owns # "us"
  /\ \/ NeedsWriter(p) /\ Holds(writer, p)
     \/ NeedsReader(p) /\ ~NeedsWriter(p) /\ Holds(reader, p)
     \/ /\ NeedsLifecycle(p) /\ ~NeedsReader(p) /\ ~NeedsWriter(p)
        /\ Holds(lifecycle, p)

(* No call is stuck behind a lock that nobody will leave: not one whose      *)
(* holder is gone, as a cancelled call would be that kept its lock, nor one  *)
(* of several whose holders wait for one another, though they are taken      *)
(* hand over hand by the calls and all three together by close.              *)
NobodyStuck ==
  (\E p \in Lockers : NeedsLifecycle(p) \/ NeedsReader(p) \/ NeedsWriter(p))
    => \E p \in Lockers : Moves(p)

(* Every call ends, whoever was cancelled and whatever failed: no lock is    *)
(* left taken, and each caller of close learns of the one end.               *)
EveryCallEnds ==
  /\ \A w \in Writes : write[w] = "lifecycle" ~> write[w] = "done"
  /\ \A r \in Reads : read[r] = "lifecycle" ~> read[r] = "done"
  /\ \A c \in Closers : close[c] = "waiting" ~> close[c] # "waiting"

-----------------------------------------------------------------------------
(* What the callers are promised, see LearningPromise.                       *)

(* What a caller knows of its write once the call is over.                   *)
Heard(w) ==
  CASE write[w] # "done" -> "none"
    [] write[w] = "done" /\ told[w] \in {"refused", "failed", "cancelled"} -> "dropped"
    [] write[w] = "done" /\ told[w] = "atCommit" /\ w \in Observed -> "dropped"
    [] write[w] = "done" /\ told[w] = "done" /\ w \in Observed -> "stored"
    [] write[w] = "done" /\ told[w] = "stored" -> "stored"
    [] OTHER -> "unsaid"

(* The two reads of the start: ahead, one of them done, or both over. *)
Opening ==
  CASE start \in {"uncalled", "lifecycle", "open"} -> "ahead"
    [] start = "read" -> "now"
    [] OTHER -> "over"

Promise ==
  INSTANCE LearningPromise WITH
    opening <- Opening,
    stored <- durable,
    verdict <- [w \in Writes |-> Heard(w)],
    called <- {r \in Reads : read[r] # "uncalled"}

(* A write is stored once or not at all and its caller told the truth; a     *)
(* fresh snapshot is of a moment after its call, and never older than one    *)
(* answered before: through locks, a cache, cancellations, retries, a close  *)
(* and another process, the store is a register of revisions. With one       *)
(* exception: start reads the state before the version that it will compare  *)
(* with, so what another process commits between the two, as the predecessor *)
(* of a gapless restart may, is missing from fresh snapshots until this      *)
(* process or the other commits again. Nothing else is ever missing.         *)
PromiseKept == Promise!Spec
=============================================================================
