# A TLA+ model of ghc-api-proxy-py

The repository is an HTTP proxy between LLM clients (Anthropic Messages, OpenAI Responses, OpenAI Chat Completions) and several upstreams. It retries upstream failures, delivers a streamed reply block by block, shares one rate limiter per provider, records history, and restarts without a gap. This directory holds TLA+ modules for the parts of it where order, failure and concurrency decide whether it is right, TLC configurations that check them on small instances, and TLAPS proofs for every instance. Paths below are relative to `src/src/app/` unless they start with `src/`.

## Inventory

Everything runs on one asyncio loop: a handler is atomic between two awaits, and interleaves with everything else at each of them. Threads appear in the history writer (SQLite), the token learning store and the terminal display.

| Component | State it keeps | Operations | What makes it hard | What makes it correct |
|---|---|---|---|---|
| **Direct driver** `pipeline/direct_driver/base.py`, `pipeline/driver.py` | attempts, outcome, prepared payload, the response it owns | prepare, admit, send, classify, retry, recover, publish, hand off | cancellation while a response is owned; failures of subscribers and of cleanup; one failure reported to several parties | a response has one owner and is released once; attempts are funded; each failed attempt counts once |
| **Retry ledger** `pipeline/retry.py` | total and per-reason counts | consider, take, decide_stream_ending | shared by the driver's loop and the replays under it | never above any ceiling, whatever the mixture |
| **Block delivery** `pipeline/delivery/stream.py`, `blocks.py` | assembler, buffer, session, what the client has seen | admit, commit, flush, tear, replay, hand over, seven endings | a tear after the terminal, a drain between tear and replay, a refused batch, a deadline over a finished reply | the reply is whole, in order, of one attempt, opened and closed once |
| **Delivery clock and SSE reader** `sse_source.py`, `streaming/*` | pending pull, ping schedule, deadline timers | pull, ping, cancel, close | a pull kept pending across pings and cancelled at close | no event lost or repeated across a ping; one deadline fires once |
| **Passthrough** `delivery/passthrough.py` | queued groups, terminal forwarded | forward, close | deadline after the terminal was sent | no frame after the terminal |
| **Rate limiter** `pipeline/rate_limiting.py` | mode, next slot, streak, recovery count, pace | acquire, observe_success, observe_failure, note_failure | sleepers with a wait read earlier; results of attempts sent in another mode | no hold lost, recovery earned, nobody starved |
| **Hand-over** `pipeline/hand_over.py` | none | name a failure, synthesise a call | asked from four endings under different conditions | only a client that can go on is asked to |
| **Shutdown** `lifecycle/shutdown.py`, `standalone.py`, `adapter.py` | rung, tasks, listener, acquired start-up steps | receive a signal, drain, interrupt, finalise, abandon a start-up | signals racing the drain; cleanup over budget | a rung is never skipped backwards; what was acquired is released |
| **Pidfile** `lifecycle/pidfile.py`, `entry.py` | one file shared by processes | look up, claim, signal, remove, restore | several processes, PID reuse, a kill between any two steps, read-then-unlink | neither the record nor the signal takes another process for a server of the port |
| **History** `history/writer.py`, `archive.py` | two queues, SQLite rows, archive files | submit, persist, archive, pin, close | worker threads, two stores without a common transaction, crash in the middle of a frame, close against callers | every accepted entry is answered; what was called durable stays readable; close ends |
| **Token learning** `tokenization/learning.py`, `learning_store.py` | offer queue, three locks, cache, shared close | offer, apply, predict, prune, close | cancellation that may not be honoured mid-commit; another process on the same file | every caller learns the outcome; a prediction is not staler than it says; nothing on a closed connection |
| **Tokenization state** `state_store.py`, `snapshot_store.py` | revision, flushed revision, canonical pointer | mark dirty, flush, publish | a change during the write; two publishers | what is marked flushed is on disk |
| **Tokens and login state** `ghc/tokens.py`, `auth_state.py` | cached token, file and its mtime | get, refresh, write back | a file another program rotates | one refresh at a time; no older token over a newer |
| **Admission, stream cap** `server/admission.py`, `upstream/stream_cap.py` | slots, requests per connection | enter, leave, assign, refuse | two predicates that must agree | the cap holds and the pool makes progress |
| **Accounting** `observability/*` | completion facts, active requests, capture | note, finish, reserve | several writers of one fact | the first cause wins |

The rest is pure conversion (`pipeline/translation_driver`, `chat_completions`, `subscribers`), routing, configuration, presentation and provider clients: data without a protocol, listed in `PROJECT.json` as not modelled. `src/src/.archived` is retired code and is left aside.

Interaction. A route asks `pipeline/driver.py` for a response; its direct driver acquires the provider's limiter, sends, reports the result to the limiter, and retries within the request's ledger. The route then starts the delivery generator over the response. A torn body comes back to the driver through the `reopen` callback, on the same ledger and the same limiter. The whole runs in one task beside a listener for the client's disconnect until the reply is ready, and in the server's task after that; the upstream response changes hands with it. The shutdown ladder raises a flag in `observability/active_requests.py` that both the driver's budget and `reopen` read.

## Modules

| Module | Models |
|---|---|
| `RetryLedger` | the budget: `Funded` is `consider`, `Spend` is the paid half of `take` |
| `BlockDelivery` | one streamed request: driver attempts, assembler, buffer, session, every ending |
| `DeliveryPromise` | the abstract specification of a delivery |
| `MCBlockDelivery` | the instance TLC checks |
| `BlockDeliveryProofs` | its theorems |
| `RateLimiter` | one provider's limiter and the attempts of the requests that share it |
| `MCRateLimiter` | the instance TLC checks |
| `RateLimiterProofs` | its theorems |
| `Shutdown` | one process from start-up to exit: the signal ladder, the admission barrier, connections |
| `MCShutdown` | the instance TLC checks |
| `ShutdownProofs` | its theorems |
| `LearningStore` | one process's token-learning store, and another process on the same database |
| `LearningPromise` | the abstract specification of what its callers see |
| `MCLearningStore` | the instances TLC checks |
| `LearningStoreProofs` | its theorems |
| `HistoryWriter` | the history: both queues and their tasks, archive, index, calls, close, crash and restart |
| `HistoryPromise` | the abstract specification of what becomes of an entry |
| `MCHistoryWriter` | the instance TLC checks |
| `HistoryWriterProofs` | its theorems |
| `Pidfile` | processes that serve one port one after the other, and the record they find each other by |
| `MCPidfile` | the instance TLC checks |
| `PidfileProofs` | its theorems |
| `ResponseOwnership` | one streamed request from its first attempt to the end of its delivery: who has to close which response |
| `MCResponseOwnership` | the instance TLC checks |
| `ResponseOwnershipProofs` | its theorems |
| `QueueLemmas` | queues in which nobody stands twice, for the proofs about asyncio locks and the history's queues |

### BlockDelivery

`pc` is where the generator `_deliver` stands, and each action is the code between two points at which something else can happen: `pulling` (waiting for an event), `admitting` (the blocks of one event go through buffer and session, with a yield after each), `torn` (the exception handler, up to `reopen`), `reopening` (the driver runs again), `abandoning` (reopen declined), `closing` (`assembler.close()`), `finishing` (`session.finish()`) and `ending`. A block is its number in its attempt; what the client holds is `got`, a sequence of records naming attempt and block, so that a repeated, a missing and a foreign block are told apart.

| Variables | Code |
|---|---|
| `att`, `ledger`, `recovered` | attempts, `RetryLedger`, the connection-bound recovery flag and which payload it stripped |
| `made`, `open`, `seen`, `stop`, `failed` | the assembler: blocks completed, `cut_mid_block`, `terminal.seen`, `terminal.stop_reason`, `failure` |
| `held`, `heldBytes`, `toolReleased`, `delivered` | `BlockBuffer` and `DeliverySession.committed` |
| `opened` | `client_has_bytes` |
| `preambles`, `got`, `terminals`, `errors`, `call` | frames written to the client |
| `tear`, `ending` | the exception being handled, and how the delivery ended |

Abstractions. Block contents, sizes beyond the cap's arithmetic, keep-alive comments and accounting callbacks are left out. A dialect enters only through what the decisions turn on: which upstream splits its terminal over two events, which completes blocks in `close()`, which calls an empty stream a failure, which client has no preamble, which can be told `incomplete`, which can execute the continuation call. Which assembler meets which framer follows `delivers_blocks`: pairs that are forwarded raw are excluded. Assumed of the environment: after its terminal an upstream sends nothing that changes the assembler (every assembler ignores what follows), and a tool name is configured (`ToolConfigured`). The fault of a framer inside a hand-over, and the same-format passthrough, are not modelled.

### RateLimiter

The clock never matters by itself: `next` is what is left until `_next_allowed` (0 when past), `limitedFor` how long ago the last limiting answer came, `left[c]` what a sleeping caller still sleeps, and `Tick` moves all of them. `acquire` is two actions, `Sleep` and `Wake`, or one, `AcquireAtOnce`, because the code awaits only when the wait is positive; the other calls are atomic. `Limited` stands for a 429 or 502: it is observed, its subscribers are told across an await (`noting`), and only then is the failure noted (`Fail`). `Fail` also stands for a 5xx, a timeout, an attempt deadline that expires inside the limiter, and the torn body that `reopen` reports. `demand`, `owed`, `asked`, `sinceSent`, `earned` and `row` are history that only the properties read.

### Shutdown

`pc` is where `StandaloneServer.serve` stands: its values are the code's `await` points, each of them a step boundary even where the `await` happens not to suspend, so the model has every interleaving the loop has and some it has not. Signals are actions of their own, enabled while the handlers are installed, and only raise `stage`; `anchor`, `drained` and `interrupted` are the locals of the descent, read before an await and used after it.

| Variables | Code |
|---|---|
| `stage`, `anchor`, `drained`, `interrupted` | `ShutdownLadder`, the rung `_drained_before_advance` waits on, its result, and the flag of `_descend` |
| `state`, `sockets`, `listening` | the outer listener: `ListenerState`, its accept sockets, its accepting server |
| `gate` | the two fields of the admission barrier: paused, open, refused |
| `lifespan`, `masters`, `notes` | what is acquired, and what the report or the failure names as not released |
| `client`, `closing` | each connection, and those that lost their keep-alive |
| `pending`, `told`, `cut`, `stopAsked` | cancellations not delivered yet, ever sent, and fatal; whether a SIGINT or SIGTERM came (the last three are history) |

Both listeners are in the model: Uvicorn's adapter, and the first-byte router, whose sockets and state are its own while the barrier is that of the adapter behind it. Left out: the counts of the closing report; `graceful_cleanup_timeout`, which only marks a clean-up as over its budget; signals that arrive before the handlers are installed or after they are removed, where the platform's default applies; `bind`, `adopt` and `resume_accepting`, which a directly run process does not use after start-up. The call `on_draining` at the first signal is the step `BeginDrain` of `BlockDelivery`.

### LearningStore

An asyncio lock is the queue of its waiters, whose head is the holder. A write queues for the lifecycle lock and, holding it, for the writer lock; only then does it let the first go. A snapshot does the same with the reader lock; close takes all three. The store awaits SQLite through `_confirmed`, which remembers a cancellation and answers it when the step is over, so the model has one action for each stretch between two such answers.

| Variables | Code |
|---|---|
| `state`, `completion` | `_state`, `_close_completion` |
| `lifecycle`, `reader`, `writer` | `_lifecycle_lock`, `_reader_lock`, `_writer_lock` |
| `readerOpen`, `writerOpen` | the two connections |
| `cache`, `readerVersion`, `refreshing` | the global revision of `_validated_state`, `_reader_data_version`, `_reader_refreshing` |
| `revision`, `version`, `owns`, `foreign` | the file: its global revision, its `data_version`, who writes it, and how often the other process has |
| `write`, `effect`, `final`, `read`, `found`, `held`, `start`, `owner`, `close`, `cancelled` | where each call stands and what it holds in its locals |
| `told`, `durable`, `asked`, `answer`, `missed` | history: what each caller was told, what was committed, what the file held when a snapshot was asked for, what the other process committed between the two reads of the start and no later commit has made the store look at |

Each call is made once. Of the rows only the global revision is kept, and whether a write adds to it, repeats what is there, or finds nothing to do. The migration and the pruning plan of the start belong to `StartOpens` and `StartReads`. A failed commit leaves nothing; a rollback does not fail. A transaction reads the state it will publish before its commit (`final`), so by the time the commit returns the other process may have committed something newer, and a refresh have cached it. The other process commits or rolls back at any time while nobody else writes, also while this one starts, as the outgoing process of a gapless restart does.

### HistoryWriter

A frame is one cell of a segment, and so is what a write cut short leaves there; a reference names segment and offset. One session and agent stands for all: segments of different ones are different files and share nothing but the lock. Where a frame goes when the segment is full depends on its length, and is left open (`Places`). Each statement on the index is a step, since the operations read a row and write it in two statements, on threads of their own; `Insert` includes its commit.

| Variables | Code |
|---|---|
| `jobs`, `archives` | `_queue`, `_archive_queue`, with `None` as `End` |
| `writer`, `job`, `placed` | the task `_run`, its job, and the reference that `append` has returned |
| `archiver`, `item` | the task `_run_archive` and its entry |
| `current` | `HistoryArchiveStore._segments`: the segment in use and its size |
| `file`, `row` | the segments on disk and the table `entries` |
| `call` | `archive_entry`, `pin_entry` and `unpin_entry` calls under way |
| `closing` | how far `close` has got |
| `runs`, `up`, `fate` | the processes so far (bounded by `MaxRuns`); what each entry's caller and receipt were told |

Identifiers are new for every request, so an entry is submitted once and `INSERT OR REPLACE` replaces nothing. `Stop` is the end of the process, after a close or by a kill; a kill during an append may leave part of the frame, and what was written before is still there (a kill, not a power failure: the code does not sync). `ShortWrites` and `MarksFail` switch on two failures the code does not survive: a write cut short in a process that lives on, and an archive failure that cannot itself be noted. With the first, `DurableKept` fails, since later references are off by the fragment; what is left of it is `DamageConfined`. With the second, `CloseEnds` and `ArchivingSettles` fail.

Not claimed, because the code does not have it: a request cancelled between the index and the queue, a kill at that point, or a call that comes through after the end marker, leaves its entry `archiving` until somebody archives it again; and since no operation looks at a row again before it writes it, an entry can end both pinned and archived, and two archive calls can turn one that is archived back to `archiving`.

### Pidfile

A number is held by one process at a time and is handed out again afterwards, to one of ours or to a stranger. The start time that the record carries beside the number tells two holders of it apart, so a token is the process itself. How a process was started is the choice it makes in `Verify`: before a live predecessor a plain start gives up, a restart remembers it, a forced start goes on as if there were none.

| Variables | Code |
|---|---|
| `holder`, `pid` | who has each number in `/proc`, and the number each process was given |
| `file` | the pidfile; a record somebody wrote by hand has no token |
| `found` | the local `predecessor` of `run_standalone`, which may be minutes old when it is used |
| `pinned` | the process that the directory descriptor of `signal_restart` refers to |
| `pc` | where each process stands: every read or write of the file or of `/proc` is a step |
| `announced`, `told` | history: who wrote its own record, and who signalled whom |

Writing the record is one step, since it is renamed into place; that it fails is `FailStart` for the first record and the second outcome of `Restore` for the one put back. What serving and draining are belongs to `Shutdown`: here `serving` lasts from the installation of the signal handlers to their removal, and a SIGUSR2 outside it ends the process, as the platform's default does. `/proc` is taken to be readable: where it is not, no token is recorded and nobody is signalled.

Not claimed, because the code says that it does not serialise the processes (`lifecycle/entry.py:116`): that a live server has a record. A process that has read its own number in the file removes the file although a successor may have claimed it since, and one that fails puts its predecessor's record back over a successor's.

### ResponseOwnership

The module composes the driver's `run`, the dispatch that waits for it beside a listener for the client's disconnect, and the streaming response that the server then runs. `pc` is where the one task stands that carries the request at the time: in the driver `sending`, `succeeding` (the success events are published), `failing` (the failure events, and the decision to retry) and `closing` (the `finally` that releases a response); `joining` and `discarding` at the end of the dispatch; `starting`, `reading`, `writing` and `settling` in the delivery; `cleaning` and `releasing` in the clean-up of the streaming response. A response bears the number of its attempt.

| Variables | Code |
|---|---|
| `attempts`, `open`, `held` | attempts begun, responses not closed, the local `response` of `run` |
| `reply` | `results[0]` of the dispatch, later `close_response`: the first response handed over, also when a replay has replaced it |
| `chain`, `pulled` | the response under the delivery generator, and whether that was ever started: closing one that was not does nothing |
| `primary`, `then`, `deferred` | `primary` and the outcome of the retry decision while a response is closed, and `deferred_cancellation` of `finish_async_cleanup` |
| `deadline` | `asyncio.timeout` of `handle_bounded`; `late` if it struck while an error already raised was on its way out, which it leaves as it is |
| `scope`, `stop`, `listener`, `winner` | the task group's cancel scope, a cancellation of the host task, the listener, and which of the two tasks ended first |
| `outcome`, `ended` | how operation and dispatch ended |

The deadline cancels once, so a close that swallowed its cancellation would lose it; the scope cancels again at every `await` until its task ends, which is anyio's behaviour and marked external. A close runs in a task of its own and always ends; whether it reports a failure or not the response counts as released, since the client library marks it closed before it does anything that can fail. `MaxAttempts` stands for budget and ceiling together, a connection-bound recovery included. Subscribers may raise at every event. None of the built-in ones listens to success or failure, but the code guards against those that do; a subscriber of a failure event is taken to pass a cancellation on as it is. Which answer an error becomes, and everything `BlockDelivery` says about a reply, is left out, and so are buffered replies, whose response is read and closed within the attempt, and the body's own deadline, which is an ordinary end of the body here.

Not claimed: that an attempt is not begun once a cancellation is on its way. A cancellation that arrives while a torn stream is being closed may be kept until the replay has begun; it is then delivered at the first `await`, before anything is sent (`NothingOpenedLate`).

## Abstract specifications

`DeliveryPromise` has three variables: the attempt the reply is taken from, the blocks shown, the outcome. The source may be replaced only while nothing is shown, blocks are appended in order, and the reply ends once, after which nothing changes. `BlockDelivery` implements it under `source = att`, `shown = got`, `outcome = ending`.

`LearningPromise` is a register of revisions, with no locks, connections, cache or transactions. A write is stored once or not at all, and what its caller hears of that is true and stays true, so a write whose caller was told that it is not stored is not stored later either. A snapshot answered as fresh is of a moment between its call and its answer, and none is older than one answered before it. With one exception, which is the code's: the start reads the state before the version of the file (`learning_store.py:641`, `642`), so what somebody else stores while the store is `opening` (`missed`) may be absent from fresh snapshots until anything more is stored. `LearningStore` implements it under `opening = Opening`, `stored = durable`, `called` = the snapshots begun, and `verdict = Heard(w)`: the answer of the call once it is over, where `unsaid` stands for the answers that leave it open (an anchor use or a prune cancelled in its commit).

`HistoryPromise` has two variables, what was said of each entry and which entries can be read back. An entry is kept or not before its receipt, the receipt tells which, and what is kept is so for good, while what failed or was lost with its process never turns up. It owes every accepted entry a receipt. `HistoryWriter` implements it, for writes that are whole or nothing, under `said = fate` and `kept` = the entries in the index whose frame can be read: everything between the append of a frame and the commit of its row is a stutter, and so is whatever the archiver, the calls and a close do.

The safety of all three is proved (`ImplementsPromise` in each of the proof modules) and checked as `PromiseKept`, which for deliveries and the history includes the liveness.

## Runs

| Run | Shows | Size |
|---|---|---|
| `block_delivery` | the reply stays whole, in order, of one attempt, opened and ended once, attempts are paid for, the delivery ends, and it implements the promise | about 1,100,000 states, one minute |
| `rate_limiter` | no hold is lost, recovery is earned, every wait ends | about 27,000 states, seconds |
| `retry_after_honoured` | refutes that a Retry-After is waited out | seconds |
| `shutdown` | no rung is lost, nobody is served without the application, requests are cancelled exactly when a signal asked for it, nothing is leaked in silence, the descent ends if the requests do | about 116,000 states, half a minute |
| `startup_releases` | refutes that a failed start-up releases what it acquired | seconds |
| `last_rung_ends` | refutes that the last rung stops waiting for requests | seconds |
| `learning_store` | its callers see one register of revisions (outcomes are true, fresh snapshots are behind the file by no more than the start missed, and never go back), nothing touches a closed connection, nobody is stuck at the locks, the cache never goes back | about 2,400,000 states up to symmetry, one to two minutes |
| `learning_calls_end` | every call ends, over the three locks, cancellations, failures and two callers of close | about 89,000 states, half a minute |
| `history_writer` | what was called durable stays readable over failures, kills and a restart; receipts come and are true; close ends; archiving settles | about 507,000 states, two minutes |
| `history_faults` | a write cut short in a process that lives on costs at most what is appended after it to the same segment, and no entry is archived that cannot be read, over three processes | about 450,000 states up to symmetry, seconds |
| `pidfile` | SIGUSR2 reaches only servers of the port and never goes round in a ring, the record never certifies anyone else, and a restart tells the predecessor it found | about 442,000 states, 40 seconds |
| `response_ownership` | every open response is in the hands of somebody who closes it, at most one is open, a struck deadline is told, an interrupted request ends | about 4,100 states, seconds |

Bounds. `block_delivery`: every policy, client dialect and upstream dialect together; two retry reasons with limits below and at the ceiling `MaxTotal = 2`, so that a reason runs out before the total and the total before a reason; three blocks per attempt, so that a block can be delivered, held and refused in one attempt; two per batch, so that a batch can be refused or faulted half way; a cap of two bytes with sizes one and two, so that the cap is met exactly, overrun from empty and overrun from non-empty. More attempts only repeat the loop `torn`, `reopening`, `pulling`, whose state is reset on entry. `rate_limiter`: two callers, intervals of one to three units chosen pairwise different where a comparison depends on it, a backoff that reaches its cap at the third failure, failures in a row up to `MaxStreak = 3`, a pace above and below the request interval. Two callers suffice for the races found; the proofs cover any number. `shutdown`: three connections, so that one can be served, one held at the barrier and one still in its handshake when a signal comes; each client connects once, since a closed connection leaves nothing behind. The ladder has four rungs and no other number in it grows. `learning_store`: a sample and an anchor use, since only the first reports what was stored; two snapshots, so that one refreshes while the other waits (they are symmetric: the run checks no liveness); one transaction of the other process and one cancelled call at any point. `learning_calls_end`: a write, a snapshot, and two callers of close, each of which may be the one cancelled. `CHECK_DEADLOCK FALSE`, since calls are made once and the model then rests. `history_writer`: two entries, so that one can be behind, before or lost under the other in a segment; two calls, so that two operations race on one row; queues of one place, so that every put meets a full queue; two processes, so that the second works over what the first left. More processes repeat `Start` over an archive that only grows. `history_faults`: three entries, so that one lies before the torn frame, one is torn and one behind; it has no liveness, so the entries are symmetric. `pidfile`: three processes on three numbers, so that a process can die and its number go to a stranger or to the third process while the second still hands over, and so that a third claims the record between another's read and unlink. `response_ownership`: five attempts, so that there can be a retry in the driver, a replay, and a retry in that; a further one repeats these with a higher number. `CHECK_DEADLOCK FALSE`, since a request that is gone takes no step.

Fairness. `block_delivery` assumes that a driver run ends (`WF(Drive)`: each attempt has its deadline, and attempts are finite because they are funded), that the proxy's own code keeps running (`WF` on `Settle` and on leaving `admitting`), and that the client deadline fires if reading goes on for ever (`SF(Tear("deadline"))`: reading alternates with admitting, so the tear is enabled again and again, not continuously). No fairness on upstream, on the client's leaving or on the drain. `rate_limiter` assumes that time passes and that a sleep that is over resumes. `shutdown` assumes that `serve()` and the loop run on, that a refusal is written and that a cancellation is delivered; nothing of signals, of clients, or that a request ends. `DescentEnds` takes the last as its hypothesis, because the code waits for requests without a limit. `learning_calls_end` assumes that threads return and tasks run on, that the other process ends its transaction (`WF(ForeignEnd)`), and that a write that finds the database busy again and again runs into its deadline (`SF(GiveUp)`: sleeping and trying alternate). `history_writer` assumes that both tasks, the calls and a close under way run on; nobody has to submit, call, close or restart. `pidfile` assumes that a process that has announced itself gets on with its hand-over (`WF(HandsOver(p))`: the code from there to the signal has no `await`), or is killed. `response_ownership` assumes that a cancellation asked for is delivered, that closes end and that dispatch and clean-up run on; nothing of upstream, subscribers, the client or the deadline.

## Proofs

`BlockDeliveryProofs` proves for every cap, budget, policy, set of reasons and bound on blocks that `IInv` is inductive:

- `Phases`: which steps go with which buffer, session and wire states (for instance, nothing is delivered while an attempt is being opened);
- `Consecutive`: delivered and held blocks are consecutive blocks of the running attempt and end where the assembler stands, and what the client got is what was delivered, up to a framing fault;
- `Opening`, `Closing`: how preambles, terminals and errors are counted against `opened` and `ending`.

None of the properties is inductive alone: `InOrder` needs the held blocks to continue the delivered ones, `NothingLost` needs the flush to have emptied the buffer before any ending that claims completeness, `OpensOnce` needs `opened` and the session's own flag to agree except where a dialect has no preamble. `Funding` (the ledger) and `DeadlineStanding` (a deadline tear is always answered as one) are separate inductions. From them follow `TypeOK`, `AttemptsFunded`, `InOrder`, `NothingLost`, `OpensOnce`, `OneEnding`, `CallFollowsReply`, `DeadlineSaid`, the action property `NoRetryWhileDraining`, and the refinement of `DeliveryPromise`.

`RateLimiterProofs` proves for any number of callers and any intervals that `TypeOK`, `Holding`, `Counting` and `Bounded` are inductive together. `HoldsKept` follows from `Holding` (the schedule is never ahead of what is still asked for, and a sleep covers what was asked when it began), `RecoveryEarned` from `Counting`. `WaitsBounded`, that however many callers share the limiter nobody sleeps longer than one single hold, follows from `Bounded`.

`ShutdownProofs` proves for any number of connections and either listener that `TypeOK`, `Admission`, `Accounted`, `Undisturbed`, `InTurn` and `Heeded` are inductive together, from lemmas on the barrier's operators (`Admitted`, `Woken`, `Hung`, `RefuseAll`, `StopAccepting`). `ServedWhileUp` needs `Admission`: an open gate implies that the lifespan is up, the gate is refused from the drain on, and the lifespan goes down only after the requests have drained. `ReleasedOrReported` needs `Accounted`, which says from which step on a resource may be gone or given up; `CancelsAsAsked` needs `Undisturbed` for one half (without a SIGINT or SIGTERM nobody is cancelled), and for the other `Heeded`, which says from which step on every request still running has been sent its cancellation, with `InTurn` (a wait is for the rung it was begun on, so a rung skipped by fast signals is made up for by the next); `NothingAdmittedLate` follows from `Admission` step by step.

`LearningStoreProofs` proves for any number of calls and any interleaving with the other process that types, `Locked` (who is in a lock's queue stands where that lock is waited for or held), `Staged` (which phases go with which connections) and `Settled` (what has been told against what is durable) are inductive together. `OutcomeKnown`, that no caller is told that something is stored when it is not, or the reverse, needs `Settled`: the verdict is formed from the confirmed commit, never from the cancellation. `NothingOnClosed` needs `Locked`: close has all three locks before it closes, so whoever is in a transaction is not there. The refinement of `LearningPromise` adds that verdicts are never taken back. That a snapshot answered as fresh is behind the file by no more than the start has missed needs `Versioned`: as long as the version remembered is the file's, the cache is behind by at most `missed`. A refresh keeps it without any allowance, because it reads the version first; the start, which reads it last, is where `missed` comes from, and every later commit changes the version and so ends it. That answers never go back in time needs `Backed`: until it is closed, the store's cache is not behind any answer it has given, and never ahead of the file; and that needs `Carried`: what a transaction has read last is not ahead of the file it has committed. Nothing is assumed of when the other process commits. `NobodyStuck` says that as long as any call has something to do, somebody waits for no lock. It rests on the queues being exactly those who need the lock (`LifecycleUse`, `ReaderUse`, `WriterUse`), so that no queue is headed by somebody who is gone; then whoever heads the last lock, in the order lifecycle, reader, writer, that anybody is queued at can move (`SomebodyMoves`).

`HistoryWriterProofs` proves for any entries, calls, queue size and number of processes that `TypeOK` holds, short writes included, and, without them, that `DurableKept` does. The archive only grows (`ArchiveGrows`, from `ExtendedKeeps`), no statement takes a row out of the index or gives it a new reference (`IndexStep`), so all rests on a reference being right when it is made. That needs `Sized`: the size a process remembers of the segment in use is the file's own, which is what a short write breaks. The refinement of `HistoryPromise` needs in addition `Accounted`: an entry is queued once (by `QueueLemmas`) and not also in the writer's hand, and wherever it is of the two, its receipt is owed and, until it is inserted, it has no row; then with `DurableKept` only an insert adds to what is kept. `ArchivedReadable` needs that between the check of a frame and the mark the entry keeps its row and its frame; it is proved with short writes, failures and restarts. `DamageConfined` is proved with short writes too, from `SizedOrTorn` and `WrittenOrTorn`: where the remembered size is not the file's, a torn frame lies at it or before it, and torn frames, like all others, stay.

`PidfileProofs` proves for any processes and any numbers, however often these are handed out again, that `TypeOK`, `Born`, `Remembered`, `Staged`, `Pinned`, `RecordsServers`, `Unknown`, `ToldServers` and `Ringless` are inductive together. `RecordsServers` needs `Remembered`: what a process has looked up is a record as it stood in the file, and so names a process that has announced itself by the number it was given, and what is put back is nothing else. `SignalsHandOver` needs `Pinned`: a process about to send has pinned exactly the process it looked up, and that is not itself. That no processes drain one another rests on `Ringless`, over whom each has told or remembers: a process looks its predecessor up before it announces itself (`Unknown`), so the last of a ring to have looked up was known to none of the others when they did.

`ResponseOwnershipProofs` proves for any number of attempts that `TypeOK`, `DriverHolds`, `DeliveryHolds`, `Dispatched` and `Standing` are inductive together, from lemmas on the ways out of the driver (`Leaving`, `Resolving`, `Unwinding`). `Owned` says what must hold of open responses and not who has them where, which the next step turns on: `DriverHolds` and `DeliveryHolds` name the one response that is open at each place. `DeadlineTold` needs `Standing`: after the deadline only closing and leaving are ahead, and a close under way ends as a cancellation, either because it was entered with one or because it has kept one. `NothingOpenedLate`, that no response is obtained after that, follows from it step by step.

Liveness itself is out of the prover's reach, but what it rests on beside fairness is not. Four theorems give the safety core of a liveness property: a rank in the natural numbers that the steps in question decrease and no other step increases.

| Theorem | Core of | What it says |
|---|---|---|
| `DeliveryNearsItsEnd` | the liveness of `DeliveryPromise` | whatever the tears, retries, replays, recoveries and drains, every step but the reading of upstream brings the delivery nearer to its end, and no step takes it further away |
| `DescentNearsItsEnd` | `DescentEnds` | every step of `serve()` and every signal brings the process nearer to its end, nothing that connections do takes it further away; so signals cannot keep the descent going |
| `HeardRequestsEnd` | `InterruptedEnds` | a request that has heard an interruption goes on hearing it, and every step of driver, dispatch, delivery and clean-up brings it nearer to its end: no retry or replay follows |
| `SleepersAreLeftAlone` | `EveryWaitEnds` | no step of another caller makes a sleeper wait longer, and each unit of time shortens the wait |

For the learning store `NobodyStuck` has that part: at no state do all wait for one another. What remains of each liveness property is that the steps named under Fairness are enabled and taken, which TLC checks.

The assumptions are the named ones of the modules (`LedgerAssumption`, `DeliveryAssumption`, `LimiterAssumption`, `ShutdownAssumption`, `StoreAssumption`, `HistoryAssumption`, `PidfileAssumption`, `OwnershipAssumption`): types of the constants, and that the names of retry reasons differ from those of the other tears. TLC evaluates them on every run.

Left to TLC: the liveness half of `PromiseKept` in `BlockDelivery` and `HistoryWriter`, `EveryWaitEnds`, `EscalationReaches`, `DescentEnds`, `EveryCallEnds`, `CloseEnds`, `ArchivingSettles`, `PredecessorTold` and `InterruptedEnds`, since the prover has no support for fairness and `ENABLED`; and the refutations. Every invariant and every action property that a run checks is proved. Proved and not run, because a run checks something stronger or TLC adds nothing to the proof: `OutcomeKnown` (a part of `PromiseKept`), `WaitsBounded`, `NoRetryWhileDraining`, `NothingAdmittedLate`, `NothingOpenedLate` and the ranks.

## Findings

Three things the repository's own comments, docs or tests say are refuted by the violation runs: `Retry-After` does not reach the limiter; a failed start-up never shuts the application down, because waiting with a timeout of zero always expires; the last rung still waits for requests, in its clean-up. Each is quoted with its line under `findings` in `PROJECT.json`.

Noticed while reading and not covered by a run:

- Delivery: a batch refused for its size on the event that brings the terminal ends as a finished reply (`stream.py:527`), though `blocks.py:35` says that such a reply is abandoned; a boundary EOF whose reason the client's dialect cannot spell is reported without the hand-over being offered (`stream.py:664`); a turn that ran out of room is replayed when the connection goes between its stop reason and its end (`stream.py:562`); a fault in `close()` or in the final flush leaves the client without an error frame, though the comment at `stream.py:578` says that every remaining ending gets one; a connection-bound recovery opens an attempt even while draining, and once per replay; no ping and no client deadline is active while `reopen` is awaited.
- Limiter: callers that compute the same slot go out together in limited mode (`rate_limiting.py:159`); a failure that is not a 429 or 502 does not restart the count of successes (`rate_limiting.py:212`).
- Shutdown: a request that ignores its cancellation is counted as cancelled on the second rung and again on the third, though `lifecycle/adapter.py:211` promises no double counting; a router that fails to arm keeps its accept sockets, so the masters are left open and noted.
- Token learning: the start reads the state (`learning_store.py:641`) before the version of the file it will compare with (line 642), where a refresh reads them the other way round (line 712), so a commit of another process between the two, such as the outgoing process of a restart, counts as seen though predictions see it only after the next commit of either: `LearningPromise` allows exactly this (`missed`), and without the allowance `PromiseKept` fails in eleven steps; while one write sleeps on a busy database and a second waits for the writer lock, the second keeps the lifecycle lock, and every prediction waits with it (`learning_store.py:1066`); an anchor use or a prune cancelled in its commit reports the same whether or not it was stored, though `learning_store.py:297` speaks of a determinate outcome; the lifespan does not flush the tokenization state if closing the learning service raises.
- History: after a write that was cut short (`archive.py:90`) the remembered size of the segment is not brought up to date, so later entries get a durable receipt and cannot be read, until a restart refuses the segment; an archive failure that cannot be noted ends the archive task (`writer.py:419`), and close then hangs on its queue or raises before it closes the connection, so that what comes after it in the lifespan's end is skipped; an `archive_entry` past its check queues its entry behind the end marker (`writer.py:343`).
- Pidfile: two restarts that race each tell only the predecessor they looked up, so both may serve on; a SIGUSR2 that arrives between the announcement and the installation of the handlers (`standalone.py:152`), or after their removal, ends that process instead of draining it.
- Response ownership: an exception between the hand-over of the driver and the return of the streaming response, such as a delivery plan that refuses its dialects (`delivery_policy.py:110`), or one of a replay in `_reopen`, leaves the response open with no owner; the model takes this stretch, which has no `await`, as one that does not fail.

## Plan

Done: 1 `BlockDelivery`, 2 `RateLimiter`, 3 `Shutdown`, 4 `HistoryWriter`, 5 `LearningStore`, 6 `Pidfile`, 7 `ResponseOwnership`, with their proofs, and the abstract specifications of `BlockDelivery`, `LearningStore` and `HistoryWriter` with the proofs that these implement them.

Left, in the order of its worth:

8. The learning service's queue and the flush of the tokenization state, which keep what `LearningStore` stores and what the predictions use in step.
9. `DeliveryClock` and the direct passthrough: pings, the client deadline and the reader task, over `BlockDelivery`'s promise.
10. `LoginState`, `StreamCap` and request accounting: three small shared states with no crash behaviour.

## Not modelled

Translation between dialects, routing and model resolution, subscribers, token estimation and the provider clients are sequential conversions of payloads, configuration and headers: nothing in them waits, fails half way or is shared, and they make up most of the code, so the models cover a small share of its lines. Configuration, command line, logging and the replay tool are start-up and presentation. The delivery clock, the passthrough, the tokenization state, the learning service, login state, the stream cap and request accounting do have protocols of their own and are the rest of the plan. Of the modelled components, `PROJECT.json` names what is left out of each.
