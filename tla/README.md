# TLA+ models of firefly-fabconnect

This directory holds TLA+ models of firefly-fabconnect, TLC configurations
that check them, and this account of what is modelled and what the checks
show. There are three models:

- the event streaming subsystem (`EventStream`), and the abstract
  specification it implements (`CheckpointLog`);
- the subscription manager's registries, KV keys and concurrent REST
  handlers (`SubscriptionManager`);
- the fabric transaction helper and the error reply of the messages package
  (`FabricTx`).

Source references are to the files under `src/`:

- `src/unnamed/part_001` is the subscription manager
  (`internal/events/submanager.go`).
- `src/unnamed/part_002` is the event stream
  (`internal/events/eventstream.go`).
- `src/internal/messages/messages.go` holds the messages package (lines
  17-142) followed by the fabric `Tx` helper (lines 158-261).

## 1. Inventory

### Components

| Component | Source | State it keeps | Operations |
|---|---|---|---|
| Event stream pipeline | part_002 | `spec` (batchSize, errorHandling, suspended, ...), `inFlight`, `batchQueue`, `batchCount`, `updateInProgress`, `stopped`, `pollerDone`, `processorDone`, `updateInterrupt` channel, `updateWG`, unbuffered `eventStream` channel | `newEventStream`, `startEventHandlers`, `update`, `suspend`, `resume`, `stop`, `handleEvent`, `isBlocked`, goroutines `eventPoller`, `batchDispatcher`, `batchProcessor`, plus `processBatch` and `performActionWithRetry` |
| Subscription manager | part_001 | maps `streams` and `subscriptions`, KV store `db`, `closed` | REST handlers `AddStream`, `UpdateStream`, `SuspendStream`, `ResumeStream`, `DeleteStream`, `AddSubscription`, `ResetSubscription`, `DeleteSubscription`, getters; `Init` with `recoverStreams`/`recoverSubscriptions`; `loadCheckpoint`, `storeCheckpoint`, `deleteCheckpoint`; `Close` |
| Subscription | not in src (subscription.go); spec §4.2 | `filterStale`, `resetRequested`, `deleting`, `blockHWM`, the listener registration | `restartFilter`, `setInitialBlockHeight`, `setCheckpointBlockHeight`, `unsubscribe`, `markFilterStale`, `requestReset`, the event callback and `batchComplete` |
| Sink actions | not in src; spec §4.4 | none relevant | `attemptBatch` (webhook POST, websocket send and ack) |
| KV store | not in src; spec §6 | keys `es-*`, `sb-*`, `cp-es-*` | Get/Put/Delete/iterate |
| Ledger adapter | not in src; spec §9 | registrations | register from a block, deliver events, unregister |
| Fabric transaction helper | messages.go lines 158-261 | a `Tx` record | `NewSendTx`, `Send`, `GetTXReceipt` (one RPC each) |
| Messages | messages.go lines 17-142 | none | message types, `NewErrorReply` |
| REST router | processor.go lines 174-367 | none | route table, parameter parsing, `sendTransaction` |
| Identity types, mocks | processor.go lines 1-172 | none | generated mock, type declarations |

### How the components interact

- The REST layer calls the subscription manager's handlers. No lock
  protects the manager's maps. Go's `net/http` runs handlers concurrently.
- Each stream runs three goroutines. They share one mutex and condition
  variable (`batchCond`), the closed-on-update channel `updateInterrupt`, and
  the wait group `updateWG`.
  - `eventPoller` registers stale subscriptions with the ledger and writes
    the checkpoint through the manager.
  - `batchDispatcher` reads events from the unbuffered channel
    (`handleEvent`) and forms batches.
  - `batchProcessor` calls the sink and, through `batchComplete` callbacks,
    advances the subscriptions' `blockHWM`.
- The KV store is the only state that survives a crash. On startup `Init`
  rebuilds every stream and subscription from it.

### What is hard

- Interleavings between the REST client and the three goroutines.
  `suspendOrStop()` is read without the lock in `processBatch` and
  `performActionWithRetry`.
- Cancellation: `update` closes `updateInterrupt` and waits on `updateWG`.
  Every phase must notice the interrupt and call `Done`.
- Resume does not restart the dispatcher. It replaces `updateInterrupt` and
  `updateWG` under the running dispatcher.
- Backpressure: the poller stops (re)registering subscriptions while
  `inFlight >= batchSize`. Any leak in `inFlight` therefore stalls the stream.
- At-least-once delivery across crashes depends on the order in which
  batches are acknowledged, `blockHWM` advances, and the checkpoint is
  stored.
- A failing sink interacts with retry, backoff, `errorHandling` (skip or
  block), and interrupts.

### What makes each component correct

- Event stream:
  - `inFlight` equals the events accepted and not yet released.
  - The stored checkpoint never passes an event that was neither delivered
    nor skipped by policy.
  - The stream catches up with the ledger.
  - Update returns, and leaves the pipeline running.
  - After suspend, no delivery happens until resume.
- Subscription manager:
  - The KV store and the in-memory registries agree after every operation
    and after recovery.
  - Deleting a stream removes its subscriptions and its checkpoint.
  - A reset rewinds a subscription to exactly the requested block.
- Subscription:
  - `blockHWM` does not regress without a reset.
  - A stale subscription gets no events.

## 2. Plan

Modules, in the order they are (to be) written:

1. `FabricTx` (done): the `Tx` lifecycle (NewSendTx, Send, GetTXReceipt)
   against a ledger that commits asynchronously, and `NewErrorReply`.
2. `EventStream` (done): one stream, its subscriptions, the three
   goroutines, suspend/resume/update and crash-restart. The sink and the
   ledger are nondeterministic. This is the core of the system.
3. `SubscriptionManager` (done): registries and KV keys for several
   streams and subscriptions, and the handlers AddStream, UpdateStream,
   SuspendStream, ResumeStream, DeleteStream (cascade plus `stop()`), AddSubscription,
   ResetSubscription and DeleteSubscription on two concurrent goroutines,
   with Close() and Init recovery after a crash or a Close.
4. Extend `EventStream` with `stop()` (DeleteStream, Close), with reset and
   `deleting` in the poller, and with `handleEvent` on a closed channel.
5. `CheckpointLog` (done): the abstract at-least-once promise per
   subscription (durable resume point, handled blocks). `EventStream` is
   checked against it through `INSTANCE ... WITH` a refinement mapping.
6. Timestamps cache, webhook address check (`isAddressUnsafe`) and backoff
   arithmetic as pure operators, checked against reference definitions.

## 3. The `EventStream` module

The variables correspond to the code as follows:

| Variable | Code |
|---|---|
| `batchSize`, `errorHandling`, `suspended` | `a.spec.BatchSize`, `.ErrorHandling`, `.Suspended` |
| `dispRunning[d]`, `dispInWG[d]`, `curBatch[d]` | a `batchDispatcher` goroutine, whether its `Done` belongs to the current `updateWG`, and its local `currentBatch`. More than one may run after a suspend and resume followed by an update (line 206); no run combines the two |
| `batchQueue`, `inFlight`, `updateInProgress` | the fields guarded by `batchCond.L` |
| `interruptClosed` | `updateInterrupt` has been closed |
| `pollRunning`, `pollCp`, `pollerDone` | the `eventPoller` goroutine, its local `checkpoint` map (nil before loading), `a.pollerDone` |
| `pc`, `batch`, `processed`, `pbRetry`, `pawrRetry`, `lastErr`, `procInWG`, `processorDone` | the `batchProcessor` goroutine. `pc` marks where it is; `"intrWait"` means it is blocked on `<-updateInterrupt` while holding the lock. The rest are the locals of `processBatch` (`processed`, `attempt > 0`) and of `performActionWithRetry` (`attempt > 0`, `err`), plus whether it still owes `updateWG.Done()` |
| `stale`, `listener`, `hwm` | per subscription: `filterStale`, the next block its ledger listener delivers, `blockHWM` |
| `dbCp`, `dbSpec` | KV entries `cp-<stream>` (0 = absent) and the stored `StreamInfo` |
| `admin`, `updates`, `suspends`, `crashes` | the REST client (one call at a time) and the bounds |
| `delivered`, `skipped` | history: blocks the sink accepted, blocks given up by `errorHandling=skip` |

Each action is one atomic step of one goroutine between two points where
another goroutine can interleave:

- `DispatchEvent`, `DispatchTimeout` and `DispatchInterrupted` are the three
  arms of the dispatcher's `select`. `handleEvent` writes to an unbuffered
  channel, so a listener's send and the dispatcher's receive are one step.
- `eventPoller` is one iteration of the loop body followed by the timer.
  `PollerExit` is the exit through the loop condition or through the
  interrupt.
- Processor:
  - `ProcessorPop`, `ProcessorSuspendExit`, `ProcessorUpdateWait` and
    `ProcessorUpdateExit` are the wait loop of `batchProcessor`.
  - `ProcessBatchLoop` and `ProcessBatchDelay` are the head and the retry
    wait of the loop in `processBatch`.
  - `PerformActionLoop`, `PerformActionDelay`, `AttemptSucceeds` and
    `AttemptFails` are the same parts of `performActionWithRetry`.
  - `ProcessBatchDone` is the tail of `processBatch`: it releases `inFlight`
    and calls `batchComplete`.
- Admin:
  - `SuspendStream` and `ResumeStream` are the handlers including
    `storeStream`.
  - `UpdateBegin` is `preUpdateStream` plus `close(updateInterrupt)`. A
    second close panics, and `net/http` recovers from the panic.
  - `UpdateFails` and `UpdateEnd` run after `updateWG.Wait()` returns.
    `UpdateFails` is a validation error. `UpdateEnd` is
    `postUpdateStream`, `startEventHandlers(false)` and `storeStream`.
- `CrashRestart` is a process crash followed by `Init`. Only `dbCp` and
  `dbSpec` survive.

Abstractions:

- Every ledger block carries one event per subscription, and `fromBlock` is
  numeric.
- Time is not modelled. Timeouts (batch timeout, retry timeout, polling
  interval, backoff) are nondeterministic choices.
- The sink accepts or rejects each attempt.
- A poller iteration is atomic.
- Subscription behaviour that is not in `src/` (marking stale unregisters
  the listener; restarting from a checkpoint entry sets `blockHWM`) follows
  spec §4.2.

### Runs

Unless stated otherwise, runs use one subscription and blocks 0..2.

| Run | What it checks | Result |
|---|---|---|
| `suspend_resume` | block and skip, one suspend and resume, one crash, ledger and store failures: `TypeOK`, `InFlightCoversPending` | pass |
| `update_pipeline` | block and skip, two updates (one may be refused; a second one may close the closed interrupt): `InFlightCoversPending` | pass. Deadlock is not checked, because a refused update followed by a resume really does stop the stream (see `resume_after_invalid_deadlocks`) |
| `live_no_admin` | two subscriptions, blocks 0..1, both modes, one crash, no admin calls; weak fairness on each goroutine, strong fairness on the sink accepting: `StreamCatchesUp`, `InFlightExact`, `NoEventSkippedUnacked`, `RefinesCheckpointLog` | pass |
| `suspend_drops_batch` | `NoEventSkippedUnacked` with one suspend | violation |
| `update_drops_blocked_batch` | `NoEventSkippedUnacked` in block mode with updates | violation |
| `update_leaks_inflight` | `StreamCatchesUp` with one update | violation |
| `update_of_suspended_hangs` | `UpdateReturns` | violation |
| `resume_after_invalid_deadlocks` | `ProcessorReleasesLock`, one block, one possibly refused update | violation |

Findings:

- **Suspend drops a popped batch.** `processBatch` returns without
  acknowledging or re-queuing a batch when it sees `suspendOrStop()`. The
  batch was already removed from `batchQueue`. If it was not processed,
  its events stay counted in `inFlight`. After resume:
  - `isBlocked()` stays true;
  - the poller never re-registers the subscription, so the events are never
    redelivered;
  - later batches advance `blockHWM`, and the checkpoint is stored past the
    dropped events.
  This happens in skip mode with a sink that always accepts, because
  `performActionWithRetry` returns `nil` when it is suspended before its
  first attempt.
- **An update loses a blocked batch.** In block mode the blocked-retry wait
  of `processBatch` returns on `updateInterrupt` and drops the batch. The
  processor then goes on popping queued batches while the update is in
  progress. The checkpoint passes the dropped events.
- **An update leaks `inFlight`.** `batchDispatcher` returns on the interrupt
  and discards a partly filled batch whose events are counted in `inFlight`.
  Once the leak reaches `batchSize`, the poller never re-registers the
  subscriptions that the update marked stale. The stream stops for good.
- **Updating a suspended stream hangs.** A processor that exits because of a
  suspend never calls `updateWG.Done()`, so `update` waits forever.
- **A failed checkpoint write is not retried** (a hazard with no run of its
  own). The poller puts the new `blockHWM` into its in-memory checkpoint
  before storing it. After a failed store, later ticks see no change and do
  not write again; spec §7 says the write is retried on the next tick.
  `StreamCatchesUp` fails under `StoreMayFail`, but the only effect is
  redelivery after a crash, and the run is left out in favour of the
  manager's.
- **A refused update halts the stream, and a resume then deadlocks it.**
  `update` validates the new spec only after it has stopped all three
  goroutines. It returns without restarting them and leaves
  `updateInProgress` true. Spec §8.6 says the update is rejected with 400
  and mutates nothing. A later resume starts a processor that sees
  `updateInProgress` and blocks on the new, never-closed `updateInterrupt`
  while holding `batchCond.L`. After that, the dispatcher, `isBlocked()` in
  the poller, and any suspend or update block on the lock. Spec §9 says a
  wait under the mutex must release it.
- **`inFlight` is counted correctly.** Spec §9 says that `batchDispatcher`
  double-counts on a size flush and under-counts on a timeout.
  `InFlightExact` holds in `live_no_admin`, so each accepted event is
  counted exactly once. The leaks above come from the interrupt paths.

### Refinement: `CheckpointLog`

`CheckpointLog` says what a stream promises each subscription, with no
goroutines in it. `acked[s]` is the block a restarted process resumes
from. `done[s]` is the set of blocks the sink accepted or skipped. There
are two actions:

- `Handle`: blocks are added to `done`, in any order and any number of
  times.
- `Commit`: `acked` moves forward, and only over blocks in `done`.

The mapping in `EventStream` (`CP`) sends `acked[s]` to the stored
checkpoint. A stored 0 counts as none, so it maps to `fromBlock`, as the
poller treats it (part_002 388-390). `done[s]` maps to
`delivered[s] \cup skipped[s]`. `RefinesCheckpointLog` (that is,
`CP!Spec`) is checked in `live_no_admin`. It says more than
`NoEventSkippedUnacked`: the stored checkpoint also never moves backwards,
across the crash as well. The poller has to restore `blockHWM` from the
checkpoint (`setCheckpointBlockHeight`, line 392) for that to hold. Without
it, the first tick after a restart writes 0 over the stored checkpoint.

The refinement is not checked with admin operations. Under suspend, the
lost batch of `suspend_drops_batch` breaks it first. There is also a
second effect. After a resume, batches queued before the suspend complete
before the blocks redelivered from the stored checkpoint. `blockHWM` then
moves back, against spec §8.2. That only causes redelivery, which the
at-least-once contract allows.

### Bounds

Blocks 0..2 and batch sizes {1, 2} are enough for each of the following:

- a size flush and a timeout flush;
- a partial batch at the time of an update;
- a second batch queued behind a failing one;
- a checkpoint that is one batch behind `blockHWM`.

One crash is enough to exercise recovery from the stored checkpoint. Each
defect above needs at most one suspend or one update to show. Two
dispatcher slots cover the dispatcher left running across a resume and the
next update.

### Fairness

Each goroutine (each dispatcher, the poller, the processor) gets weak
fairness: the Go scheduler runs every runnable goroutine. Strong fairness on
`AttemptSucceeds` assumes a sink that accepts eventually when it is offered a
batch again and again; without it no liveness can hold in block mode.
`UpdateEnd` gets weak fairness: an update whose wait group is done proceeds.
The REST client gets no fairness, because the user need not call anything.

## 4. The `FabricTx` module

`FabricTx` models the `Tx` helper of `messages.go` and the messages it
uses.

- **Messages.** `SendTransaction`, `RequestHeaders`, `ReplyHeaders`,
  `ErrorReply`, `Tx` and `TxReceipt` are record sets reduced to the fields
  the code reads or writes. Channel, chaincode, function, arguments and
  signer are model values.
- **Transaction ids.** A transaction id is a model value from `TxIds`. The
  empty string `NoId` is Go's zero value of `Tx.Hash`.
- **Callers.** The callers of this API are not in the repository's sources.
  The client in the model is therefore any sequence of calls the exported
  API allows:
  - `BuildTx` (NewSendTx, buildTX);
  - `SendCall`/`SendReturn` (Send);
  - `GetTXReceipt`;
  - `ClientCopiesHash`: writing the exported `Hash` field. It is enabled
    only by the constant `ClientSetsHash`.
  - `ClientRepliesError`: `NewErrorReply` on a failed Send.

  A client calls Send again only after an error, which is the retry spec §9
  allows.
- **Send.** Send is two steps, because `rpc.Invoke` blocks. `SendCall` is
  the rpc client submitting the invocation, or failing before it does.
  `SendReturn` is Invoke returning. Send's 30 s context lets it return an
  error at any time, whether or not the invocation has committed.
  `tx.Receipt` takes whatever Invoke returned: the committed receipt, or
  the zero receipt with an error.
- **Ledger.** `LedgerCommit` is the ordering service committing a submitted
  invocation in the next block. Block 0 is the genesis block. It has no
  fairness, because the ordering service may be down.
- **GetTXReceipt.** This is a single step. It queries `qscc
  GetTransactionByID(tx.Hash)`. An unknown id or a failed call is an error
  and leaves the receipt alone. Otherwise the receipt is stored and
  `isMined` is `BlockNumber > 0`.
- **NewErrorReply.** This is an operator. A `[]byte` original message is the
  raw request body, which is the marshalled request, and it is converted.
  Any other message is marshalled. `Marshal` is an injective tagged
  encoding.

Runs of `MC_FabricTx`, with two requests, three transaction ids and one
channel, chaincode, function, argument list and signer:

| Run | What it checks | Result |
|---|---|---|
| `tx_client` | RPC failures, timeouts, one retry, lookups, the client copying the hash: `TypeOK`, `ErrorReplyCarriesRequest` | pass |
| `tx_lookup_without_hash` | `SentTxIsFound` with a client that uses only the API | violation |

No property about the receipt Send stores, or about every Send returning,
is kept. Both would hold because of how the model builds Invoke's results
and its 30 s deadline, not because of anything `messages.go` does beyond
the assignment at line 252.

Findings:

- **GetTXReceipt cannot find a transaction sent through the API.** It
  queries `GetTransactionByID` with `tx.Hash`. Neither `buildTX` nor `Send`
  ever sets `Hash`. Send stores the receipt, whose `TransactionID` holds the
  id, but does not copy it into `Hash`. A transaction that Send reported
  committed is looked up under the empty id.
- **A timed-out Send can commit, and a retry commits it twice** (a hazard
  with no run of its own: no Tx API promises at-most-once). The
  deadline ends Invoke while the invocation may still commit. The client
  cannot check first, because nothing keeps the id:
  - Send has overwritten `tx.Receipt` with the zero receipt;
  - `Hash` is empty;
  - `NewErrorReply` never fills the reply's `transactionHash`.

  Spec §9 calls invoke errors retryable at the caller's discretion.

## 5. The `SubscriptionManager` module

`SubscriptionManager.tla` models `submanager.go` (part_001) at the level
of its registries and its KV store. `MC_SubscriptionManager.tla` has two
handler goroutines, two stream ids, two subscription ids and the
fromBlock values `"newest"` and `"10"`.

| Variable | Code |
|---|---|
| `streams`, `subs` | `s.streams`, `s.subscriptions` (the ids they hold) |
| `streamObj`, `subObj` | the `*eventStream` and `*subscription` objects a handler may hold a pointer to: suspended and stopped flags; stream, fromBlock, deleting and resetRequested |
| `db` | the leveldb keys `es-*` (with the suspended flag), `sb-*` (stream, fromBlock) and `cp-*` |
| `req` | the request each net/http goroutine is serving and where it is |
| `closed` | `s.closed`: `Close()` has run and the leveldb store is closed |

Each handler is one action up to its first call on the store, and one more
action for that call. This is where another goroutine can see a half-done
state, because the manager takes no lock:

- `AddStream`, `UpdateStream`, `SuspendStream` and `ResumeStream` end in
  `StoreStream`. `UpdateStream` may be refused by `update()` (500, nothing
  stored). On a suspended stream it blocks for good (`updateWait`): the
  processor exited without `updateWG.Done()`, as the `EventStream` run
  `update_of_suspended_hangs` shows.
- `AddSubscription` and `ResetSubscription` end in `StoreSubscription`.
- `DeleteStream` is split into the lookup, one `CascadeDelete` step per
  iteration of the range over `s.subscriptions`, and `DeleteStreamEnd`.
  The range may skip entries added during it, as Go allows. A second
  `stop()` of the same stream panics on the closed channel, and net/http
  drops that request.

`PollerCheckpoint` is the poller's `cp-` write. `Close` is shutdown: it
stops every registered stream and closes the store, and no new request
starts. Requests already running go on, and their Put or Delete fails.
`CrashRestart` is a crash, or the restart after a `Close`, followed by
`Init`, which rebuilds both registries from the store. An
unset `fromBlock` or `initialBlock` is defaulted to `"newest"`
(`DefaultFromBlock`).

| Run | What it checks | Result |
|---|---|---|
| `submgr_races` | two handlers, five requests, failing Put and Delete, one crash or Close with its restart: `TypeOK` | pass (5.1M states, about 2 minutes). Deadlock is not checked: once the requests are used up the server idles |
| `submgr_delete_resurrects` | `RestartRestoresState` (spec §8.3), two handlers, four requests, a store that never fails, no crash | violation |

Finding:

- **A restart does not restore what the manager held: a delete answered
  200 can be undone by a concurrent handler.** `RestartRestoresState`
  says that whenever no request is in progress, what `Init` would rebuild
  from the store equals the registries. The manager takes no lock. Spec §4.1 says its mutations are guarded by one.
  In the trace TLC gives:
  1. `AddStream` registers a stream.
  2. A `DeleteStream` of that id runs in full and is answered 200.
  3. The first handler's `storeStream` then writes the deleted stream back.
  4. The next start recovers the stream.

  `AddSubscription`, `ResetSubscription`, `UpdateStream`, `SuspendStream`
  and `ResumeStream` write the object they looked up in the same way. No
  store failure is needed. The property also fails without any race when a
  write fails. Every handler changes the registry or the object before its
  Put or Delete, and none rolls back. For example, `deleteSubscription`
  (line 216) drops the registry entry first: after a failed delete, a
  retry answers 404 and the subscription comes back on the next start.
  With one request and a failing store, TLC finds this in two steps (not
  kept as a run). `DeleteStream` also answers 200 when one of its
  subscription deletes failed (line 314).

`submgr_races` fires every handler step, including the refused update,
the hung update, Close and the second-stop panic. It checks only the type
invariant, whose mutant stores an unset fromBlock as given. The manager's
consistency property, `RestartRestoresState`, is the one the races
break. `deleteSubscription` (lines 216-218) is one step: the registry
delete, `unsubscribe` and the key delete. Splitting it would add only the
order in which a late write lands between line 216 and line 218. That
write is deleted again, so the split would show no state the merged step
misses.

## 6. Not modelled, and why

- A second `Close()`: it would `stop()` the stopped streams again and
  panic on the closed channel, although spec §4.1 calls `Close` idempotent.
  No caller is in the sources, so `Close` is modelled once per process
  life. The read-only getters of the manager change no state.
- A listener callback blocked in `handleEvent` when `stop()` closes the
  channel panics outside net/http and ends the process. `SubscriptionManager`
  has no listeners; the crash it causes is one of the crashes
  `CrashRestart` allows at any time. The poller's one late `cp-` write
  after `stop()` is not modelled either.
- The poller's handling of reset requests, and of `deleting`, in
  `EventStream`.
- Webhook and websocket transport, JSON encoding and identity: these are
  I/O or formatting with no concurrent state.
- The REST router (`processor.go` 174-366) holds no state, and spec §1
  puts it out of scope. Its hazards are in `PROJECT.json` without a
  property:
  - `getQueryParamNoCase` returns the first case-insensitive match while
    ranging over a Go map. A request with both `fly-sync` and `FLY-SYNC`
    is therefore dispatched sync or async at random.
  - `fly-noack` is compared without lower-casing, unlike `fly-sync`.
  - The unchecked type assertions in `sendTransaction` panic when the body
    lacks a string `channel`, `chaincode`, `function` or `signer`.
    net/http drops the connection with no 400.
- `NewErrorReply` with a nil or non-byte-slice original message panics.
  `reflect.TypeOf(nil).Kind()` is a call on a nil interface, and
  `origMsg.([]byte)` is asserted for every slice kind. The callers that
  choose `origMsg` are not in the sources, so the model passes only the two
  forms a request handler has: the raw body or the parsed message.
- `addErrorToRetval`, `AsyncSentMsg`, `DeployChaincode` and
  `TransactionReceipt`: no code in `messages.go` uses them.
- The timestamp LRU cache and `isAddressUnsafe`: pure functions, planned
  as operators.
