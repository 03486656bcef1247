------------------------------ MODULE EventStream ------------------------------
(***************************************************************************)
(* One event stream of firefly-fabconnect (internal/events/eventstream.go, *)
(* src/unnamed/part_002) with the subscriptions bound to it, the ledger    *)
(* listeners that feed it, the checkpoint it persists in the KV store, and *)
(* the single REST client that suspends, resumes and updates it.          *)
(*                                                                         *)
(* Three goroutines run per stream:                                       *)
(*   eventPoller     - (re)registers stale subscriptions and writes the    *)
(*                     checkpoint every polling interval;                  *)
(*   batchDispatcher - receives events on the unbuffered channel and forms *)
(*                     batches (flush on size or on batch timeout);        *)
(*   batchProcessor  - pops batches and runs processBatch and              *)
(*                     performActionWithRetry against the sink.            *)
(* A sync.Cond guards inFlight, batchQueue and the flags; updateInterrupt  *)
(* is a channel closed to wake every phase; updateWG joins them.           *)
(*                                                                         *)
(* Data is abstracted to what the properties tell apart: an event is a    *)
(* (subscription, block) pair, every block of the ledger carries one event *)
(* for every subscription, and the sink either accepts or rejects a batch. *)
(***************************************************************************)
EXTENDS Naturals, Sequences, SequencesExt, FiniteSets

CONSTANTS
    Subs,               \* the subscriptions bound to this stream
    MaxBlock,           \* the ledger holds the blocks 0 .. MaxBlock-1
    FromBlock,          \* FromBlock[s]: the numeric fromBlock of subscription s
    InitBatchSize,      \* batchSize of the stream when it is created
    BatchSizes,         \* the batchSize values an update may set
    ErrorHandlings,     \* the errorHandling values the stream may be given
    Dispatchers,        \* names for batchDispatcher goroutines
    MaxUpdates,         \* bound on UpdateStream calls
    MaxSuspends,        \* bound on SuspendStream calls
    MaxCrashes,         \* bound on process crashes (followed by Init recovery)
    AllowInvalidUpdate, \* whether an update body may fail validation
    LedgerMayFail,      \* whether restartFilter may fail (ledger error)
    StoreMayFail        \* whether storeCheckpoint may fail (KV error)

ASSUME /\ MaxBlock \in Nat \ {0}
       /\ FromBlock \in [Subs -> 0 .. MaxBlock - 1]
       /\ InitBatchSize \in BatchSizes
       /\ BatchSizes \subseteq 1 .. 999
       /\ ErrorHandlings \subseteq {"block", "skip"} /\ ErrorHandlings # {}
       /\ Dispatchers # {}

NoCp == [s \in {} |-> 0]  \* the nil checkpoint map of the poller before it is loaded
Blocks == 0 .. MaxBlock - 1
Event == [sub : Subs, blk : Blocks]

VARIABLES
    \* StreamInfo fields the pipeline reads
    batchSize, errorHandling, suspended,
    \* batchDispatcher goroutines: running, counted in the current updateWG,
    \* and the local currentBatch of each
    dispRunning, dispInWG, curBatch,
    \* state guarded by batchCond.L
    batchQueue, inFlight, updateInProgress,
    \* updateInterrupt has been closed
    interruptClosed,
    \* eventPoller: running, its local checkpoint map, pollerDone
    pollRunning, pollCp, pollerDone,
    \* batchProcessor: program counter, the batch in processBatch, the
    \* locals processed / attempt>0 of processBatch, attempt>0 / err of
    \* performActionWithRetry, its updateWG slot, processorDone
    pc, batch, processed, pbRetry, pawrRetry, lastErr, procInWG, processorDone,
    \* subscriptions: filterStale, next block of the registered listener, blockHWM
    stale, listener, hwm,
    \* KV store: checkpoint cp-<id> (0 = no entry) and the stored StreamInfo
    dbCp, dbSpec,
    \* REST client state and bounds
    admin, updates, suspends, crashes,
    \* history: blocks the sink accepted, blocks skipped by errorHandling=skip
    delivered, skipped

streamVars == <<batchSize, errorHandling, suspended>>
dispVars == <<dispRunning, dispInWG, curBatch>>
pollVars == <<pollRunning, pollCp, pollerDone>>
procVars == <<pc, batch, processed, pbRetry, pawrRetry, lastErr, procInWG, processorDone>>
subVars == <<stale, listener, hwm>>
adminVars == <<admin, updates, suspends, crashes>>
vars == <<streamVars, dispVars, batchQueue, inFlight, updateInProgress,
          interruptClosed, pollVars, procVars, subVars, dbCp, dbSpec,
          adminVars, delivered, skipped>>

-----------------------------------------------------------------------------
(* Helpers *)

\* suspendOrStop(): the stream is never stopped in this module
suspendOrStop == suspended

\* isBlocked(): inFlight >= batchSize
isBlocked == inFlight >= batchSize

\* batchProcessor holds batchCond.L while it blocks on <-updateInterrupt
lockFree == pc # "intrWait"

\* processor states inside processBatch
InBatch == {"pbLoop", "pbDelay", "pawrLoop", "pawrDelay", "attempt", "pbDone"}

BlocksOf(b, s) == {b[i].blk : i \in {j \in DOMAIN b : b[j].sub = s}}

\* events accepted by the dispatcher and not yet through processBatch
PendingEvents ==
    Len(FlattenSeq(batchQueue))
    + SumFunction([d \in Dispatchers |-> Len(curBatch[d])])
    + (IF pc \in InBatch THEN Len(batch) ELSE 0)

\* mutant: batchComplete sets blockHWM one block too far
BatchCompleteHWM_offByOne(b) ==
    [s \in Subs |->
        IF \E i \in DOMAIN b : b[i].sub = s
        THEN b[SelectLastInSeq(b, LAMBDA e : e.sub = s)].blk + 2
        ELSE hwm[s]]

\* processBatch: batchComplete once per subscription with its last event
BatchCompleteHWM(b) ==
    [s \in Subs |->
        IF \E i \in DOMAIN b : b[i].sub = s
        THEN b[SelectLastInSeq(b, LAMBDA e : e.sub = s)].blk + 1
        ELSE hwm[s]]

\* markAllSubscriptionsStale: markFilterStale(true) unregisters the listener
markAllSubscriptionsStale == stale' = [s \in Subs |-> TRUE]

\* startEventHandlers(resume): fresh updateInterrupt and updateWG, start
\* eventPoller and batchProcessor, and a batchDispatcher unless resuming.
\* A dispatcher left running keeps its Done() for the old wait group.
startEventHandlers(resume) ==
    /\ interruptClosed' = FALSE
    /\ pollRunning' = TRUE
    /\ pollCp' = NoCp
    /\ pc' = "wait"
    /\ batch' = <<>>
    /\ procInWG' = TRUE
    /\ UNCHANGED <<processed, pbRetry, pawrRetry, lastErr>>
    /\ \/ /\ resume
          /\ dispInWG' = [d \in Dispatchers |-> FALSE]
          /\ UNCHANGED <<dispRunning, curBatch>>
       \/ /\ ~resume
          /\ \E d \in Dispatchers :
                /\ ~dispRunning[d]
                /\ dispRunning' = [dispRunning EXCEPT ![d] = TRUE]
                /\ dispInWG' = [x \in Dispatchers |-> x = d]
                /\ curBatch' = [curBatch EXCEPT ![d] = <<>>]

\* updateWG.Wait() returns: every phase counted in the current group is done
updateWGDone ==
    /\ ~pollRunning
    /\ ~procInWG
    /\ \A d \in Dispatchers : ~(dispRunning[d] /\ dispInWG[d])

-----------------------------------------------------------------------------
(* Initial state: AddStream and AddSubscription have returned; newEventStream *)
(* has normalised the spec and called startEventHandlers(false).              *)

FirstDispatcher == CHOOSE d \in Dispatchers : TRUE

Init ==
    /\ batchSize = InitBatchSize
    /\ errorHandling \in ErrorHandlings
    /\ suspended = FALSE
    /\ dispRunning = [d \in Dispatchers |-> d = FirstDispatcher]
    /\ dispInWG = dispRunning
    /\ curBatch = [d \in Dispatchers |-> <<>>]
    /\ batchQueue = <<>>
    /\ inFlight = 0
    /\ updateInProgress = FALSE
    /\ interruptClosed = FALSE
    /\ pollRunning = TRUE /\ pollCp = NoCp /\ pollerDone = FALSE
    /\ pc = "wait" /\ batch = <<>> /\ processed = FALSE /\ pbRetry = FALSE
    /\ pawrRetry = FALSE /\ lastErr = FALSE /\ procInWG = TRUE
    /\ processorDone = FALSE
    /\ stale = [s \in Subs |-> TRUE]
    /\ listener = [s \in Subs |-> 0]
    /\ hwm = [s \in Subs |-> 0]
    /\ dbCp = [s \in Subs |-> 0]
    /\ dbSpec = [batchSize |-> batchSize, errorHandling |-> errorHandling,
                 suspended |-> FALSE]
    /\ admin = "idle" /\ updates = 0 /\ suspends = 0 /\ crashes = 0
    /\ delivered = [s \in Subs |-> {}]
    /\ skipped = [s \in Subs |-> {}]

-----------------------------------------------------------------------------
(* batchDispatcher (eventstream.go 440-505).  handleEvent sends on an       *)
(* unbuffered channel, so a listener's event is taken by a running          *)
(* dispatcher in the same step.  Every accepted event increments inFlight:  *)
(* in the flush branch when it completes the batch, else in the other one.  *)

\* mutant: the size-flush branch forgets its inFlight++
DispatchEvent_flushNoIncr(d, s) ==
    /\ dispRunning[d]
    /\ ~stale[s]
    /\ listener[s] < MaxBlock
    /\ lockFree
    /\ LET full == Append(curBatch[d], [sub |-> s, blk |-> listener[s]])
       IN \/ /\ Len(full) = batchSize
             /\ batchQueue' = Append(batchQueue, full)
             /\ curBatch' = [curBatch EXCEPT ![d] = <<>>]
             /\ UNCHANGED inFlight
          \/ /\ Len(full) # batchSize
             /\ curBatch' = [curBatch EXCEPT ![d] = full]
             /\ UNCHANGED batchQueue
             /\ inFlight' = inFlight + 1
    /\ listener' = [listener EXCEPT ![s] = @ + 1]
    /\ UNCHANGED <<streamVars, dispRunning, dispInWG, updateInProgress,
                   interruptClosed, pollVars, procVars, stale, hwm, dbCp,
                   dbSpec, adminVars, delivered, skipped>>

DispatchEvent(d, s) ==
    /\ dispRunning[d]
    /\ ~stale[s]
    /\ listener[s] < MaxBlock
    /\ lockFree
    /\ LET full == Append(curBatch[d], [sub |-> s, blk |-> listener[s]])
       IN \/ /\ Len(full) = batchSize
             /\ batchQueue' = Append(batchQueue, full)
             /\ curBatch' = [curBatch EXCEPT ![d] = <<>>]
          \/ /\ Len(full) # batchSize
             /\ curBatch' = [curBatch EXCEPT ![d] = full]
             /\ UNCHANGED batchQueue
    /\ inFlight' = inFlight + 1
    /\ listener' = [listener EXCEPT ![s] = @ + 1]
    /\ UNCHANGED <<streamVars, dispRunning, dispInWG, updateInProgress,
                   interruptClosed, pollVars, procVars, stale, hwm, dbCp,
                   dbSpec, adminVars, delivered, skipped>>

\* mutant: the timeout flush counts its batch again
DispatchTimeout_countsAgain(d) ==
    /\ dispRunning[d]
    /\ curBatch[d] # <<>>
    /\ lockFree
    /\ batchQueue' = Append(batchQueue, curBatch[d])
    /\ curBatch' = [curBatch EXCEPT ![d] = <<>>]
    /\ inFlight' = inFlight + 1
    /\ UNCHANGED <<streamVars, dispRunning, dispInWG,
                   updateInProgress, interruptClosed, pollVars, procVars,
                   subVars, dbCp, dbSpec, adminVars, delivered, skipped>>

\* batchTimeoutMS elapsed since the first event of the current batch
DispatchTimeout(d) ==
    /\ dispRunning[d]
    /\ curBatch[d] # <<>>
    /\ lockFree
    /\ batchQueue' = Append(batchQueue, curBatch[d])
    /\ curBatch' = [curBatch EXCEPT ![d] = <<>>]
    /\ UNCHANGED <<streamVars, dispRunning, dispInWG, inFlight,
                   updateInProgress, interruptClosed, pollVars, procVars,
                   subVars, dbCp, dbSpec, adminVars, delivered, skipped>>

\* <-a.updateInterrupt: return, dropping the partly filled currentBatch
DispatchInterrupted(d) ==
    /\ dispRunning[d]
    /\ interruptClosed
    /\ dispRunning' = [dispRunning EXCEPT ![d] = FALSE]
    /\ dispInWG' = [dispInWG EXCEPT ![d] = FALSE]
    /\ curBatch' = [curBatch EXCEPT ![d] = <<>>]
    /\ UNCHANGED <<streamVars, batchQueue, inFlight, updateInProgress,
                   interruptClosed, pollVars, procVars, subVars, dbCp, dbSpec,
                   adminVars, delivered, skipped>>

-----------------------------------------------------------------------------
(* eventPoller (eventstream.go 361-434).  One iteration of the loop body,   *)
(* followed by the pollingInterval timer.  When not isBlocked(), every      *)
(* stale subscription restarts from its checkpoint entry (which also sets   *)
(* its blockHWM) or from its fromBlock; restartFilter may fail and leave it  *)
(* stale.  Then the checkpoint takes every blockHWM and is stored if any     *)
(* entry was 0 or changed; the store may fail.                              *)

RestartOutcomes == IF LedgerMayFail THEN SUBSET Subs ELSE {Subs}
StoreOutcomes == IF StoreMayFail THEN BOOLEAN ELSE {TRUE}

\* mutant: the checkpoint records the listener's read position, not blockHWM
eventPoller_cpFromListener ==
    /\ pollRunning
    /\ ~suspendOrStop
    /\ lockFree
    /\ \E restartOk \in RestartOutcomes, storeOk \in StoreOutcomes :
        LET cp0 == IF pollCp = NoCp THEN dbCp ELSE pollCp
            attempted == {s \in Subs : ~isBlocked /\ stale[s]}
            restarted == attempted \cap restartOk
            hwm1 == [s \in Subs |->
                        IF s \in attempted /\ cp0[s] > 0 THEN cp0[s] ELSE hwm[s]]
            lst == [s \in Subs |->
                  IF s \notin restarted THEN listener[s]
                  ELSE IF cp0[s] > 0 THEN cp0[s] ELSE FromBlock[s]]
            changed == \E s \in Subs : cp0[s] = 0 \/ cp0[s] # lst[s]
        IN /\ stale' = [s \in Subs |-> stale[s] /\ s \notin restarted]
           /\ listener' = lst
           /\ hwm' = hwm1
           /\ pollCp' = lst
           /\ dbCp' = IF changed /\ storeOk THEN lst ELSE dbCp
    /\ UNCHANGED <<streamVars, dispVars, batchQueue, inFlight, updateInProgress,
                   interruptClosed, pollRunning, pollerDone, procVars, dbSpec,
                   adminVars, delivered, skipped>>

\* mutant: a restarted subscription keeps its blockHWM instead of taking the
\* checkpoint's (setCheckpointBlockHeight dropped)
eventPoller_noSetCheckpoint ==
    /\ pollRunning
    /\ ~suspendOrStop
    /\ lockFree
    /\ \E restartOk \in RestartOutcomes, storeOk \in StoreOutcomes :
        LET cp0 == IF pollCp = NoCp THEN dbCp ELSE pollCp
            attempted == {s \in Subs : ~isBlocked /\ stale[s]}
            restarted == attempted \cap restartOk
            hwm1 == hwm
            changed == \E s \in Subs : cp0[s] = 0 \/ cp0[s] # hwm1[s]
        IN /\ stale' = [s \in Subs |-> stale[s] /\ s \notin restarted]
           /\ listener' = [s \in Subs |->
                  IF s \notin restarted THEN listener[s]
                  ELSE IF cp0[s] > 0 THEN cp0[s] ELSE FromBlock[s]]
           /\ hwm' = hwm1
           /\ pollCp' = hwm1
           /\ dbCp' = IF changed /\ storeOk THEN hwm1 ELSE dbCp
    /\ UNCHANGED <<streamVars, dispVars, batchQueue, inFlight, updateInProgress,
                   interruptClosed, pollRunning, pollerDone, procVars, dbSpec,
                   adminVars, delivered, skipped>>

eventPoller ==
    /\ pollRunning
    /\ ~suspendOrStop
    /\ lockFree
    /\ \E restartOk \in RestartOutcomes, storeOk \in StoreOutcomes :
        LET cp0 == IF pollCp = NoCp THEN dbCp ELSE pollCp
            attempted == {s \in Subs : ~isBlocked /\ stale[s]}
            restarted == attempted \cap restartOk
            hwm1 == [s \in Subs |->
                        IF s \in attempted /\ cp0[s] > 0 THEN cp0[s] ELSE hwm[s]]
            changed == \E s \in Subs : cp0[s] = 0 \/ cp0[s] # hwm1[s]
        IN /\ stale' = [s \in Subs |-> stale[s] /\ s \notin restarted]
           /\ listener' = [s \in Subs |->
                  IF s \notin restarted THEN listener[s]
                  ELSE IF cp0[s] > 0 THEN cp0[s] ELSE FromBlock[s]]
           /\ hwm' = hwm1
           /\ pollCp' = hwm1
           /\ dbCp' = IF changed /\ storeOk THEN hwm1 ELSE dbCp
    /\ UNCHANGED <<streamVars, dispVars, batchQueue, inFlight, updateInProgress,
                   interruptClosed, pollRunning, pollerDone, procVars, dbSpec,
                   adminVars, delivered, skipped>>

\* the loop exits when suspended, or the select sees updateInterrupt;
\* either way every subscription is marked stale and pollerDone is set
PollerExit ==
    /\ pollRunning
    /\ suspendOrStop \/ interruptClosed
    /\ markAllSubscriptionsStale
    /\ pollRunning' = FALSE
    /\ pollerDone' = TRUE
    /\ UNCHANGED <<streamVars, dispVars, batchQueue, inFlight, updateInProgress,
                   interruptClosed, pollCp, procVars, listener, hwm, dbCp,
                   dbSpec, adminVars, delivered, skipped>>

-----------------------------------------------------------------------------
(* batchProcessor (eventstream.go 515-548).  Under batchCond.L it waits     *)
(* until suspended, a batch is queued, or an update is in progress; in the  *)
(* last case it blocks on <-updateInterrupt still holding the lock.         *)

procUnchanged == UNCHANGED <<streamVars, dispVars, updateInProgress,
                             interruptClosed, pollVars, subVars, dbCp, dbSpec,
                             adminVars, delivered, skipped>>

ProcessorPop ==
    /\ pc = "wait"
    /\ ~suspendOrStop
    /\ batchQueue # <<>>
    /\ batch' = Head(batchQueue)
    /\ batchQueue' = Tail(batchQueue)
    /\ pc' = "pbLoop"
    /\ processed' = FALSE
    /\ pbRetry' = FALSE
    /\ UNCHANGED <<inFlight, pawrRetry, lastErr, procInWG, processorDone>>
    /\ procUnchanged

\* suspended: return without updateWG.Done(); the deferred processorDone
ProcessorSuspendExit ==
    /\ pc = "wait"
    /\ suspendOrStop
    /\ pc' = "exited"
    /\ processorDone' = TRUE
    /\ UNCHANGED <<batchQueue, inFlight, batch, processed, pbRetry, pawrRetry,
                   lastErr, procInWG>>
    /\ procUnchanged

ProcessorUpdateWait ==
    /\ pc = "wait"
    /\ ~suspendOrStop
    /\ batchQueue = <<>>
    /\ updateInProgress
    /\ pc' = "intrWait"
    /\ UNCHANGED <<batchQueue, inFlight, batch, processed, pbRetry, pawrRetry,
                   lastErr, procInWG, processorDone>>
    /\ procUnchanged

ProcessorUpdateExit ==
    /\ pc = "intrWait"
    /\ interruptClosed
    /\ pc' = "exited"
    /\ procInWG' = FALSE
    /\ processorDone' = TRUE
    /\ UNCHANGED <<batchQueue, inFlight, batch, processed, pbRetry, pawrRetry,
                   lastErr>>
    /\ procUnchanged

(* processBatch (553-610) and performActionWithRetry (614-639).  Neither    *)
(* loop reads suspendOrStop under the lock, so a suspend can land between   *)
(* any two of these steps.  performActionWithRetry starts with err = nil.   *)

batchUnchanged == UNCHANGED <<batchQueue, inFlight, batch, procInWG,
                              processorDone>>

\* performActionWithRetry returns err to processBatch:
\* processed = (err == nil) || errorHandling == skip; attempt is now > 0
PawrReturn(err) ==
    /\ lastErr' = err
    /\ processed' = (~err \/ errorHandling = "skip")
    /\ pbRetry' = TRUE
    /\ pc' = "pbLoop"
    /\ UNCHANGED pawrRetry

\* for !suspendOrStop() && !processed
ProcessBatchLoop ==
    /\ pc = "pbLoop"
    /\ \/ /\ ~suspendOrStop /\ ~processed /\ pbRetry
          /\ pc' = "pbDelay"
          /\ UNCHANGED <<pawrRetry, lastErr>>
       \/ /\ ~suspendOrStop /\ ~processed /\ ~pbRetry
          /\ pc' = "pawrLoop" /\ pawrRetry' = FALSE /\ lastErr' = FALSE
       \/ /\ suspendOrStop \/ processed
          /\ pc' = "pbDone"
          /\ UNCHANGED <<pawrRetry, lastErr>>
    /\ UNCHANGED <<processed, pbRetry>>
    /\ batchUnchanged /\ procUnchanged

\* select on updateInterrupt or blockedRetryDelaySec; on the interrupt
\* processBatch returns at once: no inFlight decrement, no batchComplete
ProcessBatchDelay ==
    /\ pc = "pbDelay"
    /\ \/ /\ interruptClosed
          /\ pc' = "wait" /\ batch' = <<>>
          /\ UNCHANGED <<pawrRetry, lastErr>>
       \/ /\ pc' = "pawrLoop" /\ pawrRetry' = FALSE /\ lastErr' = FALSE
          /\ UNCHANGED batch
    /\ UNCHANGED <<batchQueue, inFlight, processed, pbRetry, procInWG,
                   processorDone>>
    /\ procUnchanged

\* for !suspendOrStop() && !complete
PerformActionLoop ==
    /\ pc = "pawrLoop"
    /\ \/ /\ suspendOrStop
          /\ PawrReturn(lastErr)
       \/ /\ ~suspendOrStop /\ pawrRetry
          /\ pc' = "pawrDelay"
          /\ UNCHANGED <<processed, pbRetry, pawrRetry, lastErr>>
       \/ /\ ~suspendOrStop /\ ~pawrRetry
          /\ pc' = "attempt"
          /\ UNCHANGED <<processed, pbRetry, pawrRetry, lastErr>>
    /\ batchUnchanged /\ procUnchanged

\* select on updateInterrupt (return the last err) or the backoff delay
PerformActionDelay ==
    /\ pc = "pawrDelay"
    /\ \/ /\ interruptClosed
          /\ PawrReturn(lastErr)
       \/ /\ pc' = "attempt"
          /\ UNCHANGED <<processed, pbRetry, pawrRetry, lastErr>>
    /\ batchUnchanged /\ procUnchanged

\* action.attemptBatch accepted the batch: complete
AttemptSucceeds ==
    /\ pc = "attempt"
    /\ delivered' = [s \in Subs |-> delivered[s] \cup BlocksOf(batch, s)]
    /\ PawrReturn(FALSE)
    /\ batchUnchanged
    /\ UNCHANGED <<streamVars, dispVars, updateInProgress, interruptClosed,
                   pollVars, subVars, dbCp, dbSpec, adminVars, skipped>>

\* attemptBatch failed: complete iff retryTimeoutSec has elapsed
AttemptFails ==
    /\ pc = "attempt"
    /\ \/ PawrReturn(TRUE)
       \/ /\ lastErr' = TRUE /\ pawrRetry' = TRUE /\ pc' = "pawrLoop"
          /\ UNCHANGED <<processed, pbRetry>>
    /\ batchUnchanged /\ procUnchanged

\* mutant: batchComplete only for batches the sink accepted, never for
\* batches given up under errorHandling=skip
ProcessBatchDone_ackOnlyDelivered ==
    /\ pc = "pbDone"
    /\ inFlight' = IF processed THEN inFlight - Len(batch) ELSE inFlight
    /\ hwm' = IF suspendOrStop \/ lastErr THEN hwm ELSE BatchCompleteHWM(batch)
    /\ skipped' = IF processed /\ lastErr
                  THEN [s \in Subs |-> skipped[s] \cup BlocksOf(batch, s)]
                  ELSE skipped
    /\ pc' = "wait"
    /\ batch' = <<>>
    /\ UNCHANGED <<batchQueue, processed, pbRetry, pawrRetry, lastErr,
                   procInWG, processorDone>>
    /\ UNCHANGED <<streamVars, dispVars, updateInProgress, interruptClosed,
                   pollVars, stale, listener, dbCp, dbSpec, adminVars,
                   delivered>>

\* after the loop: under the lock, inFlight -= len(events) if processed;
\* unless suspended, batchComplete for the last event of each subscription
ProcessBatchDone ==
    /\ pc = "pbDone"
    /\ inFlight' = IF processed THEN inFlight - Len(batch) ELSE inFlight
    /\ hwm' = IF suspendOrStop THEN hwm ELSE BatchCompleteHWM(batch)
    /\ skipped' = IF processed /\ lastErr
                  THEN [s \in Subs |-> skipped[s] \cup BlocksOf(batch, s)]
                  ELSE skipped
    /\ pc' = "wait"
    /\ batch' = <<>>
    /\ UNCHANGED <<batchQueue, processed, pbRetry, pawrRetry, lastErr,
                   procInWG, processorDone>>
    /\ UNCHANGED <<streamVars, dispVars, updateInProgress, interruptClosed,
                   pollVars, stale, listener, dbCp, dbSpec, adminVars,
                   delivered>>

-----------------------------------------------------------------------------
(* REST operations of subscriptionMGR on this stream (part_001 343-382,     *)
(* 274-301), issued one at a time by one client.                           *)

\* SuspendStream: suspend() under the lock, then storeStream (may fail)
SuspendStream ==
    /\ admin = "idle"
    /\ suspends < MaxSuspends
    /\ lockFree
    /\ suspended' = TRUE
    /\ \E storeOk \in StoreOutcomes :
          dbSpec' = IF storeOk THEN [dbSpec EXCEPT !.suspended = TRUE] ELSE dbSpec
    /\ suspends' = suspends + 1
    /\ UNCHANGED <<batchSize, errorHandling, dispVars, batchQueue, inFlight,
                   updateInProgress, interruptClosed, pollVars, procVars,
                   subVars, dbCp, admin, updates, crashes, delivered, skipped>>

\* ResumeStream: resume() fails unless processorDone && pollerDone; it does
\* not look at suspended or updateInProgress
ResumeStream ==
    /\ admin = "idle"
    /\ lockFree
    /\ processorDone /\ pollerDone
    /\ suspended' = FALSE
    /\ processorDone' = FALSE
    /\ pollerDone' = FALSE
    /\ startEventHandlers(TRUE)
    /\ \E storeOk \in StoreOutcomes :
          dbSpec' = IF storeOk THEN [dbSpec EXCEPT !.suspended = FALSE] ELSE dbSpec
    /\ UNCHANGED <<batchSize, errorHandling, batchQueue, inFlight,
                   updateInProgress, subVars, dbCp, adminVars, delivered,
                   skipped>>

\* update(): preUpdateStream sets updateInProgress under the lock, then
\* close(updateInterrupt); closing it a second time panics, which net/http
\* recovers, ending the request
UpdateBegin ==
    /\ admin = "idle"
    /\ updates < MaxUpdates
    /\ lockFree
    /\ updateInProgress' = TRUE
    /\ \/ /\ ~interruptClosed
          /\ interruptClosed' = TRUE
          /\ admin' = "updating"
       \/ /\ interruptClosed
          /\ UNCHANGED <<interruptClosed, admin>>
    /\ updates' = updates + 1
    /\ UNCHANGED <<streamVars, dispVars, batchQueue, inFlight, pollVars,
                   procVars, subVars, dbCp, dbSpec, suspends, crashes,
                   delivered, skipped>>

\* updateWG.Wait() has returned.  A body that fails validation (type change,
\* bad URL, bad distributionMode) returns before postUpdateStream; otherwise
\* the new batchSize and errorHandling are applied, postUpdateStream resets
\* the flags and restarts all three phases, and storeStream saves the spec.
UpdateFails ==
    /\ admin = "updating"
    /\ updateWGDone
    /\ AllowInvalidUpdate
    /\ admin' = "idle"
    /\ UNCHANGED <<streamVars, dispVars, batchQueue, inFlight, updateInProgress,
                   interruptClosed, pollVars, procVars, subVars, dbCp, dbSpec,
                   updates, suspends, crashes, delivered, skipped>>

UpdateEnd ==
    /\ admin = "updating"
    /\ updateWGDone
    /\ lockFree
    /\ \E bs \in BatchSizes, eh \in ErrorHandlings, storeOk \in StoreOutcomes :
          /\ batchSize' = bs
          /\ errorHandling' = eh
          /\ dbSpec' = IF storeOk
                       THEN [batchSize |-> bs, errorHandling |-> eh,
                             suspended |-> suspended]
                       ELSE dbSpec
    /\ pollerDone' = FALSE
    /\ processorDone' = FALSE
    /\ updateInProgress' = FALSE
    /\ startEventHandlers(FALSE)
    /\ admin' = "idle"
    /\ UNCHANGED <<suspended, batchQueue, inFlight, subVars, dbCp, updates,
                   suspends, crashes, delivered, skipped>>

-----------------------------------------------------------------------------
(* The process dies; on restart subscriptionMGR.Init recovers the stream    *)
(* (recoverStreams, newEventStream from the stored spec) and its            *)
(* subscriptions (restoreSubscription: filterStale, blockHWM 0).  Only the  *)
(* KV store survives.                                                       *)

CrashRestart ==
    /\ crashes < MaxCrashes
    /\ batchSize' = dbSpec.batchSize
    /\ errorHandling' = dbSpec.errorHandling
    /\ suspended' = dbSpec.suspended
    /\ dispRunning' = [d \in Dispatchers |-> d = FirstDispatcher]
    /\ dispInWG' = [d \in Dispatchers |-> d = FirstDispatcher]
    /\ curBatch' = [d \in Dispatchers |-> <<>>]
    /\ batchQueue' = <<>>
    /\ inFlight' = 0
    /\ updateInProgress' = FALSE
    /\ interruptClosed' = FALSE
    /\ pollRunning' = TRUE /\ pollCp' = NoCp /\ pollerDone' = FALSE
    /\ pc' = "wait" /\ batch' = <<>> /\ processed' = FALSE /\ pbRetry' = FALSE
    /\ pawrRetry' = FALSE /\ lastErr' = FALSE /\ procInWG' = TRUE
    /\ processorDone' = FALSE
    /\ stale' = [s \in Subs |-> TRUE]
    /\ listener' = [s \in Subs |-> 0]
    /\ hwm' = [s \in Subs |-> 0]
    /\ admin' = "idle"
    /\ crashes' = crashes + 1
    /\ UNCHANGED <<dbCp, dbSpec, updates, suspends, delivered, skipped>>

-----------------------------------------------------------------------------

Dispatcher(d) ==
    \/ \E s \in Subs : DispatchEvent(d, s)
    \/ DispatchTimeout(d)
    \/ DispatchInterrupted(d)

Poller == eventPoller \/ PollerExit

Processor ==
    \/ ProcessorPop \/ ProcessorSuspendExit
    \/ ProcessorUpdateWait \/ ProcessorUpdateExit
    \/ ProcessBatchLoop \/ ProcessBatchDelay
    \/ PerformActionLoop \/ PerformActionDelay
    \/ AttemptSucceeds \/ AttemptFails
    \/ ProcessBatchDone

Admin == SuspendStream \/ ResumeStream \/ UpdateBegin \/ UpdateFails \/ UpdateEnd

Next ==
    \/ \E d \in Dispatchers : Dispatcher(d)
    \/ Poller
    \/ Processor
    \/ Admin
    \/ CrashRestart

Spec == Init /\ [][Next]_vars

\* Every goroutine that can take a step eventually does; an update in
\* progress eventually completes once its wait group is done; the sink
\* accepts a batch eventually if it is offered one again and again.
Fairness ==
    /\ \A d \in Dispatchers : WF_vars(Dispatcher(d))
    /\ WF_vars(Poller)
    /\ WF_vars(Processor)
    /\ SF_vars(AttemptSucceeds)
    /\ WF_vars(UpdateEnd)

FairSpec == Spec /\ Fairness

-----------------------------------------------------------------------------
(* Properties *)

TypeOK ==
    /\ batchSize \in BatchSizes /\ errorHandling \in ErrorHandlings
    /\ suspended \in BOOLEAN
    /\ dispRunning \in [Dispatchers -> BOOLEAN]
    /\ dispInWG \in [Dispatchers -> BOOLEAN]
    /\ curBatch \in [Dispatchers -> Seq(Event)]
    /\ batchQueue \in Seq(Seq(Event))
    /\ inFlight \in Nat
    /\ {updateInProgress, interruptClosed, pollRunning, pollerDone, processed,
        pbRetry, pawrRetry, lastErr, procInWG, processorDone} \subseteq BOOLEAN
    /\ pollCp \in {NoCp} \cup [Subs -> 0 .. MaxBlock]
    /\ pc \in {"wait", "intrWait", "exited"} \cup InBatch
    /\ batch \in Seq(Event)
    /\ stale \in [Subs -> BOOLEAN]
    /\ listener \in [Subs -> 0 .. MaxBlock]
    /\ hwm \in [Subs -> 0 .. MaxBlock]
    /\ dbCp \in [Subs -> 0 .. MaxBlock]
    /\ admin \in {"idle", "updating"}
    /\ delivered \in [Subs -> SUBSET Blocks]
    /\ skipped \in [Subs -> SUBSET Blocks]

\* inFlight (read by isBlocked) never under-counts the events the dispatcher
\* accepted and processBatch has not yet released: the two increments in
\* batchDispatcher and the decrement in processBatch balance, so inFlight
\* cannot wrap below zero (it is a uint64 in the code)
InFlightCoversPending == inFlight >= PendingEvents

\* inFlight is exactly the number of accepted, unreleased events (the
\* contract the spec states for it; a surplus keeps isBlocked true)
InFlightExact == inFlight = PendingEvents

\* At-least-once: the stored checkpoint never moves past an event of a
\* subscription that the sink has not accepted, unless errorHandling=skip
\* gave up on its batch.  A restart resumes from the stored checkpoint.
NoEventSkippedUnacked ==
    \A s \in Subs :
        \A b \in FromBlock[s] .. dbCp[s] - 1 : b \in delivered[s] \cup skipped[s]

\* The stream catches up: eventually the stored checkpoint of every
\* subscription stays at the ledger height
StreamCatchesUp == <>[](\A s \in Subs : dbCp[s] = MaxBlock)

\* An UpdateStream call returns
UpdateReturns == (admin = "updating") ~> (admin = "idle")

\* A batchProcessor blocked on <-updateInterrupt while holding batchCond.L
\* (part_002 521-522) is eventually released: spec 9 requires waits under
\* the mutex to release it, and only a close of the interrupt does.
ProcessorReleasesLock == (pc = "intrWait") ~> (pc # "intrWait")


-----------------------------------------------------------------------------
(* Refinement: the stream implements CheckpointLog.  The resume point is    *)
(* the stored checkpoint, or fromBlock when there is none (a stored 0 counts *)
(* as none, eventstream.go 388-390); the handled blocks are those the sink  *)
(* accepted or skipped.                                                     *)

CP == INSTANCE CheckpointLog
        WITH acked <- [s \in Subs |-> IF dbCp[s] > 0 THEN dbCp[s] ELSE FromBlock[s]],
             done <- [s \in Subs |-> delivered[s] \cup skipped[s]]

\* Every behaviour of the poller's checkpoint writes (eventstream.go
\* 404-419), across crashes and restarts from the stored checkpoint
\* (388-395), is one of CheckpointLog: the stored checkpoint never moves
\* backwards and never passes a block that was not delivered or skipped.
RefinesCheckpointLog == CP!Spec

=============================================================================
