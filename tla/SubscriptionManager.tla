------------------------- MODULE SubscriptionManager -------------------------
(* The subscription manager of the event subsystem (submanager.go, in      *)
(* src/unnamed/part_001): the in-memory registries s.streams and            *)
(* s.subscriptions, the leveldb store behind them, and the REST handlers    *)
(* that change both.  net/http runs each request on its own goroutine and   *)
(* the manager takes no lock, so the steps of two handlers interleave.  A   *)
(* handler is split where it calls the store (or walks a map), since those  *)
(* are the points at which another handler can see a half-done state.      *)
(* The pipeline of a stream is abstracted to its suspended and stopped      *)
(* flags and its poller's checkpoint write; EventStream models the rest.    *)
EXTENDS Naturals, FiniteSets, Functions, TLC

CONSTANTS
    Handlers,     \* concurrent REST request goroutines
    StreamIds,    \* ids utils.UUIDv4 can hand to streams ("es-" keys)
    SubIds,       \* ids it can hand to subscriptions ("sb-" keys)
    FromBlocks,   \* values a client gives as fromBlock / initialBlock
    MaxRequests,  \* bound on the REST requests of a behaviour
    MaxCrashes,   \* bound on process restarts (after a crash or a Close)
    StoreMayFail  \* whether a leveldb Put or Delete can return an error

FromBlockNewest == "newest"
ASSUME FromBlockNewest \in FromBlocks
ASSUME StreamIds \cap SubIds = {}

VARIABLES
    streams,      \* s.streams: ids of registered streams
    subs,         \* s.subscriptions: ids of registered subscriptions
    streamObj,    \* the *eventStream objects of this process, by id
    subObj,       \* the *subscription objects of this process, by id
    db,           \* leveldb: stream specs, subscription infos, checkpoint keys
    req,          \* req[h]: the request handler h is serving
    allocated,    \* ids handed out so far (UUIDs are never reused)
    requests, crashes,
    closed        \* s.closed: Close() ran and the leveldb store is closed

vars == <<streams, subs, streamObj, subObj, db, req, allocated, requests,
          crashes, closed>>

NoId == "none"
Ops == {"none", "AddStream", "UpdateStream", "SuspendStream", "ResumeStream",
        "DeleteStream",
        "AddSubscription", "ResetSubscription", "DeleteSubscription"}
Idle == [op |-> "none", pc |-> "done", id |-> NoId, snap |-> {}]
\* a Put or Delete on a closed leveldb store returns ErrClosed
StoreOutcomes == IF closed THEN {FALSE}
                 ELSE IF StoreMayFail THEN BOOLEAN ELSE {TRUE}

\* leveldb Delete of a key: a missing key is not an error
DbDelete(f, k) == Restrict(f, DOMAIN f \ {k})

\* the info newSubscription / restoreSubscription builds (spec 4.2):
\* filterStale, no reset requested, not deleting
SubInfo(st, fb) == [stream |-> st, fromBlock |-> fb, deleting |-> FALSE,
                    resetRequested |-> FALSE]

\* what a client may send as fromBlock / initialBlock: "" means unset
RequestBlocks == FromBlocks \cup {""}

\* mutant: an unset block is stored as given
DefaultFromBlock_keepEmpty(fb) == fb

\* an unset block defaults to newest
DefaultFromBlock(fb) == IF fb = "" THEN FromBlockNewest ELSE fb

\* a new request starts on an idle handler goroutine; once Close() has run
\* the process is shutting down and serves no new request
StartRequest(h) ==
    /\ ~closed
    /\ req[h] = Idle
    /\ requests < MaxRequests
    /\ requests' = requests + 1

\* the handler is done; its response was given by the step that ends it
Respond(h) == req' = [req EXCEPT ![h] = Idle]

Goto(h, op, pc, id) ==
    req' = [req EXCEPT ![h] = [Idle EXCEPT !.op = op, !.pc = pc, !.id = id]]

Init ==
    /\ streams = {} /\ subs = {}
    /\ streamObj = <<>> /\ subObj = <<>>
    /\ db = [streams |-> <<>>, subs |-> <<>>, cps |-> {}]
    /\ req = [h \in Handlers |-> Idle]
    /\ allocated = {} /\ requests = 0 /\ crashes = 0 /\ closed = FALSE

-----------------------------------------------------------------------------
(* Streams: AddStream, SuspendStream, ResumeStream (submanager.go 252-383)  *)

\* newEventStream starts the pipeline and the stream is registered before
\* storeStream is called
AddStream(h) ==
    /\ StartRequest(h)
    /\ \E id \in StreamIds \ allocated :
          /\ allocated' = allocated \cup {id}
          /\ streamObj' = (id :> [suspended |-> FALSE, stopped |-> FALSE]) @@ streamObj
          /\ streams' = streams \cup {id}
          /\ Goto(h, "AddStream", "storeStream", id)
    /\ UNCHANGED <<subs, subObj, db, crashes, closed>>

\* UpdateStream calls stream.update() on the stream streamByID returned.
\* update() closes updateInterrupt and waits for the pipeline's goroutines;
\* a suspended stream's processor has exited without updateWG.Done()
\* (EventStream, run update_of_suspended_hangs), so the handler blocks for
\* good.  Otherwise update() returns the merged spec, or refuses it (500)
\* and nothing is stored.
UpdateStream(h) ==
    /\ StartRequest(h)
    /\ \E id \in streams :
          \/ /\ streamObj[id].suspended
             /\ Goto(h, "UpdateStream", "updateWait", id)
          \/ /\ ~streamObj[id].suspended
             /\ Goto(h, "UpdateStream", "storeStream", id)
          \/ /\ ~streamObj[id].suspended
             /\ UNCHANGED req
    /\ UNCHANGED <<streams, subs, streamObj, subObj, db, allocated, crashes, closed>>

\* stream.suspend() on the stream streamByID returned
SuspendStream(h) ==
    /\ StartRequest(h)
    /\ \E id \in streams :
          /\ streamObj' = [streamObj EXCEPT ![id].suspended = TRUE]
          /\ Goto(h, "SuspendStream", "storeStream", id)
    /\ UNCHANGED <<streams, subs, subObj, db, allocated, crashes, closed>>

\* stream.resume() refuses (500) unless the poller and processor have exited
\* (eventstream.go 324), which they do once suspended or stopped; when they
\* have is up to the pipeline, so a refusal is always possible
ResumeStream(h) ==
    /\ StartRequest(h)
    /\ \E id \in streams :
          \/ /\ streamObj[id].suspended \/ streamObj[id].stopped
             /\ streamObj' = [streamObj EXCEPT ![id].suspended = FALSE]
             /\ Goto(h, "ResumeStream", "storeStream", id)
          \/ UNCHANGED <<streamObj, req>>
    /\ UNCHANGED <<streams, subs, subObj, db, allocated, crashes, closed>>

\* storeStream(spec) ends AddStream, UpdateStream, SuspendStream and ResumeStream:
\* it writes the object the handler holds, whatever happened to it since
StoreStream(h) ==
    LET id == req[h].id IN
    /\ req[h].pc = "storeStream"
    /\ \E ok \in StoreOutcomes :
          /\ db' = IF ok
                   THEN [db EXCEPT !.streams = (id :> streamObj[id].suspended) @@ @]
                   ELSE db
    /\ Respond(h)
    /\ UNCHANGED <<streams, subs, streamObj, subObj, allocated, requests,
                   crashes, closed>>

-----------------------------------------------------------------------------
(* Subscriptions: AddSubscription, ResetSubscription, DeleteSubscription    *)
(* (submanager.go 124-231).  newSubscription binds to the stream by id and  *)
(* does not check that it exists (spec 3).                                  *)

AddSubscription(h) ==
    /\ StartRequest(h)
    /\ \E id \in SubIds \ allocated, st \in allocated \cap StreamIds,
          fb \in RequestBlocks :
          /\ allocated' = allocated \cup {id}
          /\ subObj' = (id :> SubInfo(st, DefaultFromBlock(fb))) @@ subObj
          /\ subs' = subs \cup {id}
          /\ Goto(h, "AddSubscription", "storeSub", id)
    /\ UNCHANGED <<streams, streamObj, db, crashes, closed>>

\* resetSubscription sets FromBlock on the object subscriptionByID returned
ResetSubscription(h) ==
    /\ StartRequest(h)
    /\ \E id \in subs, fb \in RequestBlocks :
          /\ subObj' = [subObj EXCEPT ![id].fromBlock = DefaultFromBlock(fb)]
          /\ Goto(h, "ResetSubscription", "storeSub", id)
    /\ UNCHANGED <<streams, subs, streamObj, db, allocated, crashes, closed>>

\* storeSubscription(sub.info) ends AddSubscription and resetSubscription;
\* a reset whose write succeeded then calls sub.requestReset()
StoreSubscription(h) ==
    LET id == req[h].id IN
    /\ req[h].pc = "storeSub"
    /\ \E ok \in StoreOutcomes :
          /\ db' = IF ok
                   THEN [db EXCEPT !.subs = (id :> [stream |-> subObj[id].stream,
                                                   fromBlock |-> subObj[id].fromBlock]) @@ @]
                   ELSE db
          /\ subObj' = IF ok /\ req[h].op = "ResetSubscription"
                       THEN [subObj EXCEPT ![id].resetRequested = TRUE]
                       ELSE subObj
    /\ Respond(h)
    /\ UNCHANGED <<streams, subs, streamObj, allocated, requests, crashes, closed>>

\* deleteSubscription: drop it from the registry, unsubscribe(true), then
\* delete its key; the registry entry is gone even if the delete fails
deleteSubscription(x, ok) ==
    /\ subs' = subs \ {x}
    /\ subObj' = [subObj EXCEPT ![x].deleting = TRUE]
    /\ db' = IF ok THEN [db EXCEPT !.subs = DbDelete(@, x)] ELSE db

DeleteSubscription(h) ==
    /\ StartRequest(h)
    /\ \E id \in subs, ok \in StoreOutcomes :
          /\ deleteSubscription(id, ok)
    /\ UNCHANGED <<streams, streamObj, req, allocated, crashes, closed>>

-----------------------------------------------------------------------------
(* DeleteStream (submanager.go 304-330): a range over s.subscriptions that  *)
(* deletes the stream's subscriptions, logging and ignoring a failed key    *)
(* delete; then the stream leaves the registry, stop() closes its event     *)
(* channel, and its key and checkpoint key are deleted.                     *)

DeleteStream(h) ==
    /\ StartRequest(h)
    /\ \E id \in streams :
          /\ req' = [req EXCEPT ![h] = [op |-> "DeleteStream", pc |-> "cascade",
                                        id |-> id, snap |-> subs]]
    /\ UNCHANGED <<streams, subs, streamObj, subObj, db, allocated, crashes, closed>>

\* one iteration of the range: a registered subscription of the stream
CascadeDelete(h) ==
    /\ req[h].pc = "cascade"
    /\ \E x \in subs, ok \in StoreOutcomes :
          /\ subObj[x].stream = req[h].id
          /\ deleteSubscription(x, ok)
    /\ UNCHANGED <<streams, streamObj, req, allocated, requests, crashes, closed>>

\* The range ends once it has produced every matching entry present when it
\* began and not removed since; entries added meanwhile may be skipped.  A
\* second stop() of the same stream closes a closed channel and panics; the
\* request dies in net/http's recovery with nothing more done.
DeleteStreamEnd(h) ==
    LET id == req[h].id IN
    /\ req[h].pc = "cascade"
    /\ \A x \in req[h].snap \cap subs : subObj[x].stream # id
    /\ streams' = streams \ {id}
    /\ \/ /\ streamObj[id].stopped
          /\ UNCHANGED <<streamObj, db>>
       \/ /\ ~streamObj[id].stopped
          /\ streamObj' = [streamObj EXCEPT ![id].stopped = TRUE]
          /\ \E ok \in StoreOutcomes, cpOk \in StoreOutcomes :
                /\ db' = IF ok
                         THEN [db EXCEPT !.streams = DbDelete(@, id),
                                         !.cps = IF cpOk THEN @ \ {id} ELSE @]
                         ELSE db
    /\ Respond(h)
    /\ UNCHANGED <<subs, subObj, allocated, requests, crashes, closed>>

-----------------------------------------------------------------------------
(* The poller of a running stream writes cp-<id> (eventstream.go 404-418;   *)
(* a failed write is only logged, so it is no step).                        *)
PollerCheckpoint ==
    /\ ~closed
    /\ \E st \in DOMAIN streamObj :
          /\ ~streamObj[st].stopped /\ ~streamObj[st].suspended
          /\ st \notin db.cps
          /\ db' = [db EXCEPT !.cps = @ \cup {st}]
    /\ UNCHANGED <<streams, subs, streamObj, subObj, req, allocated, requests,
                   crashes, closed>>

\* Close() (submanager.go 491-503) at shutdown: stop() of every registered
\* stream, close() of every subscription, then the store is closed.
\* Requests already running go on and their store calls fail.  A second
\* Close() would stop() the stopped streams again and panic on the closed
\* channel, so shutdown runs it once; a restart (CrashRestart) follows.
Close ==
    /\ ~closed
    /\ crashes < MaxCrashes
    /\ streamObj' = [id \in DOMAIN streamObj |->
                        IF id \in streams THEN [streamObj[id] EXCEPT !.stopped = TRUE]
                        ELSE streamObj[id]]
    /\ closed' = TRUE
    /\ UNCHANGED <<streams, subs, subObj, db, req, allocated, requests,
                   crashes>>

\* The process dies (requests in progress get no answer) and Init recovers
\* every "es-" key as a stream, suspended flag kept (recoverStreams), then
\* every "sb-" key as a subscription (recoverSubscriptions; restoreSubscription
\* binds by stream id without a check, spec 3).
CrashRestart ==
    /\ crashes < MaxCrashes
    /\ crashes' = crashes + 1
    /\ streams' = DOMAIN db.streams
    /\ streamObj' = [id \in DOMAIN db.streams |->
                        [suspended |-> db.streams[id], stopped |-> FALSE]]
    /\ subs' = DOMAIN db.subs
    /\ subObj' = [id \in DOMAIN db.subs |->
                     SubInfo(db.subs[id].stream, db.subs[id].fromBlock)]
    /\ req' = [h \in Handlers |-> Idle]
    /\ closed' = FALSE
    /\ UNCHANGED <<db, allocated, requests>>

Handler(h) ==
    \/ AddStream(h) \/ UpdateStream(h) \/ SuspendStream(h) \/ ResumeStream(h)
    \/ StoreStream(h)
    \/ AddSubscription(h) \/ ResetSubscription(h) \/ StoreSubscription(h)
    \/ DeleteSubscription(h)
    \/ DeleteStream(h) \/ CascadeDelete(h) \/ DeleteStreamEnd(h)

Next ==
    \/ \E h \in Handlers : Handler(h)
    \/ PollerCheckpoint
    \/ Close
    \/ CrashRestart

Spec == Init /\ [][Next]_vars

-----------------------------------------------------------------------------
(* Properties *)

Record(S) == [stream : S, fromBlock : FromBlocks]

TypeOK ==
    /\ streams \subseteq StreamIds /\ subs \subseteq SubIds
    /\ \E S \in SUBSET StreamIds : streamObj \in [S -> [suspended : BOOLEAN,
                                                     stopped : BOOLEAN]]
    /\ \E S \in SUBSET SubIds :
          subObj \in [S -> [stream : StreamIds, fromBlock : FromBlocks,
                            deleting : BOOLEAN, resetRequested : BOOLEAN]]
    /\ \E S \in SUBSET StreamIds : db.streams \in [S -> BOOLEAN]
    /\ \E S \in SUBSET SubIds : db.subs \in [S -> Record(StreamIds)]
    /\ db.cps \subseteq StreamIds
    /\ \A h \in Handlers : req[h].op \in Ops /\ req[h].snap \subseteq SubIds
    /\ requests \in 0 .. MaxRequests /\ crashes \in 0 .. MaxCrashes
    /\ closed \in BOOLEAN

\* Spec 8.3: after any sequence of operations, a restart restores every
\* stream and subscription as it was.  Whenever no request is in progress,
\* what Init would rebuild from the "es-" and "sb-" keys is exactly the
\* registries: the same ids, each stream's suspended flag, and each
\* subscription's stream and fromBlock.  The handlers change the registry
\* or the object first and the store after (lines 150-151, 186-190, 216-218,
\* 265-266, 319-321), with no lock and no rollback on a failed write.
RestartRestoresState ==
    (\A h \in Handlers : req[h] = Idle) =>
        /\ DOMAIN db.streams = streams
        /\ \A e \in streams : db.streams[e] = streamObj[e].suspended
        /\ DOMAIN db.subs = subs
        /\ \A x \in subs : db.subs[x] = [stream |-> subObj[x].stream,
                                         fromBlock |-> subObj[x].fromBlock]

=============================================================================
