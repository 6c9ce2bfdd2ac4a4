------------------------------ MODULE UsageSink ------------------------------
(***************************************************************************)
(* The recording of usage: Meter.Observe (usage.go) writes a row to SQLite *)
(* and then hands the event to the Azure Monitor sink (usage_sink.go), a   *)
(* bounded channel emptied by one worker that uploads batches; and the     *)
(* shutdown of the process (main.go, Gateway.Shutdown), which stops the    *)
(* server, then the sink, then the store.                                  *)
(*                                                                         *)
(* An Event stands for the request that observes it.  http.Server.Shutdown *)
(* waits for handlers, but at most ten seconds, and not for the producer   *)
(* goroutines of streams whose clients left: requests may be anywhere when *)
(* the sink is closed.  The Prometheus counters are left out, and so is the *)
(* closing of the backends, Pool.Close, which comes before the sink's: it   *)
(* calls client.Stop of the SDK with no timeout (pool.go:461-468), and the  *)
(* model takes it that Stop returns.                                       *)
(***************************************************************************)
EXTENDS Naturals, FiniteSets, SequencesExt

CONSTANTS
    Event,        \* usage events
    BufferSize,   \* 2048 in the code
    BatchSize     \* 100 in the code

ASSUME UsageAssumption == IsFiniteSet(Event) /\ BufferSize \in Nat /\ BatchSize \in Nat \ {0}

VARIABLES
    request,    \* per event: how far its request has come
    rows,       \* events with a row in SQLite
    refused,    \* (history) events whose INSERT failed on the open store
    events,     \* the sink's channel
    dropped,    \* the sink's dropped counter
    done,       \* the sink's done channel is closed
    worker,     \* what the worker is doing
    batch,      \* its batch
    posts,      \* per event: in how many accepted posts it was
    failed,     \* events of failed posts
    main,       \* the phase of the process
    due         \* (history) what was on its way to Azure when Close was called

requestVars == <<request, rows, refused>>
queueVars == <<events, dropped>>
workerVars == <<worker, batch, posts, failed>>
vars == <<requestVars, queueVars, done, workerVars, main, due>>

-----------------------------------------------------------------------------
(* Requests. *)

Begin(e) ==
    /\ main = "serving" /\ request[e] = "waiting"
    /\ request' = [request EXCEPT ![e] = "running"]
    /\ UNCHANGED <<rows, refused, queueVars, done, workerVars, main, due>>

(* UsageStore.Record.  Observe ignores its error: an INSERT that fails (a   *)
(* full disk, a busy database) leaves no row, and the event goes to the     *)
(* sink all the same; so does one that finds the database closed.           *)
StoreOpen == main \notin {"storeClosed", "exited"}

RecordRow(e) ==
    /\ main # "exited" /\ request[e] = "running"
    /\ request' = [request EXCEPT ![e] = "recorded"]
    /\ \/ StoreOpen /\ rows' = rows \cup {e} /\ UNCHANGED refused
       \/ StoreOpen /\ refused' = refused \cup {e} /\ UNCHANGED rows
       \/ ~StoreOpen /\ UNCHANGED <<rows, refused>>
    /\ UNCHANGED <<queueVars, done, workerVars, main, due>>

(* Mutant: a full buffer drops the event without a trace.                   *)
EmitUncounted(e) ==
    /\ main # "exited" /\ request[e] = "recorded"
    /\ request' = [request EXCEPT ![e] = "emitted"]
    /\ events' = IF Len(events) < BufferSize THEN Append(events, e) ELSE events
    /\ UNCHANGED <<rows, refused, dropped, done, workerVars, main, due>>

(* Emit looks at the buffer only, not at done.                              *)
Emit(e) ==
    /\ main # "exited" /\ request[e] = "recorded"
    /\ request' = [request EXCEPT ![e] = "emitted"]
    /\ IF Len(events) < BufferSize
       THEN events' = Append(events, e) /\ UNCHANGED dropped
       ELSE dropped' = dropped + 1 /\ UNCHANGED events
    /\ UNCHANGED <<rows, refused, done, workerVars, main, due>>

-----------------------------------------------------------------------------
(* The worker. *)

(* Receiving fills the batch; a full one is flushed.                        *)
Collect ==
    /\ worker = "selecting" /\ events # <<>>
    /\ events' = Tail(events)
    /\ batch' = Append(batch, Head(events))
    /\ worker' = IF Len(batch') >= BatchSize THEN "uploading" ELSE "selecting"
    /\ UNCHANGED <<requestVars, dropped, done, posts, failed, main, due>>

FlushTick ==
    /\ worker = "selecting" /\ batch # <<>>
    /\ worker' = "uploading"
    /\ UNCHANGED <<requestVars, queueVars, done, batch, posts, failed, main, due>>

NoticeDone ==
    /\ worker = "selecting" /\ done
    /\ worker' = "draining"
    /\ UNCHANGED <<requestVars, queueVars, done, batch, posts, failed, main, due>>

Drain ==
    /\ worker = "draining" /\ events # <<>>
    /\ events' = Tail(events)
    /\ batch' = Append(batch, Head(events))
    /\ UNCHANGED <<requestVars, dropped, done, worker, posts, failed, main, due>>

(* Mutant: what is left in the batch is not flushed.                        *)
DrainedUnflushed ==
    /\ worker = "draining" /\ events = <<>>
    /\ worker' = "stopped"
    /\ UNCHANGED <<requestVars, queueVars, done, batch, posts, failed, main, due>>

(* Mutant: draining waits for another event.                                *)
DrainedByWaiting == FALSE /\ UNCHANGED vars

Drained ==
    /\ worker = "draining" /\ events = <<>>
    /\ worker' = IF batch = <<>> THEN "stopped" ELSE "lastUpload"
    /\ UNCHANGED <<requestVars, queueVars, done, batch, posts, failed, main, due>>

(* Mutant: the batch is kept when its post succeeds.                        *)
PostedKeepingBatch ==
    /\ posts' = [e \in Event |-> posts[e] + IF e \in ToSet(batch) THEN 1 ELSE 0]
    /\ UNCHANGED <<failed, batch>>

Posted ==
    /\ posts' = [e \in Event |-> posts[e] + IF e \in ToSet(batch) THEN 1 ELSE 0]
    /\ batch' = <<>>
    /\ UNCHANGED failed

(* A failed post is logged and its events are gone.                         *)
PostFailed ==
    /\ failed' = failed \cup ToSet(batch)
    /\ batch' = <<>>
    /\ UNCHANGED posts

Upload ==
    /\ worker \in {"uploading", "lastUpload"}
    /\ Posted \/ PostFailed
    /\ worker' = IF worker = "uploading" THEN "selecting" ELSE "stopped"
    /\ UNCHANGED <<requestVars, queueVars, done, main, due>>

-----------------------------------------------------------------------------
(* The process. *)

Interrupt ==
    /\ main = "serving"
    /\ main' = "stoppingServer"
    /\ UNCHANGED <<requestVars, queueVars, done, workerVars, due>>

(* srv.Shutdown returns, with requests still running if it timed out, and   *)
(* Gateway.Shutdown calls Close on the sink.                                *)
CloseSink ==
    /\ main = "stoppingServer"
    /\ main' = "closingSink"
    /\ done' = TRUE
    /\ due' = ToSet(events) \cup ToSet(batch)
    /\ UNCHANGED <<requestVars, queueVars, workerVars>>

(* Mutant: the shutdown does not wait for the worker.                       *)
SinkClosedAtOnce ==
    /\ main = "closingSink"
    /\ main' = "closingStore"
    /\ UNCHANGED <<requestVars, queueVars, done, workerVars, due>>

SinkClosed ==
    /\ main = "closingSink" /\ worker = "stopped"
    /\ main' = "closingStore"
    /\ UNCHANGED <<requestVars, queueVars, done, workerVars, due>>

CloseStore ==
    /\ main = "closingStore"
    /\ main' = "storeClosed"
    /\ UNCHANGED <<requestVars, queueVars, done, workerVars, due>>

Exit ==
    /\ main = "storeClosed"
    /\ main' = "exited"
    /\ UNCHANGED <<requestVars, queueVars, done, workerVars, due>>

-----------------------------------------------------------------------------
Worker == Collect \/ FlushTick \/ NoticeDone \/ Drain \/ Drained \/ Upload

Shutdown == CloseSink \/ SinkClosed \/ CloseStore \/ Exit

Init ==
    /\ request = [e \in Event |-> "waiting"]
    /\ rows = {} /\ refused = {}
    /\ events = <<>> /\ dropped = 0 /\ done = FALSE
    /\ worker = "selecting" /\ batch = <<>>
    /\ posts = [e \in Event |-> 0] /\ failed = {}
    /\ main = "serving" /\ due = {}

Next ==
    \/ \E e \in Event : Begin(e) \/ RecordRow(e) \/ Emit(e)
    \/ Worker \/ Interrupt \/ Shutdown

Spec == Init /\ [][Next]_vars

(* The worker runs and its posts end (they have a timeout of 30s); once     *)
(* interrupted, so does main.                                               *)
FairSpec == Spec /\ WF_vars(Worker) /\ WF_vars(Shutdown)

-----------------------------------------------------------------------------
TypeOK ==
    /\ request \in [Event -> {"waiting", "running", "recorded", "emitted"}]
    /\ rows \subseteq Event /\ refused \subseteq Event
    /\ events \in Seq(Event) /\ Len(events) <= BufferSize
    /\ dropped \in Nat
    /\ done \in BOOLEAN
    /\ worker \in {"selecting", "uploading", "draining", "lastUpload", "stopped"}
    /\ batch \in Seq(Event)
    /\ posts \in [Event -> Nat]
    /\ failed \subseteq Event
    /\ main \in {"serving", "stoppingServer", "closingSink", "closingStore", "storeClosed", "exited"}
    /\ due \subseteq Event

Emitted == {e \in Event : request[e] = "emitted"}
Accepted == {e \in Event : posts[e] > 0}
OnTheWay == ToSet(events) \cup ToSet(batch)

(* An event handed to the sink is in exactly one place, the buffer, the     *)
(* batch, an accepted post or a failed one, unless it was dropped, and the  *)
(* dropped counter says how many were.                                      *)
EventsConserved ==
    /\ ToSet(events) \cap ToSet(batch) = {}
    /\ OnTheWay \cap (Accepted \cup failed) = {}
    /\ Accepted \cap failed = {}
    /\ OnTheWay \cup Accepted \cup failed \subseteq Emitted
    /\ Cardinality(Emitted \ (OnTheWay \cup Accepted \cup failed)) = dropped

(* No usage event reaches the Log Analytics table twice.                    *)
PostedAtMostOnce == \A e \in Event : posts[e] <= 1

(* Close "flushes what is buffered, and waits for the worker to drain":     *)
(* when it has returned, what it found in the buffer or in the batch was    *)
(* posted, successfully or not.                                             *)
CloseFlushes == main \in {"closingStore", "storeClosed", "exited"} => due \subseteq Accepted \cup failed

(* Azure and the local database differ only by INSERTs that failed: an      *)
(* event that Azure accepted has its row, or the store was open for it and  *)
(* refused it.  Never has Azure an event that came too late for the store,  *)
(* though requests still run, and emit, while sink and store are closed.    *)
PostedWasOffered == Accepted \subseteq rows \cup refused

(* An interrupted process gets through its shutdown.                        *)
ShutdownEnds == main # "serving" ~> main = "exited"

=============================================================================
