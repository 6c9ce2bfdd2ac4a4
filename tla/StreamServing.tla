---------------------------- MODULE StreamServing ----------------------------
(***************************************************************************)
(* Streamed requests: Gateway.StreamChat, StreamResponses and              *)
(* StreamAnthropic (gateway.go) with the handler's writeStream (server.go).*)
(*                                                                         *)
(* A stream has a producer goroutine, which reads the backend's items and  *)
(* sends SSE chunks on the unbuffered channel out; the handler goroutine,  *)
(* which receives them and writes to the client; the backend; and a client *)
(* that may leave.  The context is cancelled by net/http once it notices   *)
(* that the client has gone, and by the handler when it returns.  emitSSE  *)
(* selects between the channel and the context: when both are ready, either*)
(* may win.                                                                *)
(*                                                                         *)
(* Account selection is one step here (RequestServing has its details, and *)
(* the global bucket).  A chunk is counted, its text is left out.          *)
(***************************************************************************)
EXTENDS AccountPool

CONSTANTS
    Stream,       \* stream goroutine pairs
    Handler,      \* Handler[s]: "chat", "responses" or "anthropic"
    Key,          \* cache keys
    KeyOf,        \* KeyOf[s]: the key of s's request
    MaxDeltas,    \* bound on the content deltas of one answer
    None

ASSUME StreamAssumption ==
    /\ IsFiniteSet(Stream)
    /\ Handler \in [Stream -> {"chat", "responses", "anthropic"}]
    /\ KeyOf \in [Stream -> Key]
    /\ MaxDeltas \in Nat \ {0}
    /\ None \notin Account

VARIABLES
    prod,       \* where the producer is
    left,       \* chunks left to send in the producer's current phase
    got,        \* deltas received from the backend
    complete,   \* the backend's "done" item has been received
    backend,    \* the item channel: "none", "open", "closed" or "broken"
    reader,     \* the handler goroutine: "idle", "reading" or "returned"
    written,    \* chunks the handler has taken from the channel
    cancelled,  \* ctx is done
    gone,       \* the client has left
    slot,       \* the account whose slot the stream holds
    metered,    \* what Meter.Observe was told
    stored,     \* the Responses store has the answer
    cache       \* per key: "none", or whether the cached answer is whole

producerVars == <<prod, left, got, complete, metered, stored, cache>>
connection == <<reader, cancelled, written>>
streamVars == <<producerVars, connection, backend, gone, slot>>
vars == <<poolVars, streamVars>>

Phase == {"idle", "opening", "calling", "consuming", "relaying", "replaying",
          "closing", "recording", "failing", "exited"}

Enter(s, phase, chunks) ==
    /\ prod' = [prod EXCEPT ![s] = phase]
    /\ left' = [left EXCEPT ![s] = chunks]

OpeningChunks(s) == IF Handler[s] = "responses" THEN 2 ELSE 1
ClosingChunks(s) == IF Handler[s] = "responses" THEN 1 ELSE 2

-----------------------------------------------------------------------------
(* The plan is made: a cache hit, or a slot of an account.                  *)

Start(s) == reader' = [reader EXCEPT ![s] = "reading"] /\ Enter(s, "opening", OpeningChunks(s))

OpenHit(s) ==
    /\ prod[s] = "idle" /\ cache[KeyOf[s]] # "none"
    /\ Start(s)
    /\ UNCHANGED <<poolVars, got, complete, metered, stored, cache, cancelled, written, backend, gone, slot>>

OpenMiss(s, a) ==
    /\ prod[s] = "idle" /\ cache[KeyOf[s]] = "none"
    /\ a \in Candidates /\ Admit(a)
    /\ slot' = [slot EXCEPT ![s] = a]
    /\ Start(s)
    /\ UNCHANGED <<got, complete, metered, stored, cache, cancelled, written, backend, gone>>

(* Other requests may push the entry out of the cache at any time.          *)
Evict(k) ==
    /\ cache[k] # "none"
    /\ cache' = [cache EXCEPT ![k] = "none"]
    /\ UNCHANGED <<poolVars, prod, left, got, complete, metered, stored, connection, backend, gone, slot>>

-----------------------------------------------------------------------------
(* The client and the handler. *)

ClientLeaves(s) ==
    /\ reader[s] = "reading" /\ ~gone[s]
    /\ gone' = [gone EXCEPT ![s] = TRUE]
    /\ UNCHANGED <<poolVars, producerVars, connection, backend, slot>>

(* net/http cancels the request's context.                                  *)
NoticeGone(s) ==
    /\ gone[s] /\ reader[s] = "reading" /\ ~cancelled[s]
    /\ cancelled' = [cancelled EXCEPT ![s] = TRUE]
    /\ UNCHANGED <<poolVars, producerVars, reader, written, backend, gone, slot>>

HandlerReturns(s) ==
    /\ reader' = [reader EXCEPT ![s] = "returned"]
    /\ cancelled' = [cancelled EXCEPT ![s] = TRUE]

(* A keepalive write fails, or the channel is found closed.                 *)
StopReading(s) ==
    /\ reader[s] = "reading" /\ (gone[s] \/ prod[s] = "exited")
    /\ HandlerReturns(s)
    /\ UNCHANGED <<poolVars, producerVars, written, backend, gone, slot>>

(* emitSSE: the handler takes the chunk and writes it, or fails to.         *)
Delivered(s) ==
    /\ reader[s] = "reading"
    /\ written' = [written EXCEPT ![s] = @ + 1]
    /\ UNCHANGED <<reader, cancelled>> \/ (gone[s] /\ HandlerReturns(s))

(* Mutant: a send that does not select on the context. *)
NeverDropped(s) == FALSE /\ UNCHANGED connection

Dropped(s) == cancelled[s] /\ UNCHANGED connection

-----------------------------------------------------------------------------
(* The producer. *)

(* "defer account.Release()" has been reached: StreamResponses sends its    *)
(* first two chunks before that.                                            *)
(* Mutant: every handler opens its stream before the defer statement.       *)
DeferredOnceOpen(s) == slot[s] # None /\ prod[s] # "opening"

ReleaseDeferred(s) == slot[s] # None /\ ~(Handler[s] = "responses" /\ prod[s] = "opening")

(* Mutant: an exit that also releases by hand what is deferred.             *)
ExitReleasingTwice(s) ==
    /\ Enter(s, "exited", 0)
    /\ IF ReleaseDeferred(s)
       THEN /\ inFlight' = [inFlight EXCEPT ![slot[s]] = IF @ > 1 THEN @ - 2 ELSE 0]
            /\ slot' = [slot EXCEPT ![s] = None]
            /\ UNCHANGED <<members, health, limits>>
       ELSE UNCHANGED <<poolVars, slot>>

Exit(s) ==
    /\ Enter(s, "exited", 0)
    /\ IF ReleaseDeferred(s)
       THEN ReleaseSlot(slot[s]) /\ slot' = [slot EXCEPT ![s] = None]
       ELSE UNCHANGED <<poolVars, slot>>

(* The client is found gone while sending: return without another word.     *)
(* Mutant: the result of emitSSE is ignored. *)
CarryOn(s) ==
    /\ prod[s] \in {"opening", "relaying", "replaying", "closing"} /\ left[s] > 0
    /\ Dropped(s)
    /\ left' = [left EXCEPT ![s] = @ - 1]
    /\ UNCHANGED <<poolVars, prod, got, complete, metered, stored, cache, backend, gone, slot>>

Abandon(s) ==
    /\ prod[s] \in {"opening", "relaying", "replaying", "closing"} /\ left[s] > 0
    /\ Dropped(s)
    /\ Exit(s)
    /\ UNCHANGED <<got, complete, metered, stored, cache, backend, gone>>

Send(s) ==
    /\ prod[s] \in {"opening", "relaying", "replaying", "closing"} /\ left[s] > 0
    /\ Delivered(s)
    /\ left' = [left EXCEPT ![s] = @ - 1]
    /\ UNCHANGED <<poolVars, prod, got, complete, metered, stored, cache, backend, gone, slot>>

(* A phase's chunks are all sent.                                           *)
Advance(s) ==
    /\ left[s] = 0
    /\ \/ /\ prod[s] = "opening" /\ slot[s] = None
          /\ Enter(s, "replaying", 1)
       \/ /\ prod[s] = "opening" /\ slot[s] # None
          /\ Enter(s, "calling", 0)
       \/ /\ prod[s] = "relaying"
          /\ Enter(s, "consuming", 0)
       \/ /\ prod[s] = "replaying"
          /\ Enter(s, "closing", ClosingChunks(s))
       \/ /\ prod[s] = "closing"
          /\ Enter(s, "recording", 0)
    /\ UNCHANGED <<poolVars, got, complete, metered, stored, cache, connection, backend, gone, slot>>

(* Backend.ChatStream.                                                      *)
Call(s) ==
    /\ prod[s] = "calling"
    /\ \/ Enter(s, "consuming", 0) /\ backend' = [backend EXCEPT ![s] = "open"] /\ UNCHANGED poolVars
       \/ /\ \E kind \in FailureKind : RecordFailure(slot[s], kind)
          /\ Enter(s, "failing", 1) /\ UNCHANGED backend
    /\ UNCHANGED <<got, complete, metered, stored, cache, connection, gone, slot>>

(* An item arrives.  StreamChat passes a delta on at once, the others only  *)
(* collect it (consumeStream).                                              *)
ReceiveDelta(s) ==
    /\ prod[s] = "consuming" /\ backend[s] = "open" /\ ~complete[s] /\ got[s] < MaxDeltas
    /\ got' = [got EXCEPT ![s] = @ + 1]
    /\ IF Handler[s] = "chat" THEN Enter(s, "relaying", 1) ELSE UNCHANGED <<prod, left>>
    /\ UNCHANGED <<poolVars, complete, metered, stored, cache, connection, backend, gone, slot>>

ReceiveDone(s) ==
    /\ prod[s] = "consuming" /\ backend[s] = "open" /\ ~complete[s]
    /\ complete' = [complete EXCEPT ![s] = TRUE]
    /\ UNCHANGED <<poolVars, prod, left, got, metered, stored, cache, connection, backend, gone, slot>>

(* Mutant: an error item is taken for the end of the answer.                *)
ReceiveErrorAsEnd(s) ==
    /\ prod[s] = "consuming" /\ backend[s] = "open" /\ ~complete[s]
    /\ backend' = [backend EXCEPT ![s] = "closed"]
    /\ UNCHANGED <<poolVars, prod, left, got, complete, metered, stored, cache, connection, gone, slot>>

ReceiveError(s) ==
    /\ prod[s] = "consuming" /\ backend[s] = "open" /\ ~complete[s]
    /\ \E kind \in FailureKind : RecordFailure(slot[s], kind)
    /\ Enter(s, "failing", 1)
    /\ UNCHANGED <<got, complete, metered, stored, cache, connection, backend, gone, slot>>

(* The backend closes the channel: after its terminal item, or early when   *)
(* it notices that the context is done.                                     *)
BackendCloses(s) ==
    /\ backend[s] = "open" /\ (complete[s] \/ cancelled[s])
    /\ backend' = [backend EXCEPT ![s] = "closed"]
    /\ UNCHANGED <<poolVars, producerVars, connection, gone, slot>>

(* It also closes the channel without a terminal item when the sending of   *)
(* the prompt fails after the SDK has raised the end of the turn (see       *)
(* SDKStream): the producer is not told.                                    *)
BackendBreaks(s) ==
    /\ prod[s] = "consuming" /\ backend[s] = "open" /\ ~complete[s]
    /\ backend' = [backend EXCEPT ![s] = "broken"]
    /\ UNCHANGED <<poolVars, producerVars, connection, gone, slot>>

EndOfItems(s) ==
    /\ prod[s] = "consuming" /\ backend[s] \in {"closed", "broken"}
    /\ IF Handler[s] = "chat" THEN Enter(s, "closing", ClosingChunks(s)) ELSE Enter(s, "replaying", 1)
    /\ UNCHANGED <<poolVars, got, complete, metered, stored, cache, connection, backend, gone, slot>>

Content(s) == IF complete[s] THEN "whole" ELSE "partial"

(* The terminal event was taken: success, cache, meter, deferred release.   *)
(* A replayed hit is metered, and stored again by StreamResponses.          *)
Observe(s, what) == metered' = [metered EXCEPT ![s] = what]

Record(s) ==
    /\ prod[s] = "recording"
    /\ stored' = [stored EXCEPT ![s] = Handler[s] = "responses"]
    /\ Enter(s, "exited", 0)
    /\ IF slot[s] = None
       THEN Observe(s, "hit") /\ UNCHANGED <<poolVars, cache, slot>>
       ELSE /\ Observe(s, "success")
            /\ failures' = [failures EXCEPT ![slot[s]] = 0]
            /\ inFlight' = [inFlight EXCEPT ![slot[s]] = IF @ > 0 THEN @ - 1 ELSE 0]
            /\ cache' = [cache EXCEPT ![KeyOf[s]] = Content(s)]
            /\ slot' = [slot EXCEPT ![s] = None]
            /\ UNCHANGED <<members, cooldown, limits>>
    /\ UNCHANGED <<got, complete, connection, backend, gone>>

(* The error chunk may or may not reach the client.                         *)
Fail(s) ==
    /\ prod[s] = "failing"
    /\ Delivered(s) \/ Dropped(s)
    /\ Observe(s, "failure")
    /\ Exit(s)
    /\ UNCHANGED <<got, complete, stored, cache, backend, gone>>

(* Both goroutines have returned; the pair serves the next request.         *)
NextRequest(s) ==
    /\ prod[s] = "exited" /\ reader[s] = "returned" /\ slot[s] = None
    /\ Enter(s, "idle", 0)
    /\ got' = [got EXCEPT ![s] = 0]
    /\ complete' = [complete EXCEPT ![s] = FALSE]
    /\ metered' = [metered EXCEPT ![s] = "no"]
    /\ stored' = [stored EXCEPT ![s] = FALSE]
    /\ reader' = [reader EXCEPT ![s] = "idle"]
    /\ cancelled' = [cancelled EXCEPT ![s] = FALSE]
    /\ written' = [written EXCEPT ![s] = 0]
    /\ backend' = [backend EXCEPT ![s] = "none"]
    /\ gone' = [gone EXCEPT ![s] = FALSE]
    /\ UNCHANGED <<poolVars, cache, slot>>

-----------------------------------------------------------------------------
Producer(s) ==
    \/ Send(s) \/ Abandon(s) \/ Advance(s) \/ Call(s) \/ EndOfItems(s) \/ Record(s) \/ Fail(s)
    \/ ReceiveDelta(s) \/ ReceiveDone(s) \/ ReceiveError(s)

Init ==
    /\ PoolInit
    /\ prod = [s \in Stream |-> "idle"]
    /\ left = [s \in Stream |-> 0]
    /\ got = [s \in Stream |-> 0]
    /\ complete = [s \in Stream |-> FALSE]
    /\ backend = [s \in Stream |-> "none"]
    /\ reader = [s \in Stream |-> "idle"]
    /\ cancelled = [s \in Stream |-> FALSE]
    /\ written = [s \in Stream |-> 0]
    /\ gone = [s \in Stream |-> FALSE]
    /\ slot = [s \in Stream |-> None]
    /\ metered = [s \in Stream |-> "no"]
    /\ stored = [s \in Stream |-> FALSE]
    /\ cache = [k \in Key |-> "none"]

Next ==
    \/ \E s \in Stream :
         \/ OpenHit(s) \/ \E a \in Account : OpenMiss(s, a)
         \/ ClientLeaves(s) \/ NoticeGone(s) \/ StopReading(s)
         \/ Producer(s) \/ BackendCloses(s) \/ BackendBreaks(s) \/ NextRequest(s)
    \/ \E k \in Key : Evict(k)
    \/ (CooldownTick \/ \E a \in Administered, on \in BOOLEAN : SetEnabled(a, on)) /\ UNCHANGED streamVars

Spec == Init /\ [][Next]_vars

(* Goroutines that can run do; net/http notices a client that left; a       *)
(* backend heeds a cancelled context and closes after its terminal item.    *)
(* Nothing makes a backend send its items.                                  *)
FairSpec ==
    /\ Spec
    /\ \A s \in Stream :
         /\ WF_vars(Send(s) \/ Abandon(s) \/ Advance(s) \/ Call(s) \/ EndOfItems(s) \/ Record(s) \/ Fail(s))
         /\ WF_vars(NoticeGone(s)) /\ WF_vars(StopReading(s)) /\ WF_vars(BackendCloses(s))
         /\ WF_vars(NextRequest(s))

-----------------------------------------------------------------------------
StreamsOn(a) == {s \in Stream : slot[s] = a}

(* An account's InFlight is the number of streams that hold one of its      *)
(* slots, whoever leaves and in whatever order the two goroutines stop.     *)
SlotsAccounted == \A a \in Account : inFlight[a] = Cardinality(StreamsOn(a))

(* A producer that has returned has given its slot back, as the deferred    *)
(* account.Release() is there to ensure, unless it is a Responses stream    *)
(* whose client left before it took both opening events.                    *)
LeftWhileOpening(s) == Handler[s] = "responses" /\ cancelled[s] /\ written[s] < 2
LeakOnlyWhileOpening ==
    \A s \in Stream : prod[s] = "exited" /\ slot[s] # None => LeftWhileOpening(s)

(* No stream leaks the slot of its account: once its producer has returned, *)
(* the slot is free.                                                        *)
SlotFreedOnExit == \A s \in Stream : prod[s] = "exited" => slot[s] = None

(* A stream that is reported as served (metered as a success or a hit, or   *)
(* kept for GET /v1/responses) had every one of its chunks taken by the     *)
(* handler, the terminal event included.                                    *)
ChunksOf(s) ==
    OpeningChunks(s) + ClosingChunks(s)
        + IF Handler[s] = "chat" /\ metered[s] = "success" THEN got[s] ELSE 1

ServedMeansDelivered ==
    \A s \in Stream :
        metered[s] \in {"success", "hit"} \/ stored[s] => written[s] = ChunksOf(s)

(* An answer without its terminal item enters the cache only by a stream    *)
(* whose client disconnected or whose prompt could not be sent, the two     *)
(* ways a channel ends early: a backend that reports a failure, at the call *)
(* or in the middle of the answer, never leaves what it sent in the cache.  *)
TruncatedOnlyWhenBrokenOff ==
    [][\A k \in Key :
        cache[k] # "partial" /\ cache'[k] = "partial" =>
            \E s \in Stream :
                /\ KeyOf[s] = k /\ prod[s] = "recording"
                /\ cancelled[s] \/ backend[s] = "broken"]_vars

(* Once a stream's client has left, its slot comes back, whatever the       *)
(* backend was doing: no backend is waited for beyond that.  (A Responses    *)
(* stream left while opening is the exception, as above.)                    *)
GoneClientFreesSlot == \A s \in Stream : gone[s] ~> slot[s] = None \/ LeftWhileOpening(s)

=============================================================================
