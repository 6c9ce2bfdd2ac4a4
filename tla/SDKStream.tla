------------------------------- MODULE SDKStream -------------------------------
(***************************************************************************)
(* A streamed turn of the Copilot backend: chatStreamSDK (copilot_http.go),*)
(* streamSDKSession, sdkStreamReducer and applyStreamOutputConstraints     *)
(* (copilot_sdk_stream.go).                                                *)
(*                                                                         *)
(* The SDK calls handleEvent on a goroutine of its own, one event at a     *)
(* time; the session goroutine calls it as well when Send fails.  Items go *)
(* through the unbuffered channel raw to the filter goroutine and through  *)
(* out to the consumer.  A third goroutine waits for tool calls to settle  *)
(* and aborts the session.  Unsubscribing does not wait for a callback     *)
(* that the SDK has already entered, and a send on a closed channel panics;*)
(* what the SDK does with the panic is not modelled, the callback is over. *)
(*                                                                         *)
(* Of the texts only what the filter decides is kept: whether a delta has  *)
(* visible text left and whether a stop sequence or max_tokens cuts there. *)
(* Usage is left out.                                                      *)
(***************************************************************************)
EXTENDS Naturals, SequencesExt

CONSTANTS
    Tool,        \* ids of tool calls
    Internal,    \* those of the SDK's own web tools
    MaxEvents,   \* bound on the events of one session
    MaxTools,    \* bound on the tool requests of one message
    None

ASSUME StreamAssumption ==
    /\ IsFiniteSet(Tool) /\ Internal \subseteq Tool
    /\ MaxEvents \in Nat /\ MaxTools \in Nat

VARIABLES
    sdkEvents,   \* events the SDK has raised
    callback,    \* per caller of handleEvent: the call in progress
    terminated,  \* the reducer has seen the end
    sawDelta,    \* reducer.sawAssistantDelta
    calls,       \* reducer.toolCalls
    toolSignal,  \* toolCh holds a signal
    doneClosed,  \* doneCh is closed
    session,     \* where the session goroutine is
    rawClosed,   \* raw is closed
    timer,       \* where the settling goroutine is
    filter,      \* where the filter goroutine is
    carry,       \* the item the filter is sending
    cut,         \* the finish reason of a local cut
    toolSeen,    \* the filter has passed a tool call
    delivered,   \* items the consumer has received
    consumer,    \* "reading" or "left"
    cancelled,   \* ctx is done
    sendFailed,  \* session.Send returned an error
    panicked     \* handleEvent has sent on the closed channel

sessionVars == <<session, rawClosed, timer, sendFailed>>
reducer == <<terminated, sawDelta, calls>>
signals == <<toolSignal, doneClosed>>
filterVars == <<filter, carry, cut, toolSeen>>
client == <<consumer, cancelled>>
vars == <<sdkEvents, callback, reducer, signals, sessionVars, filterVars, delivered, client, panicked>>

Caller == {"sdk", "session"}
NoCall == [stage |-> "none"]

Items == INSTANCE ItemStream WITH
             closed <- filter = "closed", broken <- cancelled \/ sendFailed

Delta == Items!Delta
Error == Items!Error

Event ==
    [type : {"delta", "idle", "error"}]
    \cup [type : {"message"}, content : BOOLEAN, tools : UNION {[1..n -> Tool] : n \in 0..MaxTools}]
    \cup [type : {"external"}, tools : [{1} -> Tool]]

-----------------------------------------------------------------------------
(* sdkStreamReducer *)

(* Mutant: every request for a tool is a new call.                          *)
AddCallAgain(list, t) == IF t \in Internal THEN list ELSE Append(list, t)

AddCall(list, t) == IF t \in Internal \cup ToSet(list) THEN list ELSE Append(list, t)

CallsWith(tools) == FoldLeft(AddCall, calls, tools)

ToolItems(tools) ==
    LET all == CallsWith(tools)
    IN  [i \in 1..Len(all) - Len(calls) |->
            Items!ToolCall(all[Len(calls) + i], Len(calls) + i - 1)]

DoneReason == IF calls # <<>> THEN "tool_calls" ELSE "stop"

Terminal(e) == e.type \in {"idle", "error"}

Reduce(e) ==
    CASE e.type = "delta"    -> <<Delta>>
      [] e.type = "message"  -> (IF e.content /\ ~sawDelta THEN <<Delta>> ELSE <<>>)
                                \o ToolItems(e.tools)
      [] e.type = "external" -> ToolItems(e.tools)
      [] e.type = "idle"     -> <<Items!Done(DoneReason)>>
      [] e.type = "error"    -> <<Error>>

ReducerStep(e) ==
    /\ terminated' = Terminal(e)
    /\ sawDelta' = (sawDelta \/ e.type = "delta" \/ (e.type = "message" /\ e.content))
    /\ calls' = IF e.type \in {"message", "external"} THEN CallsWith(e.tools) ELSE calls

-----------------------------------------------------------------------------
(* applyStreamOutputConstraints: what the filter does with an item of raw.  *)

Carry(item) == filter' = "sending" /\ carry' = item

(* A delta is passed whole, cut and passed, or cut away; after a tool call  *)
(* deltas are not looked at any more.                                       *)
ReceiveDelta ==
    /\ UNCHANGED toolSeen
    /\ \/ Carry(Delta) /\ UNCHANGED cut
       \/ /\ ~toolSeen
          /\ \E finish \in {"stop", "length"} : cut' = finish
          /\ Carry(Delta) \/ (filter' = "draining" /\ UNCHANGED carry)

(* Mutant: raw is left unread after a local cut.                            *)
ReceiveUndrained(item) ==
    /\ filter = "reading"
    /\ CASE item.kind = "delta"     -> ReceiveDelta
         [] item.kind = "tool_call" -> toolSeen' = TRUE /\ Carry(item) /\ UNCHANGED cut
         [] OTHER                   -> Carry(item) /\ UNCHANGED <<cut, toolSeen>>

Receive(item) ==
    \/ filter = "draining" /\ UNCHANGED filterVars
    \/ /\ filter = "reading"
       /\ CASE item.kind = "delta"     -> ReceiveDelta
            [] item.kind = "tool_call" -> toolSeen' = TRUE /\ Carry(item) /\ UNCHANGED cut
            [] OTHER                   -> Carry(item) /\ UNCHANGED <<cut, toolSeen>>

-----------------------------------------------------------------------------
(* handleEvent *)

Call(who, c) == callback' = [callback EXCEPT ![who] = c]

Emitting(e) ==
    [stage |-> "emitting", items |-> Reduce(e), terminal |-> Terminal(e),
     tool |-> \E i \in DOMAIN Reduce(e) : Reduce(e)[i].kind = "tool_call"]

Subscribed == session \in {"sending", "waiting"}

(* The SDK has taken the handler and calls it.                              *)
Raise(e) ==
    /\ Subscribed /\ callback["sdk"] = NoCall /\ sdkEvents < MaxEvents
    /\ sdkEvents' = sdkEvents + 1
    /\ Call("sdk", [stage |-> "entered", event |-> e])
    /\ UNCHANGED <<reducer, signals, sessionVars, filterVars, delivered, client, panicked>>

(* Mutant: the end is signalled before it is sent.                          *)
HandleSignallingFirst(who) ==
    /\ callback[who].stage = "entered"
    /\ IF terminated
       THEN Call(who, NoCall) /\ UNCHANGED <<reducer, doneClosed>>
       ELSE /\ Call(who, Emitting(callback[who].event))
            /\ ReducerStep(callback[who].event)
            /\ doneClosed' = (doneClosed \/ Terminal(callback[who].event))
    /\ UNCHANGED <<sdkEvents, toolSignal, sessionVars, filterVars, delivered, client, panicked>>

(* The locked part: after the end of the turn events are ignored.           *)
Handle(who) ==
    /\ callback[who].stage = "entered"
    /\ IF terminated
       THEN Call(who, NoCall) /\ UNCHANGED reducer
       ELSE Call(who, Emitting(callback[who].event)) /\ ReducerStep(callback[who].event)
    /\ UNCHANGED <<sdkEvents, signals, sessionVars, filterVars, delivered, client, panicked>>

Sending(who) == callback[who].stage = "emitting" /\ callback[who].items # <<>>

(* emitStreamItem on raw: the filter takes the item, the context is done, or*)
(* raw is closed.                                                           *)
Emit(who) ==
    /\ Sending(who) /\ ~rawClosed
    /\ Receive(Head(callback[who].items))
    /\ Call(who, [callback[who] EXCEPT !.items = Tail(@)])
    /\ UNCHANGED <<sdkEvents, reducer, signals, sessionVars, delivered, client, panicked>>

GiveUp(who) ==
    /\ Sending(who) /\ cancelled
    /\ Call(who, NoCall)
    /\ UNCHANGED <<sdkEvents, reducer, signals, sessionVars, filterVars, delivered, client, panicked>>

Panic(who) ==
    /\ Sending(who) /\ rawClosed
    /\ panicked' = TRUE
    /\ Call(who, NoCall)
    /\ UNCHANGED <<sdkEvents, reducer, signals, sessionVars, filterVars, delivered, client>>

Return(who) ==
    /\ callback[who].stage = "emitting" /\ callback[who].items = <<>>
    /\ toolSignal' = (toolSignal \/ callback[who].tool)
    /\ doneClosed' = (doneClosed \/ callback[who].terminal)
    /\ Call(who, NoCall)
    /\ UNCHANGED <<sdkEvents, reducer, sessionVars, filterVars, delivered, client, panicked>>

-----------------------------------------------------------------------------
(* The session goroutine: chatStreamSDK and streamSDKSession. *)

(* Client and session exist, the settling goroutine runs, and handleEvent   *)
(* is subscribed.                                                           *)
Open ==
    /\ session = "opening"
    /\ session' = "sending" /\ timer' = "waiting"
    /\ UNCHANGED <<sdkEvents, callback, reducer, signals, rawClosed, sendFailed, filterVars, delivered, client, panicked>>

OpenFails ==
    /\ session = "opening"
    /\ session' = "handling"
    /\ Call("session", [stage |-> "emitting", items |-> <<Error>>, terminal |-> FALSE, tool |-> FALSE])
    /\ UNCHANGED <<sdkEvents, reducer, signals, rawClosed, timer, sendFailed, filterVars, delivered, client, panicked>>

Sent ==
    /\ session = "sending"
    /\ session' = "waiting"
    /\ UNCHANGED <<sdkEvents, callback, reducer, signals, rawClosed, timer, sendFailed, filterVars, delivered, client, panicked>>

SendFails ==
    /\ session = "sending"
    /\ session' = "handling" /\ sendFailed' = TRUE
    /\ Call("session", [stage |-> "entered", event |-> [type |-> "error"]])
    /\ UNCHANGED <<sdkEvents, reducer, signals, rawClosed, timer, filterVars, delivered, client, panicked>>

Waited ==
    /\ \/ session = "waiting" /\ (doneClosed \/ cancelled)
       \/ session = "handling" /\ callback["session"] = NoCall
    /\ session' = "closing"
    /\ UNCHANGED <<sdkEvents, callback, reducer, signals, rawClosed, timer, sendFailed, filterVars, delivered, client, panicked>>

(* Unsubscribed, disconnected: close(raw) comes last.                       *)
CloseRaw ==
    /\ session = "closing"
    /\ session' = "closed" /\ rawClosed' = TRUE
    /\ UNCHANGED <<sdkEvents, callback, reducer, signals, timer, sendFailed, filterVars, delivered, client, panicked>>

(* The settling goroutine. *)
Settle ==
    /\ \/ /\ timer \in {"waiting", "armed"} /\ toolSignal
          /\ timer' = "armed" /\ toolSignal' = FALSE
       \/ /\ timer = "armed"
          /\ timer' = "aborted" /\ UNCHANGED toolSignal
       \/ /\ timer \in {"waiting", "armed"} /\ (doneClosed \/ cancelled)
          /\ timer' = "stopped" /\ UNCHANGED toolSignal
    /\ UNCHANGED <<sdkEvents, callback, reducer, doneClosed, session, rawClosed, sendFailed, filterVars, delivered, client, panicked>>

-----------------------------------------------------------------------------
(* The rest of the filter, and the consumer. *)

(* The consumer takes the item from out.                                    *)
Forward ==
    /\ filter = "sending" /\ consumer = "reading"
    /\ delivered' = Append(delivered, carry)
    /\ carry' = None
    /\ filter' = IF carry.kind \in {"done", "error"} THEN "finished"
                 ELSE IF cut # "no" THEN "draining" ELSE "reading"
    /\ UNCHANGED <<sdkEvents, callback, reducer, signals, sessionVars, cut, toolSeen, client, panicked>>

ForwardFails ==
    /\ filter = "sending" /\ cancelled
    /\ carry' = None /\ cut' = "no"
    /\ filter' = IF carry.kind \in {"done", "error"} THEN "finished" ELSE "draining"
    /\ UNCHANGED <<sdkEvents, callback, reducer, signals, sessionVars, toolSeen, delivered, client, panicked>>

(* raw is closed: after a local cut the terminal item is sent now.          *)
EndOfRaw ==
    /\ rawClosed /\ filter \in {"reading", "draining"}
    /\ IF cut = "no"
       THEN filter' = "closed" /\ UNCHANGED carry
       ELSE filter' = "sending" /\ carry' = Items!Done(cut)
    /\ UNCHANGED <<sdkEvents, callback, reducer, signals, sessionVars, cut, toolSeen, delivered, client, panicked>>

CloseOut ==
    /\ filter = "finished"
    /\ filter' = "closed"
    /\ UNCHANGED <<sdkEvents, callback, reducer, signals, sessionVars, carry, cut, toolSeen, delivered, client, panicked>>

Cancel ==
    /\ ~cancelled
    /\ cancelled' = TRUE
    /\ UNCHANGED <<sdkEvents, callback, reducer, signals, sessionVars, filterVars, delivered, consumer, panicked>>

StopReading ==
    /\ cancelled /\ consumer = "reading"
    /\ consumer' = "left"
    /\ UNCHANGED <<sdkEvents, callback, reducer, signals, sessionVars, filterVars, delivered, cancelled, panicked>>

-----------------------------------------------------------------------------
Goroutines ==
    \/ \E who \in Caller : Handle(who) \/ Emit(who) \/ GiveUp(who) \/ Panic(who) \/ Return(who)
    \/ Open \/ OpenFails \/ Sent \/ SendFails \/ Waited \/ CloseRaw
    \/ Settle \/ Forward \/ ForwardFails \/ EndOfRaw \/ CloseOut

Init ==
    /\ sdkEvents = 0 /\ callback = [who \in Caller |-> NoCall]
    /\ terminated = FALSE /\ sawDelta = FALSE /\ calls = <<>>
    /\ toolSignal = FALSE /\ doneClosed = FALSE
    /\ session = "opening" /\ rawClosed = FALSE /\ timer = "stopped" /\ sendFailed = FALSE
    /\ filter = "reading" /\ carry = None /\ cut = "no" /\ toolSeen = FALSE
    /\ delivered = <<>> /\ consumer = "reading" /\ cancelled = FALSE /\ panicked = FALSE

Next ==
    \/ Goroutines \/ Cancel \/ StopReading \/ \E e \in Event : Raise(e)

Spec == Init /\ [][Next]_vars

(* Every goroutine that can go on does, opening and sending return, and a   *)
(* consumer that reads takes what is sent.  The SDK owes no event, and      *)
(* nobody has to cancel.                                                    *)
FairSpec ==
    /\ Spec
    /\ \A who \in Caller :
         WF_vars(Handle(who) \/ Emit(who) \/ GiveUp(who) \/ Panic(who) \/ Return(who))
    /\ WF_vars(Open \/ OpenFails \/ Sent \/ SendFails \/ Waited \/ CloseRaw)
    /\ WF_vars(Settle)
    /\ WF_vars(Forward \/ ForwardFails \/ EndOfRaw \/ CloseOut)

-----------------------------------------------------------------------------
(* The consumer sees what ChatStream promises: every tool call once and in  *)
(* order, one terminal item that says whether there were any, nothing after *)
(* it, and no early end of the channel unless the client left or the prompt *)
(* could not be sent.                                                       *)
ImplementsItemStream == Items!Spec

(* raw is closed under a callback that still has items only when the client *)
(* left or the prompt could not be sent; an ordinary turn never panics.     *)
PanicOnlyAfterCancelOrSendError == panicked => cancelled \/ sendFailed

Over == session = "closed" /\ filter = "closed" /\ timer \in {"aborted", "stopped"}

(* Nobody is left blocked on a channel: the SDK's goroutine always comes    *)
(* back from handleEvent, whatever events follow the end of the turn or a   *)
(* local cut, and after a cancellation all four goroutines end.             *)
NobodyStaysBlocked ==
    /\ callback["sdk"] # NoCall ~> callback["sdk"] = NoCall
    /\ cancelled ~> Over

(* docs/fix-sdk-timeout-hang.md: "All SDK requests now have a guaranteed    *)
(* maximum timeout": a turn that waits for the SDK ends, whatever it does.  *)
TurnEnds == session = "waiting" ~> session = "closed"
=============================================================================
