---------------------------- MODULE SDKStreamProofs ----------------------------
(***************************************************************************)
(* What holds of SDKStream for any events, tools and number of them.       *)
(***************************************************************************)
EXTENDS SDKStream, SequenceLemmas

(* A call of handleEvent, as far as the session depends on it.              *)
CallTypes ==
    /\ DOMAIN callback = Caller /\ callback = [who \in Caller |-> callback[who]]
    /\ \A who \in Caller :
          /\ callback[who] = NoCall \/ callback[who].stage \in {"entered", "emitting"}
          /\ callback[who].stage = "emitting" =>
                callback[who] = [stage |-> "emitting", items |-> callback[who].items,
                                 terminal |-> callback[who].terminal, tool |-> callback[who].tool]

(* An ordinary turn: once its end has been signalled, or the session is     *)
(* being closed, no callback has items left to send, and one that comes     *)
(* late finds the turn terminated.                                          *)
Quiet ==
    /\ callback["sdk"].stage # "emitting"
    /\ callback["sdk"].stage = "entered" => terminated

OrdinaryTurn ==
    /\ callback["sdk"].stage = "emitting" /\ callback["sdk"].terminal => terminated
    /\ doneClosed => terminated /\ Quiet
    /\ session = "opening" => callback["sdk"] = NoCall
    /\ session = "handling" =>
          /\ callback["sdk"] = NoCall
          /\ callback["session"] # NoCall => callback["session"].stage = "emitting" /\ ~callback["session"].terminal
    /\ session # "handling" => callback["session"] = NoCall
    /\ session \in {"closing", "closed"} => Quiet

Interrupted == cancelled \/ sendFailed

JInv ==
    /\ CallTypes
    /\ rawClosed => session = "closed"
    /\ panicked => Interrupted
    /\ ~Interrupted => OrdinaryTurn

(* Init establishes the invariant.                                          *)
LEMMA InitJInv == Init => JInv
BY DEF Init, JInv, CallTypes, OrdinaryTurn, Quiet, Interrupted, NoCall, Caller

(* handleEvent keeps the invariant.                                         *)
LEMMA HandlingKeeps ==
    ASSUME JInv, NEW who \in Caller,
           Handle(who) \/ Emit(who) \/ GiveUp(who) \/ Panic(who) \/ Return(who)
    PROVE  JInv'
<1> USE DEF JInv, CallTypes, Interrupted, OrdinaryTurn, Quiet, NoCall, Caller, Call, sessionVars, client, signals, reducer
<1>1. CASE Handle(who)
  <2>1. UNCHANGED <<doneClosed, session, rawClosed, sendFailed, cancelled, panicked>> /\ callback[who].stage = "entered"
    BY <1>1 DEF Handle
  <2>2. CASE terminated
    <3>1. callback' = [callback EXCEPT ![who] = NoCall] /\ terminated' = terminated
      BY <1>1, <2>2 DEF Handle
    <3> QED
      BY <2>1, <2>2, <3>1
  <2>3. CASE ~terminated
    <3> DEFINE e == callback[who].event
    <3>1. callback' = [callback EXCEPT ![who] = Emitting(e)] /\ terminated' = Terminal(e)
      BY <1>1, <2>3 DEF Handle, ReducerStep
    <3>2. /\ Emitting(e).stage = "emitting" /\ Emitting(e).terminal = Terminal(e)
          /\ Emitting(e) = [stage |-> "emitting", items |-> Emitting(e).items,
                            terminal |-> Emitting(e).terminal, tool |-> Emitting(e).tool]
      BY DEF Emitting
    <3> DEFINE c == Emitting(e)
    <3> HIDE DEF e, c
    <3>3. callback' = [callback EXCEPT ![who] = c] /\ c.stage = "emitting" /\ c.terminal = Terminal(e)
      BY <3>1, <3>2 DEF c
    <3>4. c = [stage |-> "emitting", items |-> c.items, terminal |-> c.terminal, tool |-> c.tool]
      BY <3>2 DEF c
    <3>5. CallTypes'
      BY <3>3, <3>4
    <3>6. ASSUME ~Interrupted'
          PROVE  OrdinaryTurn'
      <4>1. ~Interrupted /\ OrdinaryTurn
        BY <2>1, <3>6
      <4>2. who = "sdk"
        BY <2>1, <4>1
      <4>3. callback'["sdk"] = c /\ callback'["session"] = callback["session"]
        BY <3>3, <4>2
      <4>4. ~doneClosed /\ session \notin {"opening", "handling", "closing", "closed"}
        BY <2>1, <2>3, <4>1, <4>2
      <4> QED
        BY <2>1, <3>1, <3>3, <4>1, <4>3, <4>4
    <3> QED
      BY <2>1, <3>5, <3>6
  <2> QED
    BY <2>2, <2>3
<1>2. CASE Emit(who)
  <2>1. /\ callback[who].stage = "emitting"
        /\ callback' = [callback EXCEPT ![who] = [callback[who] EXCEPT !.items = Tail(@)]]
        /\ UNCHANGED <<terminated, doneClosed, session, rawClosed, sendFailed, cancelled, panicked>>
    BY <1>2 DEF Emit, Sending
  <2> DEFINE c == [callback[who] EXCEPT !.items = Tail(@)]
  <2>2. c = [stage |-> "emitting", items |-> Tail(callback[who].items),
             terminal |-> callback[who].terminal, tool |-> callback[who].tool]
    <3> DEFINE old == callback[who]
               rest == Tail(old.items)
    <3>1. old = [stage |-> "emitting", items |-> old.items, terminal |-> old.terminal, tool |-> old.tool]
      BY <2>1
    <3>2. c = [old EXCEPT !.items = rest]
      OBVIOUS
    <3> HIDE DEF rest, c, old
    <3>3. c = [stage |-> "emitting", items |-> rest, terminal |-> old.terminal, tool |-> old.tool]
      BY <3>1, <3>2
    <3> QED
      BY <3>3 DEF old, rest
  <2>3. /\ c = [stage |-> "emitting", items |-> c.items, terminal |-> c.terminal, tool |-> c.tool]
        /\ c.stage = "emitting" /\ c.terminal = callback[who].terminal
    BY <2>2
  <2>4. callback' = [callback EXCEPT ![who] = c]
    BY <2>1
  <2> HIDE DEF c
  <2>5. CallTypes'
    BY <2>3, <2>4
  <2>6. ASSUME ~Interrupted'
        PROVE  OrdinaryTurn'
    <3>1. \A v \in Caller : \/ callback'[v] = callback[v]
                            \/ /\ callback'[v].stage = "emitting" /\ callback[v].stage = "emitting"
                               /\ callback'[v].terminal = callback[v].terminal
      BY <2>1, <2>3, <2>4
    <3>2. callback'["sdk"] = NoCall <=> callback["sdk"] = NoCall
      BY <3>1
    <3>3. callback'["session"] = NoCall <=> callback["session"] = NoCall
      BY <3>1
    <3> QED
      BY <2>1, <2>6, <3>1, <3>2, <3>3
  <2> QED
    BY <2>1, <2>5, <2>6
<1>3. CASE GiveUp(who)
  BY <1>3 DEF GiveUp
<1>4. CASE Panic(who)
  <2>1. /\ callback[who].stage = "emitting" /\ rawClosed /\ panicked'
        /\ callback' = [callback EXCEPT ![who] = NoCall]
        /\ UNCHANGED <<terminated, doneClosed, session, rawClosed, sendFailed, cancelled>>
    BY <1>4 DEF Panic, Sending
  <2>2. Interrupted
    BY <2>1
  <2> QED
    BY <2>1, <2>2
<1>5. CASE Return(who)
  <2>1. /\ callback[who].stage = "emitting" /\ callback' = [callback EXCEPT ![who] = NoCall]
        /\ doneClosed' = (doneClosed \/ callback[who].terminal)
        /\ UNCHANGED <<terminated, session, rawClosed, sendFailed, cancelled, panicked>>
    BY <1>5 DEF Return
  <2>2. CallTypes'
    BY <2>1
  <2>3. ASSUME ~Interrupted'
        PROVE  OrdinaryTurn'
    <3>1. CASE who = "sdk"
      <4>1. callback'["sdk"] = NoCall /\ callback'["session"] = callback["session"]
        BY <2>1, <3>1
      <4>2. doneClosed' => terminated
        BY <2>1, <2>3, <3>1
      <4> QED
        BY <2>1, <2>3, <4>1, <4>2
    <3>2. CASE who = "session"
      <4>1. callback'["session"] = NoCall /\ callback'["sdk"] = callback["sdk"]
        BY <2>1, <3>2
      <4>2. session = "handling" /\ ~callback["session"].terminal
        BY <2>1, <2>3, <3>2
      <4>3. doneClosed' => doneClosed
        BY <2>1, <3>2, <4>2
      <4> QED
        BY <2>1, <2>3, <4>1, <4>3
    <3> QED
      BY <3>1, <3>2
  <2> QED
    BY <2>1, <2>2, <2>3
<1> QED
  BY <1>1, <1>2, <1>3, <1>4, <1>5

(* So does the session goroutine, which opens, sends, waits and closes.     *)
LEMMA SessionKeeps ==
    ASSUME JInv, Open \/ OpenFails \/ Sent \/ SendFails \/ Waited \/ CloseRaw
    PROVE  JInv'
<1> USE DEF JInv, CallTypes, Interrupted, OrdinaryTurn, Quiet, NoCall, Caller, Call, client, signals, reducer
<1>1. CASE Open
  BY <1>1 DEF Open
<1>2. CASE OpenFails
  BY <1>2 DEF OpenFails
<1>3. CASE Sent
  BY <1>3 DEF Sent
<1>4. CASE SendFails
  BY <1>4 DEF SendFails
<1>5. CASE Waited
  BY <1>5 DEF Waited
<1>6. CASE CloseRaw
  BY <1>6 DEF CloseRaw
<1> QED
  BY <1>1, <1>2, <1>3, <1>4, <1>5, <1>6

(* The others do not touch what the invariant is about, but to interrupt.   *)
LEMMA OthersKeep ==
    ASSUME JInv,
           \/ Settle \/ Forward \/ ForwardFails \/ EndOfRaw \/ CloseOut \/ Cancel \/ StopReading
           \/ UNCHANGED vars \/ \E e \in Event : Raise(e)
    PROVE  JInv'
<1> USE DEF JInv, CallTypes, Interrupted, OrdinaryTurn, Quiet, NoCall, Caller, Call, client, signals, reducer, sessionVars
<1>1. CASE \/ Settle \/ Forward \/ ForwardFails \/ EndOfRaw \/ CloseOut \/ StopReading \/ UNCHANGED vars
  <2>1. UNCHANGED <<callback, terminated, doneClosed, session, rawClosed, sendFailed, cancelled, panicked>>
    BY <1>1 DEF Settle, Forward, ForwardFails, EndOfRaw, CloseOut, StopReading, vars
  <2> QED
    BY <2>1
<1>2. CASE Cancel
  BY <1>2 DEF Cancel
<1>3. ASSUME NEW e \in Event, Raise(e)
      PROVE  JInv'
  <2>1. /\ session \in {"sending", "waiting"} /\ callback["sdk"] = NoCall
        /\ callback' = [callback EXCEPT !["sdk"] = [stage |-> "entered", event |-> e]]
        /\ UNCHANGED <<terminated, doneClosed, session, rawClosed, sendFailed, cancelled, panicked>>
    BY <1>3 DEF Raise, Subscribed
  <2> QED
    BY <2>1
<1> QED
  BY <1>1, <1>2, <1>3

(* A send on the closed channel needs a client that left or a prompt that   *)
(* could not be sent (streamSDKSession, emitStreamItem).                    *)
THEOREM OrdinaryTurnNeverPanics == Spec => []PanicOnlyAfterCancelOrSendError
<1>1. JInv /\ [Next]_vars => JInv'
  BY HandlingKeeps, SessionKeeps, OthersKeep DEF Next, Goroutines
<1>2. JInv => PanicOnlyAfterCancelOrSendError
  BY DEF JInv, Interrupted, PanicOnlyAfterCancelOrSendError
<1> QED
  BY <1>1, <1>2, InitJInv, PTL DEF Spec
-----------------------------------------------------------------------------
(* What the consumer sees is what ChatStream promises.                      *)

(* What the consumer may be sent.                                           *)
Item ==
    {Delta, Error}
    \cup [kind : {"tool_call"}, tool : Tool, index : Nat]
    \cup [kind : {"done"}, finish : {"stop", "length", "tool_calls"}]

IsTool(item) == item.kind = "tool_call"
IsEnd(item) == item.kind \in {"done", "error"}

(* An item for one of the calls, under its number.                          *)
Numbered(item, cs) ==
    /\ item.index \in 0..(Len(cs) - 1)
    /\ item = Items!ToolCall(cs[item.index + 1], item.index)

(* What a callback of the SDK has left: the end of the turn, or a delta and *)
(* the items of the last calls.                                             *)
LeftBySDK(q, terminal, cs) ==
    /\ q \in Seq(Item)
    /\ IF terminal
       THEN q \in {<<>>, <<Error>>, <<Items!Done(IF cs # <<>> THEN "tool_calls" ELSE "stop")>>}
       ELSE \A i \in 1..Len(q) :
               \/ i = 1 /\ q[i] = Delta
               \/ Numbered(q[i], cs) /\ q[i].index = (Len(cs) - Len(q)) + (i - 1)

(* How many of the calls have gone into raw, or are lost.                   *)
Emitted(c, cs) ==
    IF c.stage # "emitting" \/ c.terminal \/ c.items = <<>> THEN Len(cs)
    ELSE IF c.items[1] = Delta THEN (Len(cs) - Len(c.items)) + 1
    ELSE Len(cs) - Len(c.items)

SDK == callback["sdk"]
Own == callback["session"]

HandlingInv ==
    /\ calls \in Seq(Tool) /\ Distinct(calls)
    /\ SDK.stage = "entered" => SDK.event \in Event
    /\ SDK.stage = "emitting" => SDK.terminal \in BOOLEAN /\ LeftBySDK(SDK.items, SDK.terminal, calls)
    /\ SDK.stage = "emitting" /\ SDK.terminal => terminated
    /\ Own.stage = "entered" => Own.event = [type |-> "error"]
    /\ Own.stage = "emitting" => Own.items \in {<<>>, <<Error>>}

Carrying == filter = "sending"

(* Tool calls come in the order of their numbers.                           *)
OrderInv ==
    /\ \A i \in Items!ToolCalls(delivered) :
          /\ Numbered(delivered[i], calls) /\ delivered[i].index < Emitted(SDK, calls)
          /\ Carrying /\ IsTool(carry) => delivered[i].index < carry.index
    /\ Carrying /\ IsTool(carry) => Numbered(carry, calls) /\ carry.index < Emitted(SDK, calls)

FilterInv ==
    /\ filter \in {"reading", "sending", "draining", "finished", "closed"}
    /\ cut \in {"no", "stop", "length"} /\ toolSeen \in BOOLEAN
    /\ delivered \in Seq(Item)
    /\ Carrying => carry \in Item
    /\ cut # "no" => ~toolSeen /\ filter # "reading"
    /\ ~toolSeen => Items!ToolCalls(delivered) = {} /\ ~(Carrying /\ IsTool(carry))
    /\ Items!Ended => filter \in {"finished", "closed"}
    /\ filter = "finished" => Items!Ended \/ Interrupted

(* The end of the turn has gone into raw, or the filter has cut before it.  *)
EndPassed == filter \in {"finished", "closed"} \/ cut # "no" \/ (Carrying /\ IsEnd(carry))

(* Until the client leaves or the prompt fails to be sent, every call that  *)
(* was emitted is delivered or carried, and whoever has seen the end of the *)
(* turn has passed it on.                                                   *)
WholeInv ==
    /\ filter = "draining" => cut # "no"
    /\ cut = "no" =>
          Emitted(SDK, calls) =
             Cardinality(Items!ToolCalls(delivered)) + (IF Carrying /\ IsTool(carry) THEN 1 ELSE 0)
    /\ Carrying /\ IsTool(carry) => carry.index = Cardinality(Items!ToolCalls(delivered))
    /\ Carrying /\ carry.kind = "done" =>
          (carry.finish = "tool_calls" <=> Items!ToolCalls(delivered) # {})
    /\ doneClosed => EndPassed
    /\ session \in {"closing", "closed"} => EndPassed
    /\ session = "handling" /\ Own = NoCall => EndPassed
    /\ SDK.stage = "emitting" /\ SDK.terminal /\ SDK.items = <<>> => EndPassed
    /\ Own.stage = "emitting" /\ Own.items = <<>> => EndPassed

TurnInv ==
    /\ JInv /\ HandlingInv /\ OrderInv /\ FilterInv
    /\ ~Interrupted => WholeInv

-----------------------------------------------------------------------------
(* Items, and sequences of them.                                            *)

(* Items tell what they are.                                                *)
LEMMA ItemKinds ==
    /\ Delta \in Item /\ ~IsTool(Delta) /\ ~IsEnd(Delta) /\ Delta.kind = "delta"
    /\ Error \in Item /\ ~IsTool(Error) /\ IsEnd(Error) /\ Error.kind = "error"
    /\ \A f \in {"stop", "length", "tool_calls"} :
          /\ Items!Done(f) \in Item /\ ~IsTool(Items!Done(f)) /\ IsEnd(Items!Done(f))
          /\ Items!Done(f).kind = "done" /\ Items!Done(f).finish = f
    /\ \A x \in Item : /\ x.kind \in {"delta", "tool_call", "done", "error"}
                       /\ x.kind = "delta" => x = Delta
                       /\ x.kind = "error" => x = Error
                       /\ x.kind = "done" => \E f \in {"stop", "length", "tool_calls"} : x = Items!Done(f)
    /\ \A cs \in Seq(Tool) : \A x : Numbered(x, cs) => x \in Item /\ IsTool(x) /\ ~IsEnd(x)
<1> USE DEF Delta, Items!Delta, Error, Items!Error, Items!Done
<1>1. ASSUME NEW cs \in Seq(Tool), NEW x, Numbered(x, cs)
      PROVE  x \in Item /\ IsTool(x) /\ ~IsEnd(x)
  <2> DEFINE n == x.index
  <2>1. n \in 0..(Len(cs) - 1) /\ x = Items!ToolCall(cs[n + 1], n)
    BY <1>1 DEF Numbered
  <2> HIDE DEF n
  <2>2. n \in Nat /\ cs[n + 1] \in Tool
    BY <2>1
  <2>3. x = [kind |-> "tool_call", tool |-> cs[n + 1], index |-> n]
    BY <2>1 DEF Items!ToolCall
  <2> QED
    BY <2>2, <2>3 DEF Item, IsTool, IsEnd
<1>2. \A x \in Item : /\ x.kind \in {"delta", "tool_call", "done", "error"}
                      /\ x.kind = "delta" => x = Delta
                      /\ x.kind = "error" => x = Error
                      /\ x.kind = "done" => \E f \in {"stop", "length", "tool_calls"} : x = Items!Done(f)
  BY DEF Item
<1>3. \A f \in {"stop", "length", "tool_calls"} :
          /\ Items!Done(f) \in Item /\ ~IsTool(Items!Done(f)) /\ IsEnd(Items!Done(f))
          /\ Items!Done(f).kind = "done" /\ Items!Done(f).finish = f
  BY DEF Item, IsTool, IsEnd
<1>4. /\ Delta \in Item /\ ~IsTool(Delta) /\ ~IsEnd(Delta) /\ Delta.kind = "delta"
      /\ Error \in Item /\ ~IsTool(Error) /\ IsEnd(Error) /\ Error.kind = "error"
  BY DEF Item, IsTool, IsEnd
<1> QED
  BY <1>1, <1>2, <1>3, <1>4

(* The tool calls among the items when one more is received.                *)
LEMMA OneMoreItem ==
    ASSUME NEW d \in Seq(Item), NEW x \in Item
    PROVE  /\ Append(d, x) \in Seq(Item) /\ Last(Append(d, x)) = x /\ Append(d, x) # <<>>
           /\ \A i \in Items!ToolCalls(d) : Append(d, x)[i] = d[i]
           /\ Cardinality(Items!ToolCalls(d)) \in Nat
           /\ (Cardinality(Items!ToolCalls(d)) = 0) <=> (Items!ToolCalls(d) = {})
           /\ ~IsTool(x) => Items!ToolCalls(Append(d, x)) = Items!ToolCalls(d)
           /\ IsTool(x) =>
                 /\ Items!ToolCalls(Append(d, x)) = Items!ToolCalls(d) \cup {Len(d) + 1}
                 /\ Append(d, x)[Len(d) + 1] = x
                 /\ Cardinality(Items!ToolCalls(Append(d, x))) = Cardinality(Items!ToolCalls(d)) + 1
<1> DEFINE a == Append(d, x)
           here == Items!ToolCalls(d)
<1>1. /\ a \in Seq(Item) /\ Len(a) = Len(d) + 1 /\ a[Len(d) + 1] = x
      /\ \A i \in 1..Len(d) : a[i] = d[i]
  OBVIOUS
<1>2. here \subseteq 1..Len(d) /\ Len(d) + 1 \notin here /\ here = {i \in 1..Len(d) : d[i].kind = "tool_call"}
  BY DEF Items!ToolCalls
<1>3. IsFiniteSet(here)
  BY <1>2, FS_Interval, FS_Subset
<1>4. Cardinality(here) \in Nat /\ (Cardinality(here) = 0 <=> here = {})
  BY <1>3, FS_CardinalityType, FS_EmptySet
<1>5. Items!ToolCalls(a) = {i \in 1..(Len(d) + 1) : a[i].kind = "tool_call"}
  BY <1>1 DEF Items!ToolCalls
<1>6. Last(a) = x /\ a # <<>>
  BY <1>1 DEF Last
<1> HIDE DEF a, here
<1>7. ~IsTool(x) => Items!ToolCalls(a) = here
  BY <1>1, <1>2, <1>5 DEF IsTool
<1>8. IsTool(x) => Items!ToolCalls(a) = here \cup {Len(d) + 1}
  BY <1>1, <1>2, <1>5 DEF IsTool
<1>9. Cardinality(here \cup {Len(d) + 1}) = Cardinality(here) + 1
  BY <1>2, <1>3, FS_AddElement
<1> QED
  BY <1>1, <1>2, <1>4, <1>6, <1>7, <1>8, <1>9 DEF a, here

-----------------------------------------------------------------------------
(* handleEvent: what the reducer makes of an event.                         *)

Keeps(s, t) == Len(s) <= Len(t) /\ \A i \in 1..Len(s) : t[i] = s[i]

(* A request for a tool is a new call at the end, or none.                  *)
LEMMA AddCallFacts ==
    ASSUME NEW cs \in Seq(Tool), Distinct(cs), NEW t \in Tool
    PROVE  AddCall(cs, t) \in Seq(Tool) /\ Distinct(AddCall(cs, t)) /\ Keeps(cs, AddCall(cs, t))
<1>1. CASE t \in Internal \cup ToSet(cs)
  BY <1>1 DEF AddCall, Keeps
<1>2. CASE t \notin Internal \cup ToSet(cs)
  <2> DEFINE a == Append(cs, t)
  <2>1. /\ a \in Seq(Tool) /\ Len(a) = Len(cs) + 1 /\ a[Len(cs) + 1] = t
        /\ \A i \in 1..Len(cs) : a[i] = cs[i]
    OBVIOUS
  <2>2. \A i \in 1..Len(cs) : cs[i] # t
    BY <1>2 DEF ToSet
  <2>3. AddCall(cs, t) = a
    BY <1>2 DEF AddCall
  <2> HIDE DEF a
  <2>4. Distinct(a)
    BY <2>1, <2>2 DEF Distinct
  <2> QED
    BY <2>1, <2>3, <2>4 DEF Keeps
<1> QED
  BY <1>1, <1>2

(* The calls after each of the requests of a message.                       *)
LEMMA FoldOfCalls ==
    ASSUME NEW base \in Seq(Tool), NEW q \in Seq(Tool)
    PROVE  \E h \in [0..Len(q) -> Seq(Tool)] :
              /\ h[0] = base /\ h[Len(q)] = FoldLeft(AddCall, base, q)
              /\ \A i \in 1..Len(q) : h[i] = AddCall(h[i - 1], q[i])
<1> DEFINE D == Seq(Tool)
           n == Len(q)
           step(g, s) == IF s = {} THEN base ELSE AddCall(g[s \ {Max(s)}], q[Max(s)])
           iter == CHOOSE g : g = [s \in SUBSET (1..n) |-> step(g, s)]
           G == [p \in (1..n) \X D |-> AddCall(p[2], q[p[1]])]
<1>1. n \in Nat /\ DOMAIN q = 1..n /\ \A i \in 1..n : q[i] \in Tool
  OBVIOUS
<1>2. FoldLeft(AddCall, base, q) = iter[1..n]
  BY <1>1 DEF FoldLeft, MapThenFoldSet
<1>3. G \in [(1..n) \X D -> D]
  <2>1. \A l \in Seq(Tool), t \in Tool : AddCall(l, t) \in Seq(Tool)
    BY DEF AddCall
  <2> QED
    BY <1>1, <2>1
<1>4. \A i \in 1..n, l \in D : G[<<i, l>>] = AddCall(l, q[i])
  OBVIOUS
<1> HIDE DEF G, n, D
<1>5. PICK g \in [SUBSET (1..n) -> D] : Folding(g, n, base, G)
  BY <1>1, <1>3, FoldingExists DEF D
<1>6. g = [s \in SUBSET (1..n) |-> step(g, s)]
  <2> SUFFICES ASSUME NEW s \in SUBSET (1..n)
               PROVE  g[s] = step(g, s)
    OBVIOUS
  <2>1. g[s] = IF s = {} THEN base ELSE G[<<Max(s), g[s \ {Max(s)}]>>]
    BY <1>5 DEF Folding
  <2>2. s # {} => Max(s) \in 1..n /\ g[s \ {Max(s)}] \in D
    BY <1>1, MaxOfBounded
  <2> QED
    BY <1>4, <2>1, <2>2
<1>7. iter = [s \in SUBSET (1..n) |-> step(iter, s)]
  BY <1>6
<1> HIDE DEF iter
<1>8. iter[{}] = base
  BY <1>7
<1>9. ASSUME NEW s \in SUBSET (1..n), s # {}, iter[s \ {Max(s)}] \in D
      PROVE  iter[s] = G[<<Max(s), iter[s \ {Max(s)}]>>]
  <2>1. Max(s) \in 1..n
    BY <1>1, <1>9, MaxOfBounded
  <2> QED
    BY <1>4, <1>7, <1>9, <2>1
<1>10. PICK h : Unfolded(h, D, n, base, G, iter[1..n])
  <2>1. base \in D
    BY DEF D
  <2>2. FoldingIn(D, iter, n, base, G)
    BY <1>1, <1>3, <1>8, <1>9, <2>1 DEF FoldingIn
  <2> QED
    BY <2>2, FoldingSteps
<1>11. \A i \in 1..n : h[i] = AddCall(h[i - 1], q[i])
  <2> TAKE i \in 1..n
  <2>1. i - 1 \in 0..n
    BY <1>1
  <2>2. h[i - 1] \in D
    BY <1>10, <2>1 DEF Unfolded
  <2> QED
    BY <1>4, <1>10, <2>2 DEF Unfolded
<1> QED
  BY <1>2, <1>10, <1>11 DEF n, D, Unfolded

(* Requests only add calls at the end, and none twice.                      *)
LEMMA CallsOnlyGrow ==
    ASSUME NEW cs \in Seq(Tool), Distinct(cs), NEW q \in Seq(Tool)
    PROVE  /\ FoldLeft(AddCall, cs, q) \in Seq(Tool)
           /\ Distinct(FoldLeft(AddCall, cs, q)) /\ Keeps(cs, FoldLeft(AddCall, cs, q))
<1>1. PICK h \in [0..Len(q) -> Seq(Tool)] :
         /\ h[0] = cs /\ h[Len(q)] = FoldLeft(AddCall, cs, q)
         /\ \A i \in 1..Len(q) : h[i] = AddCall(h[i - 1], q[i])
  BY FoldOfCalls
<1> DEFINE n == Len(q)
           P == {i \in 0..n : Distinct(h[i]) /\ Keeps(cs, h[i])}
<1>2. n \in Nat /\ \A i \in 1..n : q[i] \in Tool
  OBVIOUS
<1>3. 0 \in P
  BY <1>1, <1>2 DEF Keeps
<1>4. ASSUME NEW i \in 0..(n - 1), i \in P
      PROVE  i + 1 \in P
  <2>1. i \in 0..n /\ i + 1 \in 1..n /\ i + 1 \in 0..n /\ (i + 1) - 1 = i
    BY <1>2
  <2>2. h[i] \in Seq(Tool) /\ h[i + 1] \in Seq(Tool) /\ h[i + 1] = AddCall(h[i], q[i + 1]) /\ q[i + 1] \in Tool
    BY <1>1, <1>2, <2>1
  <2>3. Distinct(h[i + 1]) /\ Keeps(h[i], h[i + 1])
    BY <1>4, <2>2, AddCallFacts
  <2>4. Keeps(cs, h[i])
    BY <1>4
  <2>5. Keeps(cs, h[i + 1])
    BY <2>2, <2>3, <2>4 DEF Keeps
  <2> QED
    BY <2>1, <2>3, <2>5
<1> HIDE DEF P
<1>5. 0..n \subseteq P
  BY <1>2, <1>3, <1>4, UpTo
<1>6. n \in P /\ n \in 0..n
  BY <1>2, <1>5
<1>7. Distinct(h[n]) /\ Keeps(cs, h[n]) /\ h[n] \in Seq(Tool)
  BY <1>1, <1>6 DEF P
<1> QED
  BY <1>1, <1>7

(* The items for the calls a message adds are the last ones, under their    *)
(* numbers.                                                                 *)
LEMMA ToolItemsFacts ==
    ASSUME calls \in Seq(Tool), Distinct(calls), NEW tools \in Seq(Tool)
    PROVE  /\ CallsWith(tools) \in Seq(Tool) /\ Distinct(CallsWith(tools)) /\ Keeps(calls, CallsWith(tools))
           /\ ToolItems(tools) \in Seq(Item)
           /\ Len(ToolItems(tools)) = Len(CallsWith(tools)) - Len(calls)
           /\ \A i \in 1..Len(ToolItems(tools)) :
                 /\ Numbered(ToolItems(tools)[i], CallsWith(tools))
                 /\ ToolItems(tools)[i].index = Len(calls) + (i - 1)
<1> DEFINE all == CallsWith(tools)
           k == Len(all) - Len(calls)
           item(i) == Items!ToolCall(all[Len(calls) + i], Len(calls) + i - 1)
<1>1. all \in Seq(Tool) /\ Distinct(all) /\ Keeps(calls, all)
  BY CallsOnlyGrow DEF CallsWith
<1>2. ToolItems(tools) = [i \in 1..k |-> item(i)]
  BY DEF ToolItems
<1> HIDE DEF all
<1>3. k \in Nat /\ Len(calls) \in Nat /\ Len(all) = Len(calls) + k
  BY <1>1 DEF Keeps
<1>4. ASSUME NEW i \in 1..k
      PROVE  Numbered(item(i), all) /\ item(i).index = Len(calls) + (i - 1)
  <2> DEFINE n == (Len(calls) + i) - 1
  <2>1. item(i).index = n /\ item(i) = Items!ToolCall(all[n + 1], n)
    <3>1. n + 1 = Len(calls) + i
      BY <1>3
    <3> QED
      BY <3>1 DEF Items!ToolCall
  <2>2. n \in 0..(Len(all) - 1) /\ n = Len(calls) + (i - 1)
    BY <1>3
  <2> QED
    BY <2>1, <2>2 DEF Numbered
<1>5. \A i \in 1..k : item(i) \in Item
  BY <1>1, <1>4, ItemKinds
<1> HIDE DEF item, k
<1>6. ToolItems(tools) \in Seq(Item) /\ Len(ToolItems(tools)) = k
  BY <1>2, <1>3, <1>5
<1> QED
  BY <1>1, <1>2, <1>4, <1>6 DEF all, k

(* The calls after an event.                                                *)
After(e) == IF e.type \in {"message", "external"} THEN CallsWith(e.tools) ELSE calls

(* What handleEvent is left to send after an event: the end, or a delta and *)
(* the calls the event added.                                               *)
LEMMA ReducedEvent ==
    ASSUME HandlingInv, NEW e \in Event
    PROVE  /\ After(e) \in Seq(Tool) /\ Distinct(After(e)) /\ Keeps(calls, After(e))
           /\ Terminal(e) \in BOOLEAN
           /\ Terminal(e) => After(e) = calls
           /\ LeftBySDK(Reduce(e), Terminal(e), After(e))
           /\ Emitted(Emitting(e), After(e)) = Len(calls)
           /\ e.type = "error" => Reduce(e) = <<Error>>
           /\ Reduce(e) = <<>> => ~Terminal(e)
<1>1. calls \in Seq(Tool) /\ Distinct(calls) /\ Keeps(calls, calls) /\ Len(calls) \in Nat
  BY DEF HandlingInv, Keeps
<1>2. Emitting(e).stage = "emitting" /\ Emitting(e).terminal = Terminal(e) /\ Emitting(e).items = Reduce(e)
  BY DEF Emitting
<1>3. CASE e.type = "delta"
  <2>1. Reduce(e) = <<Delta>> /\ After(e) = calls /\ Terminal(e) = FALSE
    BY <1>3 DEF Reduce, After, Terminal
  <2>2. LeftBySDK(<<Delta>>, FALSE, calls)
    BY ItemKinds DEF LeftBySDK
  <2>3. Emitted(Emitting(e), calls) = (Len(calls) - 1) + 1
    BY <1>2, <2>1 DEF Emitted
  <2>4. LeftBySDK(Reduce(e), Terminal(e), After(e))
    BY ONLY <2>1, <2>2
  <2>5. Emitted(Emitting(e), After(e)) = Len(calls)
    BY <1>1, <2>1, <2>3
  <2>6. After(e) \in Seq(Tool) /\ Distinct(After(e)) /\ Keeps(calls, After(e)) /\ After(e) = calls
    BY <1>1, <2>1
  <2>7. Terminal(e) \in BOOLEAN
    BY <2>1
  <2>8. Reduce(e) # <<>> /\ (e.type = "error" => Reduce(e) = <<Error>>)
    BY ONLY <1>3, <2>1
  <2> QED
    BY <2>4, <2>5, <2>6, <2>7, <2>8
<1>4. CASE e.type = "idle"
  <2>1. Reduce(e) = <<Items!Done(DoneReason)>> /\ After(e) = calls /\ Terminal(e) = TRUE
    BY <1>4 DEF Reduce, After, Terminal
  <2>2. LeftBySDK(<<Items!Done(DoneReason)>>, TRUE, calls)
    <3>1. Items!Done(DoneReason) \in Item
      BY ItemKinds DEF DoneReason
    <3> QED
      BY <3>1 DEF LeftBySDK, DoneReason
  <2>3. Emitted(Emitting(e), calls) = Len(calls)
    BY <1>2, <2>1 DEF Emitted
  <2>4. LeftBySDK(Reduce(e), Terminal(e), After(e))
    BY ONLY <2>1, <2>2
  <2>5. Emitted(Emitting(e), After(e)) = Len(calls)
    BY <1>1, <2>1, <2>3
  <2>6. After(e) \in Seq(Tool) /\ Distinct(After(e)) /\ Keeps(calls, After(e)) /\ After(e) = calls
    BY <1>1, <2>1
  <2>7. Terminal(e) \in BOOLEAN
    BY <2>1
  <2>8. Reduce(e) # <<>> /\ (e.type = "error" => Reduce(e) = <<Error>>)
    BY ONLY <1>4, <2>1
  <2> QED
    BY <2>4, <2>5, <2>6, <2>7, <2>8
<1>5. CASE e.type = "error"
  <2>1. Reduce(e) = <<Error>> /\ After(e) = calls /\ Terminal(e) = TRUE
    BY <1>5 DEF Reduce, After, Terminal
  <2>2. LeftBySDK(<<Error>>, TRUE, calls)
    BY ItemKinds DEF LeftBySDK
  <2>3. Emitted(Emitting(e), calls) = Len(calls)
    BY <1>2, <2>1 DEF Emitted
  <2>4. LeftBySDK(Reduce(e), Terminal(e), After(e))
    BY ONLY <2>1, <2>2
  <2>5. Emitted(Emitting(e), After(e)) = Len(calls)
    BY <1>1, <2>1, <2>3
  <2>6. After(e) \in Seq(Tool) /\ Distinct(After(e)) /\ Keeps(calls, After(e)) /\ After(e) = calls
    BY <1>1, <2>1
  <2>7. Terminal(e) \in BOOLEAN
    BY <2>1
  <2>8. Reduce(e) # <<>> /\ (e.type = "error" => Reduce(e) = <<Error>>)
    BY ONLY <1>5, <2>1
  <2> QED
    BY <2>4, <2>5, <2>6, <2>7, <2>8
<1>6. CASE e.type \in {"message", "external"}
  <2> DEFINE all == CallsWith(e.tools)
             added == ToolItems(e.tools)
             first == IF e.type = "message" /\ e.content /\ ~sawDelta THEN <<Delta>> ELSE <<>>
  <2>1. e.tools \in Seq(Tool)
    <3>1. CASE e \in [type : {"external"}, tools : [{1} -> Tool]]
      <4>1. PICK k \in Nat : e.tools \in [1..k -> Tool]
        <5>1. 1 \in Nat /\ 1..1 = {1}
          OBVIOUS
        <5>2. e.tools \in [{1} -> Tool]
          BY <3>1
        <5> QED
          BY <5>1, <5>2
      <4> QED
        BY <4>1
    <3>2. CASE e \in [type : {"message"}, content : BOOLEAN, tools : UNION {[1..k -> Tool] : k \in 0..MaxTools}]
      <4>1. PICK k \in 0..MaxTools : e.tools \in [1..k -> Tool]
        BY <3>2
      <4>2. k \in Nat
        BY StreamAssumption
      <4> QED
        BY <4>1, <4>2
    <3>3. e \notin [type : {"delta", "idle", "error"}]
      BY <1>6
    <3> QED
      BY <3>1, <3>2, <3>3 DEF Event
  <2>2. /\ all \in Seq(Tool) /\ Distinct(all) /\ Keeps(calls, all)
        /\ added \in Seq(Item) /\ Len(added) = Len(all) - Len(calls)
        /\ \A i \in 1..Len(added) : Numbered(added[i], all) /\ added[i].index = Len(calls) + (i - 1)
    BY <1>1, <2>1, ToolItemsFacts
  <2>3. Reduce(e) = first \o added /\ After(e) = all /\ Terminal(e) = FALSE
    <3>1. CASE e.type = "message"
      BY <3>1 DEF Reduce, After, Terminal
    <3>2. CASE e.type = "external"
      <4>1. Reduce(e) = added /\ first = <<>>
        BY <3>2 DEF Reduce
      <4>2. <<>> \o added = added
        BY <2>2
      <4> QED
        BY <3>2, <4>1, <4>2 DEF After, Terminal
    <3> QED
      BY <1>6, <3>1, <3>2
  <2>4. first = <<Delta>> \/ first = <<>>
    OBVIOUS
  <2> HIDE DEF all, added, first
  <2> DEFINE q == first \o added
  <2>5. CASE first = <<>>
    <3>1. q = added
      BY <2>2, <2>5
    <3>2. \A i \in 1..Len(added) : added[i].index = (Len(all) - Len(added)) + (i - 1)
      BY <1>1, <2>2
    <3>3. LeftBySDK(q, FALSE, all)
      BY <2>2, <3>1, <3>2 DEF LeftBySDK
    <3>4. q # <<>> => q[1] # Delta
      BY <2>2, <3>1, ItemKinds
    <3>5. Emitted(Emitting(e), all) = Len(calls)
      BY <1>1, <1>2, <2>2, <2>3, <3>1, <3>4 DEF Emitted
    <3> QED
      BY <1>6, <2>2, <2>3, <3>3, <3>5
  <2>6. CASE first = <<Delta>>
    <3>1. /\ q \in Seq(Item) /\ Len(q) = Len(added) + 1 /\ q[1] = Delta
          /\ \A i \in 2..Len(q) : q[i] = added[i - 1]
      BY <2>2, <2>6, ItemKinds
    <3> HIDE DEF q
    <3>2. ASSUME NEW i \in 1..Len(q), i # 1
          PROVE  Numbered(q[i], all) /\ q[i].index = (Len(all) - Len(q)) + (i - 1)
      <4>1. i - 1 \in 1..Len(added) /\ q[i] = added[i - 1]
        BY <2>2, <3>1, <3>2
      <4>2. added[i - 1].index = Len(calls) + ((i - 1) - 1)
        BY <2>2, <4>1
      <4>3. Len(all) - Len(q) = Len(calls) - 1 /\ i \in Int
        BY <1>1, <2>2, <3>1
      <4>4. Len(calls) + ((i - 1) - 1) = (Len(all) - Len(q)) + (i - 1)
        BY <1>1, <4>3
      <4>5. Numbered(added[i - 1], all)
        BY <2>2, <4>1
      <4> QED
        BY <4>1, <4>2, <4>4, <4>5
    <3>3. LeftBySDK(q, FALSE, all)
      BY <3>1, <3>2 DEF LeftBySDK
    <3>4. q # <<>>
      BY <3>1
    <3>5. Emitted(Emitting(e), all) = (Len(all) - Len(q)) + 1
      BY <1>2, <2>3, <3>1, <3>4 DEF Emitted, q
    <3>6. (Len(all) - Len(q)) + 1 = Len(calls)
      BY <1>1, <2>2, <3>1
    <3> QED
      BY <1>6, <2>2, <2>3, <3>3, <3>5, <3>6 DEF q
  <2> QED
    BY <2>4, <2>5, <2>6
<1>7. e.type \in {"delta", "message", "external", "idle", "error"}
  BY DEF Event
<1> QED
  BY <1>3, <1>4, <1>5, <1>6, <1>7

(* A call keeps its number.                                                 *)
LEMMA NumbersStay ==
    ASSUME NEW cs \in Seq(Tool), NEW ds \in Seq(Tool), Keeps(cs, ds), NEW x, Numbered(x, cs)
    PROVE  Numbered(x, ds)
<1> DEFINE n == x.index
<1>1. n \in 0..(Len(cs) - 1) /\ x = Items!ToolCall(cs[n + 1], n)
  BY DEF Numbered
<1> HIDE DEF n
<1>2. n \in 0..(Len(ds) - 1) /\ n + 1 \in 1..Len(cs)
  BY <1>1 DEF Keeps
<1>3. ds[n + 1] = cs[n + 1]
  BY <1>2 DEF Keeps
<1> QED
  BY <1>1, <1>2, <1>3 DEF Numbered, n

(* A callback c has an item to send; d is what is left of it then.          *)
Pops(c, d, cs) ==
    /\ c.stage = "emitting" /\ c.terminal \in BOOLEAN /\ LeftBySDK(c.items, c.terminal, cs)
    /\ c.items # <<>>
    /\ d.stage = "emitting" /\ d.terminal = c.terminal /\ d.items = Tail(c.items)

(* Its item is the next call under its number, a delta, or the end.         *)
Popped(x, c, d, cs) ==
    /\ x \in Item /\ LeftBySDK(d.items, d.terminal, cs)
    /\ Emitted(c, cs) \in 0..Len(cs) /\ Emitted(d, cs) \in 0..Len(cs)
    /\ IsTool(x) => Numbered(x, cs) /\ x.index = Emitted(c, cs) /\ Emitted(d, cs) = Emitted(c, cs) + 1
    /\ ~IsTool(x) => Emitted(d, cs) = Emitted(c, cs)
    /\ IsEnd(x) <=> d.terminal
    /\ IsEnd(x) => Emitted(c, cs) = Len(cs) /\ d.items = <<>>
    /\ x.kind = "done" => (x.finish = "tool_calls" <=> cs # <<>>)

(* What a callback sends next, and what is left.                            *)
LEMMA NextItem ==
    ASSUME NEW cs \in Seq(Tool), NEW c, NEW d, Pops(c, d, cs)
    PROVE  Popped(Head(c.items), c, d, cs)
<1> DEFINE q == c.items
           terminal == d.terminal
           rest == Tail(q)
           x == Head(q)
<1>0. /\ c.stage = "emitting" /\ c.items = q /\ c.terminal = terminal /\ terminal \in BOOLEAN /\ d.terminal = terminal
      /\ d.stage = "emitting" /\ d.items = rest /\ LeftBySDK(q, terminal, cs) /\ q # <<>>
  BY DEF Pops
<1> HIDE DEF q, terminal
<1>1. /\ q \in Seq(Item) /\ Len(q) \in Nat \ {0} /\ x = q[1] /\ x \in Item
      /\ rest \in Seq(Item) /\ Len(rest) = Len(q) - 1 /\ \A i \in 1..Len(rest) : rest[i] = q[i + 1]
      /\ (rest = <<>> <=> Len(q) = 1)
  <2>1. q \in Seq(Item)
    BY <1>0 DEF LeftBySDK
  <2>2. Len(q) \in Nat \ {0} /\ x = q[1] /\ x \in Item
    BY <1>0, <2>1
  <2>3. /\ rest \in Seq(Item) /\ Len(rest) = Len(q) - 1 /\ \A i \in 1..Len(rest) : rest[i] = q[i + 1]
    BY <1>0, <2>1
  <2> HIDE DEF rest, x
  <2>4. rest = <<>> <=> Len(rest) = 0
    BY <2>3
  <2> QED
    BY <2>1, <2>2, <2>3, <2>4
<1>2. Len(cs) \in Nat
  OBVIOUS
<1> SUFFICES Popped(x, c, d, cs)
  BY <1>0
<1>3. CASE terminal
  <2>0. c.terminal = TRUE /\ d.terminal = TRUE /\ terminal = TRUE
    BY <1>0, <1>3
  <2>1. q = <<Error>> \/ q = <<Items!Done(IF cs # <<>> THEN "tool_calls" ELSE "stop")>>
    BY <1>0, <1>3 DEF LeftBySDK
  <2>2. rest = <<>> /\ (x = Error \/ x = Items!Done(IF cs # <<>> THEN "tool_calls" ELSE "stop"))
    <3>1. Len(q) = 1 /\ (q[1] = Error \/ q[1] = Items!Done(IF cs # <<>> THEN "tool_calls" ELSE "stop"))
      BY <2>1
    <3> HIDE DEF rest, x
    <3> QED
      BY <1>1, <3>1
  <2>3. Emitted(c, cs) = Len(cs) /\ Emitted(d, cs) = Len(cs)
    BY <1>0, <2>0 DEF Emitted
  <2>4. LeftBySDK(rest, terminal, cs)
    BY <1>0, <1>1, <1>3, <2>2 DEF LeftBySDK
  <2>5. CASE x = Error
    <3>1. ~IsTool(x) /\ IsEnd(x) /\ x.kind # "done"
      BY <2>5, ItemKinds
    <3>2. Len(cs) \in 0..Len(cs)
      BY <1>2
    <3> HIDE DEF x, rest
    <3> QED
      BY <1>0, <1>1, <2>0, <2>2, <2>3, <2>4, <3>1, <3>2 DEF Popped
  <2>6. CASE x = Items!Done(IF cs # <<>> THEN "tool_calls" ELSE "stop")
    <3> DEFINE f == IF cs # <<>> THEN "tool_calls" ELSE "stop"
    <3>1. f \in {"stop", "length", "tool_calls"} /\ (f = "tool_calls" <=> cs # <<>>)
      OBVIOUS
    <3>2. ~IsTool(x) /\ IsEnd(x) /\ x.finish = f
      BY <2>6, <3>1, ItemKinds
    <3>3. Len(cs) \in 0..Len(cs)
      BY <1>2
    <3>4. x.kind = "done" => (x.finish = "tool_calls" <=> cs # <<>>)
      BY <3>1, <3>2
    <3> HIDE DEF f, x, rest
    <3> QED
      BY <1>0, <1>1, <2>0, <2>2, <2>3, <2>4, <3>2, <3>3, <3>4 DEF Popped
  <2> QED
    BY <2>2, <2>5, <2>6
<1>4. CASE ~terminal
  <2>0. c.terminal = FALSE /\ d.terminal = FALSE /\ terminal = FALSE
    BY <1>0, <1>4
  <2>1. \A i \in 1..Len(q) : \/ i = 1 /\ q[i] = Delta
                             \/ Numbered(q[i], cs) /\ q[i].index = (Len(cs) - Len(q)) + (i - 1)
    BY <1>0, <1>4 DEF LeftBySDK
  <2>2. ASSUME NEW i \in 1..Len(rest)
        PROVE  Numbered(rest[i], cs) /\ rest[i].index = (Len(cs) - Len(rest)) + (i - 1)
    <3>1. i + 1 \in 1..Len(q) /\ i + 1 # 1 /\ rest[i] = q[i + 1]
      BY <1>1
    <3>2. Numbered(q[i + 1], cs) /\ q[i + 1].index = (Len(cs) - Len(q)) + ((i + 1) - 1)
      BY <2>1, <3>1
    <3>3. (Len(cs) - Len(q)) + ((i + 1) - 1) = (Len(cs) - Len(rest)) + (i - 1)
      BY <1>1, <1>2
    <3> QED
      BY <3>1, <3>2, <3>3
  <2>3. LeftBySDK(rest, terminal, cs)
    BY <1>0, <1>1, <1>4, <2>2 DEF LeftBySDK
  <2>4. rest # <<>> => rest[1] # Delta /\ Len(cs) - Len(rest) \in 0..Len(cs)
    <3>1. SUFFICES ASSUME rest # <<>>
                   PROVE  rest[1] # Delta /\ Len(cs) - Len(rest) \in 0..Len(cs)
      OBVIOUS
    <3>2. 1 \in 1..Len(rest)
      BY <1>1, <3>1
    <3>3. Numbered(rest[1], cs) /\ rest[1].index = (Len(cs) - Len(rest)) + (1 - 1)
      BY <2>2, <3>2
    <3>4. rest[1].index \in 0..(Len(cs) - 1)
      BY <3>3 DEF Numbered
    <3>5. rest[1] # Delta
      BY <3>3, ItemKinds
    <3>6. Len(cs) - Len(rest) \in 0..Len(cs)
      BY <1>1, <1>2, <3>3, <3>4
    <3> QED
      BY <3>5, <3>6
  <2>5. Emitted(d, cs) = Len(cs) - Len(rest) /\ Emitted(d, cs) \in 0..Len(cs)
    <3>1. CASE rest = <<>>
      BY <1>0, <1>1, <1>2, <3>1 DEF Emitted
    <3>2. CASE rest # <<>>
      BY <1>0, <2>0, <2>4, <3>2 DEF Emitted
    <3> QED
      BY <3>1, <3>2
  <2>6. CASE x = Delta
    <3>1. ~IsTool(x) /\ ~IsEnd(x) /\ x.kind # "done"
      BY <2>6, ItemKinds
    <3>2. Emitted(c, cs) = (Len(cs) - Len(q)) + 1
      BY <1>0, <1>1, <1>4, <2>6 DEF Emitted
    <3>3. Emitted(c, cs) = Emitted(d, cs)
      BY <1>1, <1>2, <2>5, <3>2
    <3> HIDE DEF x, rest
    <3> QED
      BY <1>0, <1>1, <2>0, <2>3, <2>5, <3>1, <3>3 DEF Popped
  <2>7. CASE x # Delta
    <3>1. 1 \in 1..Len(q)
      BY <1>1
    <3>2. Numbered(x, cs) /\ x.index = (Len(cs) - Len(q)) + (1 - 1)
      BY <1>1, <2>1, <2>7, <3>1
    <3>3. IsTool(x) /\ ~IsEnd(x) /\ x.kind # "done"
      BY <3>2, ItemKinds DEF IsTool
    <3>4. Emitted(c, cs) = Len(cs) - Len(q)
      BY <1>0, <1>1, <1>4, <2>7 DEF Emitted
    <3>5. x.index \in 0..(Len(cs) - 1)
      BY <3>2 DEF Numbered
    <3>6. /\ x.index = Emitted(c, cs) /\ Emitted(c, cs) \in 0..Len(cs)
          /\ Emitted(d, cs) = Emitted(c, cs) + 1
      BY <1>1, <1>2, <2>5, <3>2, <3>4, <3>5
    <3> HIDE DEF x, rest
    <3> QED
      BY <1>0, <1>1, <2>0, <2>3, <2>5, <3>2, <3>3, <3>6 DEF Popped
  <2> QED
    BY <2>6, <2>7
<1> QED
  BY <1>3, <1>4

(* How many calls were emitted is a number, and they are all emitted when   *)
(* nothing is left to send.                                                 *)
LEMMA EmittedFacts ==
    ASSUME NEW cs \in Seq(Tool), NEW c,
           c.stage = "emitting" => c.terminal \in BOOLEAN /\ LeftBySDK(c.items, c.terminal, cs)
    PROVE  /\ Emitted(c, cs) \in 0..Len(cs)
           /\ c.stage # "emitting" => Emitted(c, cs) = Len(cs)
           /\ c.items = <<>> => Emitted(c, cs) = Len(cs)
<1>1. Len(cs) \in Nat
  OBVIOUS
<1>2. /\ c.stage # "emitting" => Emitted(c, cs) = Len(cs)
      /\ c.items = <<>> => Emitted(c, cs) = Len(cs)
  BY DEF Emitted
<1>3. CASE c.stage = "emitting" /\ c.items # <<>>
  <2> DEFINE d == [stage |-> "emitting", terminal |-> c.terminal, items |-> Tail(c.items)]
  <2>1. d.stage = "emitting" /\ d.terminal = c.terminal /\ d.items = Tail(c.items)
    OBVIOUS
  <2> HIDE DEF d
  <2> QED
    BY <1>2, <1>3, <2>1, NextItem DEF Pops, Popped
<1>4. CASE ~(c.stage = "emitting" /\ c.items # <<>>)
  BY <1>1, <1>2, <1>4
<1> QED
  BY <1>2, <1>3, <1>4

(* What the filter does with an item: it is draining, or it takes the item  *)
(* to send it, or the item is a delta where it cuts.                        *)
LEMMA Received ==
    ASSUME FilterInv, NEW x \in Item, Receive(x)
    PROVE  \/ filter = "draining" /\ UNCHANGED filterVars
           \/ /\ filter = "reading" /\ cut = "no"
              /\ filter' = "sending" /\ carry' = x /\ cut' = cut
              /\ toolSeen' \in BOOLEAN /\ (toolSeen' <=> toolSeen \/ IsTool(x))
           \/ /\ filter = "reading" /\ cut = "no" /\ x = Delta /\ ~toolSeen
              /\ toolSeen' = toolSeen /\ cut' \in {"stop", "length"}
              /\ \/ filter' = "sending" /\ carry' = x
                 \/ filter' = "draining" /\ carry' = carry
<1>1. CASE filter = "draining" /\ UNCHANGED filterVars
  BY <1>1
<1>2. CASE ~(filter = "draining" /\ UNCHANGED filterVars)
  <2>1. /\ filter = "reading"
        /\ CASE x.kind = "delta"     -> ReceiveDelta
             [] x.kind = "tool_call" -> toolSeen' = TRUE /\ Carry(x) /\ UNCHANGED cut
             [] OTHER                -> Carry(x) /\ UNCHANGED <<cut, toolSeen>>
    BY <1>2 DEF Receive
  <2>2. cut = "no" /\ toolSeen \in BOOLEAN
    BY <2>1 DEF FilterInv
  <2>3. CASE x.kind = "delta"
    <3>1. x = Delta /\ ~IsTool(x)
      BY <2>3, ItemKinds
    <3>2. ReceiveDelta
      BY <2>1, <2>3
    <3>3. UNCHANGED toolSeen
      BY <3>2 DEF ReceiveDelta
    <3>4. CASE Carry(Delta) /\ UNCHANGED cut
      BY <2>1, <2>2, <3>1, <3>3, <3>4 DEF Carry
    <3>5. CASE /\ ~toolSeen
               /\ \E finish \in {"stop", "length"} : cut' = finish
               /\ Carry(Delta) \/ (filter' = "draining" /\ UNCHANGED carry)
      BY <2>1, <2>2, <3>1, <3>3, <3>5 DEF Carry
    <3> QED
      BY <3>2, <3>4, <3>5 DEF ReceiveDelta
  <2>4. CASE x.kind = "tool_call"
    BY <2>1, <2>2, <2>4 DEF Carry, IsTool
  <2>5. CASE x.kind \notin {"delta", "tool_call"}
    BY <2>1, <2>2, <2>5 DEF Carry, IsTool
  <2> QED
    BY <2>3, <2>4, <2>5
<1> QED
  BY <1>1, <1>2

-----------------------------------------------------------------------------
(* Every step keeps the invariant.                                          *)

(* Init establishes it.                                                     *)
LEMMA InitTurnInv == Init => TurnInv
<1> SUFFICES ASSUME Init
             PROVE  TurnInv
  OBVIOUS
<1>1. /\ JInv /\ calls = <<>> /\ delivered = <<>> /\ SDK = NoCall /\ Own = NoCall
      /\ filter = "reading" /\ cut = "no" /\ toolSeen = FALSE /\ doneClosed = FALSE /\ session = "opening"
  BY InitJInv DEF Init, SDK, Own, Caller
<1>2. SDK.stage = "none" /\ Own.stage = "none"
  BY <1>1 DEF NoCall
<1>3. Items!ToolCalls(delivered) = {} /\ ~Items!Ended /\ Emitted(SDK, calls) = 0
  BY <1>1, <1>2 DEF Items!ToolCalls, Items!Ended, Emitted
<1>4. HandlingInv
  BY <1>1, <1>2 DEF HandlingInv, Distinct
<1>5. OrderInv /\ FilterInv
  <2>1. delivered \in Seq(Item) /\ ~Carrying
    BY <1>1 DEF Carrying
  <2>2. OrderInv
    BY <1>3, <2>1 DEF OrderInv
  <2>3. FilterInv
    BY <1>1, <1>3, <2>1 DEF FilterInv
  <2> QED
    BY <2>2, <2>3
<1>6. WholeInv
  BY <1>1, <1>2, <1>3, FS_EmptySet DEF WholeInv, Carrying
<1> QED
  BY <1>1, <1>4, <1>5, <1>6 DEF TurnInv

turnState == <<callback, calls, terminated, filterVars, delivered>>

(* Steps of the session and of the settling goroutine that only wait, and   *)
(* the client.                                                              *)
LEMMA WaitingKeeps ==
    ASSUME TurnInv, JInv',
           Open \/ Sent \/ Waited \/ CloseRaw \/ Settle \/ Cancel \/ StopReading \/ UNCHANGED vars
    PROVE  TurnInv'
<1>1. /\ UNCHANGED turnState /\ doneClosed' = doneClosed
      /\ Interrupted => Interrupted'
  BY DEF Open, Sent, Waited, CloseRaw, Settle, Cancel, StopReading, vars, turnState, reducer, filterVars,
         signals, client, sessionVars, Interrupted
<1>2. \/ session' = session
      \/ session \notin {"closing", "closed"} /\ session' \notin {"closing", "closed", "handling"}
      \/ session = "waiting" /\ (doneClosed \/ cancelled) /\ session' = "closing"
      \/ session = "handling" /\ Own = NoCall /\ session' = "closing"
      \/ session = "closing" /\ session' = "closed"
  BY DEF Open, Sent, Waited, CloseRaw, Settle, Cancel, StopReading, vars, sessionVars, Own
<1>3. HandlingInv'
  BY <1>1 DEF TurnInv, HandlingInv, turnState, SDK, Own
<1>4. OrderInv'
  BY <1>1 DEF TurnInv, OrderInv, turnState, filterVars, SDK, Carrying
<1>5. FilterInv'
  BY <1>1 DEF TurnInv, FilterInv, turnState, filterVars, Carrying, Items!Ended
<1>6. ASSUME ~Interrupted'
      PROVE  WholeInv'
  <2>1. WholeInv /\ ~cancelled
    BY <1>1, <1>6 DEF TurnInv, Interrupted
  <2>2. EndPassed' <=> EndPassed
    BY <1>1 DEF EndPassed, turnState, filterVars, Carrying
  <2>3. session' \in {"closing", "closed"} => EndPassed
    BY <1>2, <2>1 DEF WholeInv
  <2>4. session' = "handling" => session = "handling"
    BY <1>2
  <2> QED
    BY <1>1, <2>1, <2>2, <2>3, <2>4 DEF WholeInv, turnState, filterVars, SDK, Own, Carrying
<1> QED
  BY <1>3, <1>4, <1>5, <1>6 DEF TurnInv

(* What the filter and the consumer have is as it was while a callback      *)
(* changes, if the number of emitted calls does not fall.                   *)
LEMMA CallbackSteps ==
    ASSUME TurnInv, UNCHANGED <<filterVars, delivered>>, HandlingInv', Keeps(calls, calls'),
           Interrupted => Interrupted',
           Emitted(SDK, calls) <= Emitted(SDK, calls)'
    PROVE  /\ OrderInv' /\ FilterInv'
           /\ (EndPassed' <=> EndPassed)
           /\ Emitted(SDK, calls)' = Emitted(SDK, calls) /\ ~Interrupted =>
                 /\ filter' = "draining" => cut' # "no"
                 /\ cut' = "no" =>
                       Emitted(SDK, calls)' =
                          Cardinality(Items!ToolCalls(delivered)') + (IF Carrying' /\ IsTool(carry)' THEN 1 ELSE 0)
                 /\ Carrying' /\ IsTool(carry)' => carry'.index = Cardinality(Items!ToolCalls(delivered)')
                 /\ Carrying' /\ carry'.kind = "done" =>
                       (carry'.finish = "tool_calls" <=> Items!ToolCalls(delivered)' # {})
<1>1. /\ filter' = filter /\ carry' = carry /\ cut' = cut /\ toolSeen' = toolSeen /\ delivered' = delivered
      /\ (Carrying' <=> Carrying) /\ (IsTool(carry)' <=> IsTool(carry))
      /\ Items!ToolCalls(delivered)' = Items!ToolCalls(delivered)
  BY DEF filterVars, Carrying, IsTool
<1>2. calls \in Seq(Tool) /\ calls' \in Seq(Tool)
  BY DEF TurnInv, HandlingInv
<1>3. /\ Emitted(SDK, calls) \in 0..Len(calls)
      /\ Emitted(SDK, calls)' \in 0..Len(calls')
  <2> DEFINE c == SDK
             d == SDK'
  <2>1. /\ c.stage = "emitting" => c.terminal \in BOOLEAN /\ LeftBySDK(c.items, c.terminal, calls)
        /\ d.stage = "emitting" => d.terminal \in BOOLEAN /\ LeftBySDK(d.items, d.terminal, calls')
    BY DEF TurnInv, HandlingInv
  <2> HIDE DEF c, d
  <2>2. Emitted(c, calls) \in 0..Len(calls) /\ Emitted(d, calls') \in 0..Len(calls')
    BY <1>2, <2>1, EmittedFacts
  <2> QED
    BY <2>2 DEF c, d
<1>4. \A x : Numbered(x, calls) => Numbered(x, calls') /\ x.index \in Int
  <2>1. \A x : Numbered(x, calls) => Numbered(x, calls')
    BY <1>2, NumbersStay
  <2>2. \A x : Numbered(x, calls) => x.index \in Int
    BY DEF Numbered
  <2> QED
    BY <2>1, <2>2
<1>5. FilterInv'
  BY <1>1 DEF TurnInv, FilterInv, Items!Ended
<1>6. OrderInv'
  <2>1. ASSUME NEW i \in Items!ToolCalls(delivered)
        PROVE  /\ Numbered(delivered[i], calls') /\ delivered[i].index < Emitted(SDK, calls)'
               /\ Carrying /\ IsTool(carry) => delivered[i].index < carry.index
    <3>1. /\ Numbered(delivered[i], calls) /\ delivered[i].index < Emitted(SDK, calls)
          /\ Carrying /\ IsTool(carry) => delivered[i].index < carry.index
      BY DEF TurnInv, OrderInv
    <3> QED
      BY <1>3, <1>4, <3>1
  <2>2. Carrying /\ IsTool(carry) => Numbered(carry, calls') /\ carry.index < Emitted(SDK, calls)'
    <3>1. Carrying /\ IsTool(carry) => Numbered(carry, calls) /\ carry.index < Emitted(SDK, calls)
      BY DEF TurnInv, OrderInv
    <3> QED
      BY <1>3, <1>4, <3>1
  <2> QED
    BY <1>1, <2>1, <2>2 DEF OrderInv
<1>7. EndPassed' <=> EndPassed
  BY <1>1 DEF EndPassed, IsEnd
<1> QED
  BY <1>1, <1>5, <1>6, <1>7 DEF TurnInv, WholeInv

(* An event is raised.                                                      *)
LEMMA RaisingKeeps ==
    ASSUME TurnInv, JInv', NEW e \in Event, Raise(e)
    PROVE  TurnInv'
<1>1. /\ SDK = NoCall /\ SDK' = [stage |-> "entered", event |-> e] /\ Own' = Own
      /\ UNCHANGED <<calls, terminated, filterVars, delivered, doneClosed, session, sendFailed, cancelled>>
  BY DEF Raise, Call, TurnInv, JInv, CallTypes, Caller, SDK, Own, reducer, signals, sessionVars, client
<1>2. SDK.stage = "none" /\ SDK'.stage = "entered" /\ SDK'.event = e
  BY <1>1 DEF NoCall
<1>3. HandlingInv'
  BY <1>1, <1>2 DEF TurnInv, HandlingInv
<1>4. Emitted(SDK, calls) = Len(calls) /\ Emitted(SDK, calls)' = Len(calls) /\ Len(calls) \in Nat
  BY <1>1, <1>2 DEF Emitted, TurnInv, HandlingInv
<1>5. Keeps(calls, calls') /\ (Interrupted <=> Interrupted')
  BY <1>1, <1>4 DEF Keeps, Interrupted
<1>6. OrderInv' /\ FilterInv' /\ (EndPassed' <=> EndPassed)
  BY <1>1, <1>3, <1>4, <1>5, CallbackSteps
<1>7. ASSUME ~Interrupted'
      PROVE  WholeInv'
  <2>1. WholeInv /\ ~Interrupted
    BY <1>5, <1>7 DEF TurnInv
  <2>2. Emitted(SDK, calls)' = Emitted(SDK, calls)
    BY <1>4
  <2> QED
    BY <1>1, <1>2, <1>3, <1>4, <1>5, <1>6, <2>1, <2>2, CallbackSteps DEF WholeInv
<1> QED
  BY <1>3, <1>6, <1>7 DEF TurnInv

(* The session goroutine reports an error of its own.                       *)
LEMMA ReportingKeeps ==
    ASSUME TurnInv, JInv', OpenFails \/ SendFails
    PROVE  TurnInv'
<1>1. /\ SDK' = SDK /\ UNCHANGED <<calls, terminated, filterVars, delivered, doneClosed, cancelled>>
      /\ session' = "handling"
      /\ Interrupted => Interrupted'
      /\ \/ OpenFails /\ Own'.stage = "emitting" /\ Own'.items = <<Error>> /\ sendFailed' = sendFailed
         \/ SendFails /\ Own'.stage = "entered" /\ Own'.event = [type |-> "error"] /\ sendFailed'
  <2>1. CASE OpenFails
    BY <2>1 DEF OpenFails, Call, TurnInv, JInv, CallTypes, Caller, SDK, Own, reducer, signals, client, Interrupted
  <2>2. CASE SendFails
    BY <2>2 DEF SendFails, Call, TurnInv, JInv, CallTypes, Caller, SDK, Own, reducer, signals, client, Interrupted
  <2> QED
    BY <2>1, <2>2
<1>2. HandlingInv'
  BY <1>1 DEF TurnInv, HandlingInv
<1>3. Emitted(SDK, calls)' = Emitted(SDK, calls) /\ Emitted(SDK, calls) \in Int /\ Len(calls) \in Nat
  <2> DEFINE c == SDK
  <2>1. calls \in Seq(Tool) /\ (c.stage = "emitting" => c.terminal \in BOOLEAN /\ LeftBySDK(c.items, c.terminal, calls))
    BY DEF TurnInv, HandlingInv
  <2> HIDE DEF c
  <2>2. Emitted(c, calls) \in 0..Len(calls) /\ Len(calls) \in Nat
    BY <2>1, EmittedFacts
  <2> QED
    BY <1>1, <2>2 DEF c
<1>4. Keeps(calls, calls')
  BY <1>1, <1>3 DEF Keeps
<1>5. OrderInv' /\ FilterInv' /\ (EndPassed' <=> EndPassed)
  BY <1>1, <1>2, <1>3, <1>4, CallbackSteps
<1>6. ASSUME ~Interrupted'
      PROVE  WholeInv'
  <2>1. WholeInv /\ ~Interrupted
    BY <1>1, <1>6 DEF TurnInv
  <2>2. /\ Own'.stage = "emitting" /\ Own'.items # <<>> /\ Own' # NoCall
    BY <1>1, <1>6 DEF Interrupted, NoCall
  <2>3. /\ filter' = "draining" => cut' # "no"
        /\ cut' = "no" =>
              Emitted(SDK, calls)' =
                 Cardinality(Items!ToolCalls(delivered)') + (IF Carrying' /\ IsTool(carry)' THEN 1 ELSE 0)
        /\ Carrying' /\ IsTool(carry)' => carry'.index = Cardinality(Items!ToolCalls(delivered)')
        /\ Carrying' /\ carry'.kind = "done" =>
              (carry'.finish = "tool_calls" <=> Items!ToolCalls(delivered)' # {})
    BY <1>1, <1>2, <1>3, <1>4, <2>1, CallbackSteps
  <2> QED
    BY <1>1, <1>5, <2>1, <2>2, <2>3 DEF WholeInv
<1> QED
  BY <1>2, <1>5, <1>6 DEF TurnInv

(* A callback is over: it found the turn terminated, it gave up, it         *)
(* panicked, or it has sent everything.                                     *)
LEMMA EndingKeeps ==
    ASSUME TurnInv, JInv', NEW who \in Caller,
           callback' = [callback EXCEPT ![who] = NoCall],
           UNCHANGED <<calls, terminated, filterVars, delivered, session, sendFailed, cancelled>>,
           ~Interrupted =>
              \/ callback[who].stage = "entered" /\ doneClosed' = doneClosed
              \/ /\ callback[who].stage = "emitting" /\ callback[who].items = <<>>
                 /\ doneClosed' = (doneClosed \/ callback[who].terminal)
    PROVE  TurnInv'
<1>1. callback["sdk"]' = (IF who = "sdk" THEN NoCall ELSE SDK) /\ Own' = (IF who = "session" THEN NoCall ELSE Own)
  BY DEF TurnInv, JInv, CallTypes, Caller, SDK, Own
<1>2. NoCall.stage = "none"
  BY DEF NoCall
<1>3. SDK' = IF who = "sdk" THEN NoCall ELSE SDK
  BY <1>1 DEF SDK
<1>4. HandlingInv'
  BY <1>1, <1>2, <1>3 DEF TurnInv, HandlingInv
<1>5. /\ Emitted(SDK, calls) \in 0..Len(calls) /\ Len(calls) \in Nat
      /\ SDK.stage = "entered" \/ SDK.items = <<>> => Emitted(SDK, calls) = Len(calls)
      /\ Emitted(NoCall, calls) = Len(calls)
  <2> DEFINE c == SDK
  <2>1. calls \in Seq(Tool) /\ (c.stage = "emitting" => c.terminal \in BOOLEAN /\ LeftBySDK(c.items, c.terminal, calls))
    BY DEF TurnInv, HandlingInv
  <2> HIDE DEF c
  <2>2. /\ Emitted(c, calls) \in 0..Len(calls) /\ Len(calls) \in Nat
        /\ c.stage # "emitting" => Emitted(c, calls) = Len(calls)
        /\ c.items = <<>> => Emitted(c, calls) = Len(calls)
    BY <2>1, EmittedFacts
  <2>3. Emitted(NoCall, calls) = Len(calls)
    BY <1>2 DEF Emitted
  <2> QED
    BY <2>2, <2>3 DEF c
<1>6. Emitted(SDK, calls)' = IF who = "sdk" THEN Len(calls) ELSE Emitted(SDK, calls)
  BY <1>3, <1>5
<1>7. Keeps(calls, calls') /\ (Interrupted <=> Interrupted')
  BY <1>5 DEF Keeps, Interrupted
<1>8. Emitted(SDK, calls) <= Emitted(SDK, calls)'
  BY <1>5, <1>6
<1>9. OrderInv' /\ FilterInv' /\ (EndPassed' <=> EndPassed)
  BY <1>4, <1>7, <1>8, CallbackSteps
<1>10. ASSUME ~Interrupted'
       PROVE  WholeInv'
  <2>1. WholeInv /\ ~Interrupted /\ OrdinaryTurn
    BY <1>7, <1>10 DEF TurnInv, JInv
  <2>2. Emitted(SDK, calls)' = Emitted(SDK, calls)
    <3>1. CASE who = "sdk"
      <4>1. SDK.stage = "entered" \/ SDK.items = <<>>
        BY <2>1, <3>1 DEF SDK
      <4> QED
        BY <1>5, <1>6, <3>1, <4>1
    <3>2. CASE who # "sdk"
      BY <1>6, <3>2
    <3> QED
      BY <3>1, <3>2
  <2>3. /\ filter' = "draining" => cut' # "no"
        /\ cut' = "no" =>
              Emitted(SDK, calls)' =
                 Cardinality(Items!ToolCalls(delivered)') + (IF Carrying' /\ IsTool(carry)' THEN 1 ELSE 0)
        /\ Carrying' /\ IsTool(carry)' => carry'.index = Cardinality(Items!ToolCalls(delivered)')
        /\ Carrying' /\ carry'.kind = "done" =>
              (carry'.finish = "tool_calls" <=> Items!ToolCalls(delivered)' # {})
    BY <1>4, <1>7, <1>8, <2>1, <2>2, CallbackSteps
  <2>4. who = "session" => Own.stage = "emitting" /\ ~Own.terminal /\ Own.items = <<>>
    <3> SUFFICES ASSUME who = "session"
                 PROVE  Own.stage = "emitting" /\ ~Own.terminal /\ Own.items = <<>>
      OBVIOUS
    <3>1. Own # NoCall
      BY <1>2, <2>1 DEF Own
    <3>2. Own.stage = "emitting" /\ ~Own.terminal
      BY <2>1, <3>1 DEF OrdinaryTurn, Own
    <3> QED
      BY <2>1, <3>2 DEF Own
  <2>5. doneClosed' => EndPassed
    <3>1. CASE who = "sdk"
      BY <2>1, <3>1 DEF WholeInv, SDK
    <3>2. CASE who # "sdk"
      <4>1. who = "session"
        BY <3>2 DEF Caller
      <4> QED
        BY <2>1, <2>4, <4>1 DEF WholeInv, Own
    <3> QED
      BY <3>1, <3>2
  <2>6. session' = "handling" /\ Own' = NoCall => EndPassed
    BY <1>1, <2>1, <2>4 DEF WholeInv
  <2>7. /\ SDK'.stage = "emitting" => SDK' = SDK
        /\ Own'.stage = "emitting" => Own' = Own
    BY <1>1, <1>2, <1>3
  <2> QED
    BY <1>9, <2>1, <2>3, <2>5, <2>6, <2>7 DEF WholeInv
<1> QED
  BY <1>4, <1>9, <1>10 DEF TurnInv

(* The locked part of handleEvent for an event that is not ignored.         *)
LEMMA HandledKeeps ==
    ASSUME TurnInv, JInv', NEW who \in Caller, Handle(who), ~terminated
    PROVE  TurnInv'
<1> DEFINE e == callback[who].event
<1>1. /\ callback[who].stage = "entered"
      /\ callback' = [callback EXCEPT ![who] = Emitting(e)]
      /\ terminated' = Terminal(e) /\ calls' = After(e)
      /\ UNCHANGED <<filterVars, delivered, doneClosed, session, sendFailed, cancelled>>
  BY DEF Handle, Call, ReducerStep, After, signals, sessionVars, client
<1>2. e \in Event /\ (who = "session" => e = [type |-> "error"])
  <2>1. who = "session" => e = [type |-> "error"]
    BY <1>1 DEF TurnInv, HandlingInv, Own
  <2>2. [type |-> "error"] \in Event
    BY DEF Event
  <2> QED
    BY <1>1, <2>1, <2>2 DEF TurnInv, HandlingInv, SDK, Caller
<1>3. /\ After(e) \in Seq(Tool) /\ Distinct(After(e)) /\ Keeps(calls, After(e))
      /\ Terminal(e) \in BOOLEAN /\ (Terminal(e) => After(e) = calls)
      /\ LeftBySDK(Reduce(e), Terminal(e), After(e))
      /\ Emitted(Emitting(e), After(e)) = Len(calls)
      /\ e.type = "error" => Reduce(e) = <<Error>> /\ Terminal(e)
      /\ Reduce(e) = <<>> => ~Terminal(e)
  <2>1. HandlingInv
    BY DEF TurnInv
  <2>2. e.type = "error" => Terminal(e)
    BY DEF Terminal
  <2> HIDE DEF e
  <2> QED
    BY <1>2, <2>1, <2>2, ReducedEvent
<1>4. Emitting(e).stage = "emitting" /\ Emitting(e).items = Reduce(e) /\ Emitting(e).terminal = Terminal(e)
  BY DEF Emitting
<1>5. SDK' = (IF who = "sdk" THEN Emitting(e) ELSE SDK) /\ Own' = (IF who = "session" THEN Emitting(e) ELSE Own)
  BY <1>1 DEF TurnInv, JInv, CallTypes, Caller, SDK, Own
<1> HIDE DEF e
<1>6. who = "session" => /\ Reduce(e) = <<Error>> /\ Terminal(e) /\ After(e) = calls
  BY <1>2, <1>3
<1>7. HandlingInv'
  <2>1. CASE who = "sdk"
    <3>1. SDK' = Emitting(e) /\ Own' = Own
      BY <1>5, <2>1
    <3> QED
      BY <1>1, <1>3, <1>4, <3>1 DEF TurnInv, HandlingInv
  <2>2. CASE who = "session"
    <3>1. SDK' = SDK /\ Own' = Emitting(e)
      BY <1>5, <2>2
    <3> QED
      BY <1>1, <1>3, <1>4, <1>6, <2>2, <3>1 DEF TurnInv, HandlingInv
  <2> QED
    BY <2>1, <2>2 DEF Caller
<1>8. /\ Emitted(SDK, calls) \in 0..Len(calls) /\ Len(calls) \in Nat
      /\ SDK.stage = "entered" => Emitted(SDK, calls) = Len(calls)
  <2> DEFINE c == SDK
  <2>1. calls \in Seq(Tool) /\ (c.stage = "emitting" => c.terminal \in BOOLEAN /\ LeftBySDK(c.items, c.terminal, calls))
    BY DEF TurnInv, HandlingInv
  <2> HIDE DEF c
  <2>2. /\ Emitted(c, calls) \in 0..Len(calls) /\ Len(calls) \in Nat
        /\ c.stage # "emitting" => Emitted(c, calls) = Len(calls)
    BY <2>1, EmittedFacts
  <2> QED
    BY <2>2 DEF c
<1>9. Emitted(SDK, calls)' = Emitted(SDK, calls)
  <2>1. CASE who = "sdk"
    <3>1. SDK' = Emitting(e) /\ SDK.stage = "entered"
      BY <1>1, <1>5, <2>1 DEF SDK
    <3> QED
      BY <1>1, <1>3, <1>8, <3>1
  <2>2. CASE who = "session"
    BY <1>1, <1>5, <1>6, <2>2
  <2> QED
    BY <2>1, <2>2 DEF Caller
<1>10. Keeps(calls, calls') /\ (Interrupted <=> Interrupted') /\ Emitted(SDK, calls) <= Emitted(SDK, calls)'
  BY <1>1, <1>3, <1>8, <1>9 DEF Interrupted
<1>11. OrderInv' /\ FilterInv' /\ (EndPassed' <=> EndPassed)
  BY <1>1, <1>7, <1>10, CallbackSteps
<1>12. ASSUME ~Interrupted'
       PROVE  WholeInv'
  <2>1. WholeInv /\ ~Interrupted /\ OrdinaryTurn
    BY <1>10, <1>12 DEF TurnInv, JInv
  <2>2. /\ filter' = "draining" => cut' # "no"
        /\ cut' = "no" =>
              Emitted(SDK, calls)' =
                 Cardinality(Items!ToolCalls(delivered)') + (IF Carrying' /\ IsTool(carry)' THEN 1 ELSE 0)
        /\ Carrying' /\ IsTool(carry)' => carry'.index = Cardinality(Items!ToolCalls(delivered)')
        /\ Carrying' /\ carry'.kind = "done" =>
              (carry'.finish = "tool_calls" <=> Items!ToolCalls(delivered)' # {})
    BY <1>1, <1>7, <1>9, <1>10, <2>1, CallbackSteps
  <2>3. who = "sdk"
    <3> SUFFICES ASSUME who = "session"
                 PROVE  FALSE
      BY DEF Caller
    <3>1. Own.stage = "entered" /\ Own # NoCall
      BY <1>1 DEF Own, NoCall
    <3> QED
      BY <2>1, <3>1 DEF OrdinaryTurn, Own
  <2>4. Own' = Own /\ SDK'.stage = "emitting" /\ SDK'.items = Reduce(e) /\ SDK'.terminal = Terminal(e)
    BY <1>4, <1>5, <2>3
  <2> QED
    BY <1>1, <1>3, <1>11, <2>1, <2>2, <2>4 DEF WholeInv
<1> QED
  BY <1>7, <1>11, <1>12 DEF TurnInv

(* An item goes from a callback to the filter.                              *)
LEMMA EmittingKeeps ==
    ASSUME TurnInv, JInv', NEW who \in Caller, Emit(who)
    PROVE  TurnInv'
<1> DEFINE q == callback[who].items
           x == Head(q)
           tools == Items!ToolCalls(delivered)
<1>1. /\ callback[who].stage = "emitting" /\ q # <<>> /\ Receive(x)
      /\ callback' = [callback EXCEPT ![who] = [callback[who] EXCEPT !.items = Tail(@)]]
      /\ UNCHANGED <<calls, terminated, delivered, doneClosed, session, sendFailed, cancelled>>
  BY DEF Emit, Sending, Call, signals, sessionVars, client, reducer
<1>2. /\ callback[who] = [stage |-> "emitting", items |-> q,
                          terminal |-> callback[who].terminal, tool |-> callback[who].tool]
      /\ callback = [v \in Caller |-> callback[v]]
  BY <1>1 DEF TurnInv, JInv, CallTypes
<1> DEFINE d == [stage |-> "emitting", items |-> Tail(q),
                 terminal |-> callback[who].terminal, tool |-> callback[who].tool]
<1>3. [callback[who] EXCEPT !.items = Tail(@)] = d
  <2> DEFINE old == callback[who]
             rest == Tail(old.items)
  <2>1. [old EXCEPT !.items = Tail(@)] = [old EXCEPT !.items = rest]
    OBVIOUS
  <2>2. old = [stage |-> "emitting", items |-> old.items, terminal |-> old.terminal, tool |-> old.tool]
    BY <1>2
  <2> HIDE DEF rest, old
  <2>3. [old EXCEPT !.items = rest] = [stage |-> "emitting", items |-> rest, terminal |-> old.terminal, tool |-> old.tool]
    BY <2>2
  <2> QED
    BY <2>1, <2>3 DEF rest, old
<1>4. d.stage = "emitting" /\ d.items = Tail(q) /\ d.terminal = callback[who].terminal
  OBVIOUS
<1> HIDE DEF d
<1>5. SDK' = (IF who = "sdk" THEN d ELSE SDK) /\ Own' = (IF who = "session" THEN d ELSE Own)
  BY <1>1, <1>2, <1>3 DEF Caller, SDK, Own
<1>6. calls \in Seq(Tool) /\ Len(calls) \in Nat
  BY DEF TurnInv, HandlingInv
<1>7. /\ x \in Item
      /\ Emitted(SDK, calls) \in 0..Len(calls) /\ Emitted(SDK, calls)' \in 0..Len(calls)
      /\ IsTool(x) => /\ Numbered(x, calls) /\ x.index = Emitted(SDK, calls)
                      /\ Emitted(SDK, calls)' = Emitted(SDK, calls) + 1
      /\ ~IsTool(x) => Emitted(SDK, calls)' = Emitted(SDK, calls)
      /\ x.kind = "done" => Emitted(SDK, calls) = Len(calls) /\ (x.finish = "tool_calls" <=> calls # <<>>)
      /\ SDK'.stage = "emitting" /\ SDK'.terminal /\ SDK'.items = <<>> => who # "sdk" \/ IsEnd(x)
      /\ Own'.stage = "emitting" /\ Own'.items = <<>> => who # "session" \/ IsEnd(x)
      /\ HandlingInv'
  <2>1. CASE who = "sdk"
    <3> DEFINE c == SDK
    <3>1. c = callback[who] /\ Own' = Own /\ SDK' = d
      BY <1>5, <2>1 DEF SDK
    <3>2. c.stage = "emitting" /\ c.items = q /\ c.terminal \in BOOLEAN /\ LeftBySDK(q, c.terminal, calls)
      BY <1>1, <3>1 DEF TurnInv, HandlingInv
    <3>3. d.terminal = c.terminal
      BY <1>4, <3>1
    <3>4. d.items = Tail(c.items) /\ c.items # <<>> /\ d.stage = "emitting" /\ x = Head(c.items)
      BY <1>1, <1>4, <3>2
    <3> HIDE DEF c, q, x
    <3>5. Popped(x, c, d, calls)
      <4>1. Pops(c, d, calls)
        BY <3>2, <3>3, <3>4 DEF Pops
      <4> QED
        BY <1>6, <3>4, <4>1, NextItem
    <3>6. HandlingInv'
      BY <1>1, <1>4, <3>1, <3>2, <3>3, <3>5 DEF TurnInv, HandlingInv, Popped, c
    <3>7. Emitted(SDK, calls) = Emitted(c, calls) /\ Emitted(SDK, calls)' = Emitted(d, calls)
      BY <1>1, <3>1 DEF c
    <3>8. x.kind = "done" => IsEnd(x)
      BY DEF IsEnd
    <3> QED
      BY <2>1, <3>1, <3>3, <3>5, <3>6, <3>7, <3>8 DEF Popped
  <2>2. CASE who = "session"
    <3>1. q = <<Error>> /\ Own' = d /\ SDK' = SDK
      BY <1>1, <1>5, <2>2 DEF TurnInv, HandlingInv, Own
    <3>2. x = Error /\ Tail(q) = <<>>
      BY <3>1
    <3>3. x \in Item /\ ~IsTool(x) /\ IsEnd(x) /\ x.kind = "error"
      BY <3>2, ItemKinds
    <3>4. HandlingInv'
      BY <1>1, <1>4, <3>1, <3>2 DEF TurnInv, HandlingInv
    <3>5. Emitted(SDK, calls) \in 0..Len(calls)
      <4> DEFINE c == SDK
      <4>1. c.stage = "emitting" => c.terminal \in BOOLEAN /\ LeftBySDK(c.items, c.terminal, calls)
        BY DEF TurnInv, HandlingInv
      <4> HIDE DEF c
      <4>2. Emitted(c, calls) \in 0..Len(calls)
        BY <1>6, <4>1, EmittedFacts
      <4> QED
        BY <4>2 DEF c
    <3>6. Emitted(SDK, calls)' = Emitted(SDK, calls)
      BY <1>1, <3>1
    <3> HIDE DEF x, q
    <3> QED
      BY <2>2, <3>3, <3>4, <3>5, <3>6
  <2> QED
    BY <2>1, <2>2 DEF Caller
<1>8. \/ filter = "draining" /\ UNCHANGED filterVars
      \/ /\ filter = "reading" /\ cut = "no"
         /\ filter' = "sending" /\ carry' = x /\ cut' = cut
         /\ toolSeen' \in BOOLEAN /\ (toolSeen' <=> toolSeen \/ IsTool(x))
      \/ /\ filter = "reading" /\ cut = "no" /\ x = Delta /\ ~toolSeen
         /\ toolSeen' = toolSeen /\ cut' \in {"stop", "length"}
         /\ \/ filter' = "sending" /\ carry' = x
            \/ filter' = "draining" /\ carry' = carry
  <2> HIDE DEF x
  <2>1. FilterInv
    BY DEF TurnInv
  <2> QED
    BY <1>1, <1>7, <2>1, Received
<1> HIDE DEF q, x
<1>9. /\ Items!ToolCalls(delivered)' = tools /\ (Items!Ended' <=> Items!Ended)
      /\ calls' = calls /\ delivered' = delivered /\ (Interrupted' <=> Interrupted)
  BY <1>1 DEF Items!Ended, Interrupted
<1>10. FilterInv /\ OrderInv
  BY DEF TurnInv
<1> HIDE DEF tools
<1>11. FilterInv'
  <2>1. CASE filter = "draining" /\ UNCHANGED filterVars
    BY <1>9, <1>10, <2>1 DEF FilterInv, filterVars, Carrying, tools
  <2>2. CASE /\ filter = "reading" /\ cut = "no"
             /\ filter' = "sending" /\ carry' = x /\ cut' = cut
             /\ toolSeen' \in BOOLEAN /\ (toolSeen' <=> toolSeen \/ IsTool(x))
    BY <1>7, <1>9, <1>10, <2>2 DEF FilterInv, Carrying, tools
  <2>3. CASE /\ filter = "reading" /\ cut = "no" /\ x = Delta /\ ~toolSeen
             /\ toolSeen' = toolSeen /\ cut' \in {"stop", "length"}
             /\ \/ filter' = "sending" /\ carry' = x
                \/ filter' = "draining" /\ carry' = carry
    <3>1. ~IsTool(x)
      BY <2>3, ItemKinds
    <3> QED
      BY <1>7, <1>9, <1>10, <2>3, <3>1 DEF FilterInv, Carrying, tools
  <2> QED
    BY <1>8, <2>1, <2>2, <2>3
<1>12. OrderInv'
  <2> DEFINE m == Emitted(SDK, calls)
             n == Emitted(SDK, calls)'
  <2>1. m \in Int /\ n \in Int /\ m <= n /\ (IsTool(x) => x.index = m /\ n = m + 1 /\ Numbered(x, calls))
    BY <1>7
  <2>2. \A i \in tools : Numbered(delivered[i], calls) /\ delivered[i].index < m /\ delivered[i].index \in Int
    <3>1. \A i \in tools : Numbered(delivered[i], calls) /\ delivered[i].index < m
      BY <1>10 DEF OrderInv, tools
    <3>2. \A i \in tools : delivered[i].index \in Int
      BY <3>1 DEF Numbered
    <3> QED
      BY <3>1, <3>2
  <2>3. Carrying /\ IsTool(carry) =>
           /\ Numbered(carry, calls) /\ carry.index < m /\ carry.index \in Int
           /\ \A i \in tools : delivered[i].index < carry.index
    <3>1. Carrying /\ IsTool(carry) =>
             /\ Numbered(carry, calls) /\ carry.index < m
             /\ \A i \in tools : delivered[i].index < carry.index
      BY <1>10 DEF OrderInv, tools
    <3> QED
      BY <3>1 DEF Numbered
  <2> HIDE DEF m, n
  <2>4. \A i \in tools : delivered[i].index < n
    BY <2>1, <2>2
  <2>5. Carrying' /\ IsTool(carry)' =>
           /\ Numbered(carry', calls) /\ carry'.index < n
           /\ \A i \in tools : delivered[i].index < carry'.index
    <3>1. CASE filter = "draining" /\ UNCHANGED filterVars
      BY <3>1 DEF filterVars, Carrying
    <3>2. CASE filter' = "sending" /\ carry' = x
      BY <2>1, <2>2, <3>2 DEF IsTool
    <3>3. CASE filter' = "draining"
      BY <3>3 DEF Carrying
    <3> QED
      BY <1>8, <3>1, <3>2, <3>3
  <2>6. \A i \in tools : Numbered(delivered[i], calls)
    BY <2>2
  <2> HIDE DEF Carrying, IsTool
  <2> QED
    BY <1>9, <2>4, <2>5, <2>6 DEF OrderInv, n
<1>13. ASSUME ~Interrupted'
       PROVE  WholeInv'
  <2>1. WholeInv /\ ~Interrupted
    BY <1>9, <1>13 DEF TurnInv
  <2>2. EndPassed => EndPassed'
    BY <1>8 DEF EndPassed, filterVars, Carrying
  <2>3. IsEnd(x) => EndPassed'
    <3>1. CASE filter = "draining" /\ UNCHANGED filterVars
      BY <2>1, <3>1 DEF WholeInv, EndPassed, filterVars
    <3>2. CASE filter' = "sending" /\ carry' = x
      BY <3>2 DEF EndPassed, Carrying, IsEnd
    <3>3. CASE x = Delta
      BY <3>3, ItemKinds
    <3> QED
      BY <1>8, <3>1, <3>2, <3>3
  <2>4. Cardinality(tools) \in Nat /\ (Cardinality(tools) = 0 <=> tools = {})
    BY <1>7, <1>10, OneMoreItem DEF FilterInv, tools
  <2>5. cut = "no" => Emitted(SDK, calls) = Cardinality(tools) + (IF Carrying /\ IsTool(carry) THEN 1 ELSE 0)
    BY <2>1 DEF WholeInv, tools
  <2>6. calls # <<>> <=> Len(calls) # 0
    BY <1>6
  <2>7. /\ filter' = "draining" => cut' # "no"
        /\ cut' = "no" =>
              Emitted(SDK, calls)' = Cardinality(tools) + (IF Carrying' /\ IsTool(carry)' THEN 1 ELSE 0)
        /\ Carrying' /\ IsTool(carry)' => carry'.index = Cardinality(tools)
        /\ Carrying' /\ carry'.kind = "done" => (carry'.finish = "tool_calls" <=> tools # {})
    <3>1. CASE filter = "draining" /\ UNCHANGED filterVars
      BY <2>1, <3>1 DEF WholeInv, filterVars, Carrying
    <3>2. CASE /\ filter = "reading" /\ cut = "no"
               /\ filter' = "sending" /\ carry' = x /\ cut' = cut
      <4>1. ~Carrying /\ Carrying' /\ (IsTool(carry)' <=> IsTool(x))
        BY <3>2 DEF Carrying, IsTool
      <4>2. Emitted(SDK, calls) = Cardinality(tools)
        BY <2>4, <2>5, <3>2, <4>1
      <4>3. IsTool(x) => x.index = Cardinality(tools) /\ Emitted(SDK, calls)' = Cardinality(tools) + 1
        BY <1>7, <4>2
      <4>4. ~IsTool(x) => Emitted(SDK, calls)' = Cardinality(tools) + 0
        BY <1>7, <2>4, <4>2
      <4>5. x.kind = "done" => (x.finish = "tool_calls" <=> tools # {})
        BY <1>7, <2>4, <2>6, <4>2
      <4> QED
        BY <3>2, <4>1, <4>3, <4>4, <4>5
    <3>3. CASE /\ x = Delta /\ cut' \in {"stop", "length"}
               /\ \/ filter' = "sending" /\ carry' = x
                  \/ filter' = "draining" /\ carry' = carry
      <4>1. ~IsTool(x) /\ x.kind = "delta"
        BY <3>3, ItemKinds
      <4> QED
        BY <3>3, <4>1 DEF Carrying, IsTool
    <3> QED
      BY <1>8, <3>1, <3>2, <3>3
  <2>8. session' = "handling" /\ Own' = NoCall => session = "handling" /\ Own = NoCall
    BY <1>1, <1>4, <1>5 DEF NoCall
  <2>9. /\ SDK'.stage = "emitting" /\ SDK'.terminal /\ SDK'.items = <<>> =>
              IsEnd(x) \/ (SDK.stage = "emitting" /\ SDK.terminal /\ SDK.items = <<>>)
        /\ Own'.stage = "emitting" /\ Own'.items = <<>> =>
              IsEnd(x) \/ (Own.stage = "emitting" /\ Own.items = <<>>)
    BY <1>5, <1>7
  <2> HIDE DEF Carrying, IsTool
  <2> QED
    BY <1>1, <1>9, <2>1, <2>2, <2>3, <2>7, <2>8, <2>9 DEF WholeInv, tools
<1> QED
  BY <1>7, <1>11, <1>12, <1>13 DEF TurnInv

(* The filter and the consumer.                                             *)
LEMMA FilteringKeeps ==
    ASSUME TurnInv, JInv', Forward \/ ForwardFails \/ EndOfRaw \/ CloseOut
    PROVE  TurnInv'
<1> DEFINE tools == Items!ToolCalls(delivered)
<1>1. /\ UNCHANGED <<callback, calls, terminated, doneClosed, session, rawClosed, toolSeen, sendFailed, cancelled>>
      /\ SDK' = SDK /\ Own' = Own
  BY DEF Forward, ForwardFails, EndOfRaw, CloseOut, sessionVars, client, signals, reducer, SDK, Own
<1>2. HandlingInv' /\ (Interrupted' <=> Interrupted) /\ Emitted(SDK, calls)' = Emitted(SDK, calls)
  BY <1>1 DEF TurnInv, HandlingInv, Interrupted
<1>3. FilterInv /\ OrderInv /\ (~Interrupted => WholeInv)
  BY DEF TurnInv
<1>4. CASE Forward
  <2>1. /\ Carrying /\ ~Carrying' /\ delivered' = Append(delivered, carry) /\ cut' = cut
        /\ filter' = IF IsEnd(carry) THEN "finished" ELSE IF cut # "no" THEN "draining" ELSE "reading"
    BY <1>4 DEF Forward, Carrying, IsEnd
  <2>2. delivered \in Seq(Item) /\ carry \in Item /\ filter = "sending"
    BY <1>3, <2>1 DEF FilterInv, Carrying
  <2>3. /\ delivered' \in Seq(Item) /\ Last(delivered') = carry /\ delivered' # <<>>
        /\ \A i \in tools : delivered'[i] = delivered[i]
        /\ Cardinality(tools) \in Nat
        /\ (Cardinality(tools) = 0) <=> (tools = {})
        /\ ~IsTool(carry) => tools' = tools
        /\ IsTool(carry) => /\ tools' = tools \cup {Len(delivered) + 1}
                            /\ delivered'[Len(delivered) + 1] = carry
                            /\ Cardinality(tools') = Cardinality(tools) + 1
    BY <2>1, <2>2, OneMoreItem
  <2>4. Items!Ended' <=> IsEnd(carry)
    BY <2>3 DEF Items!Ended, IsEnd, Last, Items!Last
  <2> HIDE DEF tools
  <2>5. FilterInv'
    <3>1. ~toolSeen' => tools' = {}
      BY <1>1, <1>3, <2>1, <2>3 DEF FilterInv, tools
    <3> QED
      BY <1>1, <1>2, <1>3, <2>1, <2>3, <2>4, <3>1 DEF FilterInv, tools
  <2>6. OrderInv'
    <3>1. \A i \in tools : Numbered(delivered[i], calls) /\ delivered[i].index < Emitted(SDK, calls)
      BY <1>3 DEF OrderInv, tools
    <3>2. IsTool(carry) => Numbered(carry, calls) /\ carry.index < Emitted(SDK, calls)
      BY <1>3, <2>1 DEF OrderInv
    <3>3. \A i \in tools' : Numbered(delivered'[i], calls) /\ delivered'[i].index < Emitted(SDK, calls)
      <4>1. CASE IsTool(carry)
        BY <2>3, <3>1, <3>2, <4>1
      <4>2. CASE ~IsTool(carry)
        BY <2>3, <3>1, <4>2
      <4> QED
        BY <4>1, <4>2
    <3> QED
      BY <1>1, <1>2, <2>1, <3>3 DEF OrderInv, tools
  <2>7. ASSUME ~Interrupted'
        PROVE  WholeInv'
    <3>1. WholeInv
      BY <1>2, <1>3, <2>7
    <3>2. cut = "no" => Emitted(SDK, calls) = Cardinality(tools')
      <4>1. cut = "no" => Emitted(SDK, calls) = Cardinality(tools) + (IF IsTool(carry) THEN 1 ELSE 0)
        BY <2>1, <3>1 DEF WholeInv, tools
      <4>2. CASE IsTool(carry)
        BY <2>3, <4>1, <4>2
      <4>3. CASE ~IsTool(carry)
        BY <2>3, <4>1, <4>3
      <4> QED
        BY <4>2, <4>3
    <3>3. Cardinality(tools') \in Nat
      <4>1. CASE IsTool(carry)
        BY <2>3, <4>1
      <4>2. CASE ~IsTool(carry)
        BY <2>3, <4>2
      <4> QED
        BY <4>1, <4>2
    <3>4. EndPassed => EndPassed'
      BY <2>1, <2>2 DEF EndPassed
    <3>5. filter' = "draining" => cut' # "no"
      BY <2>1
    <3>6. cut' = "no" => Emitted(SDK, calls)' = Cardinality(tools') + 0
      BY <1>2, <2>1, <3>2, <3>3
    <3> QED
      BY <1>1, <2>1, <3>1, <3>4, <3>5, <3>6 DEF WholeInv, tools
  <2> QED
    BY <1>2, <2>5, <2>6, <2>7 DEF TurnInv
<1>5. CASE ForwardFails
  <2>1. /\ delivered' = delivered /\ ~Carrying' /\ cut' = "no" /\ Interrupted /\ Carrying
        /\ filter' \in {"finished", "draining"}
    BY <1>5 DEF ForwardFails, Carrying, Interrupted
  <2>2. tools' = tools /\ (Items!Ended' <=> Items!Ended) /\ ~Items!Ended
    BY <1>3, <2>1 DEF Items!Ended, FilterInv, Carrying
  <2> HIDE DEF tools
  <2>3. FilterInv'
    BY <1>1, <1>2, <1>3, <2>1, <2>2 DEF FilterInv, tools
  <2>4. OrderInv'
    BY <1>1, <1>2, <1>3, <2>1, <2>2 DEF OrderInv, tools
  <2> QED
    BY <1>2, <2>1, <2>3, <2>4 DEF TurnInv
<1>6. CASE EndOfRaw
  <2>1. /\ delivered' = delivered /\ cut' = cut /\ rawClosed /\ filter \in {"reading", "draining"} /\ ~Carrying
        /\ \/ cut = "no" /\ filter' = "closed" /\ ~Carrying'
           \/ cut # "no" /\ filter' = "sending" /\ carry' = Items!Done(cut)
    BY <1>6 DEF EndOfRaw, Carrying
  <2>2. tools' = tools /\ (Items!Ended' <=> Items!Ended) /\ ~Items!Ended
    BY <1>3, <2>1 DEF Items!Ended, FilterInv
  <2> HIDE DEF tools
  <2>3. cut # "no" => /\ cut \in {"stop", "length"} /\ tools = {}
                      /\ carry' \in Item /\ ~IsTool(carry)' /\ carry'.finish # "tool_calls"
    <3> SUFFICES ASSUME cut # "no"
                 PROVE  /\ cut \in {"stop", "length"} /\ tools = {}
                        /\ carry' \in Item /\ ~IsTool(carry)' /\ carry'.finish # "tool_calls"
      OBVIOUS
    <3>1. cut \in {"stop", "length"} /\ tools = {}
      BY <1>3 DEF FilterInv, tools
    <3>2. Items!Done(cut) \in Item /\ ~IsTool(Items!Done(cut)) /\ Items!Done(cut).finish = cut
      BY <3>1, ItemKinds
    <3> QED
      BY <2>1, <3>1, <3>2 DEF IsTool
  <2>4. FilterInv'
    BY <1>1, <1>2, <1>3, <2>1, <2>2, <2>3 DEF FilterInv, tools, Carrying
  <2>5. OrderInv'
    BY <1>1, <1>2, <1>3, <2>1, <2>2, <2>3 DEF OrderInv, tools, Carrying
  <2>6. ASSUME ~Interrupted'
        PROVE  WholeInv'
    <3>1. WholeInv /\ ~Interrupted
      BY <1>2, <1>3, <2>6
    <3>2. cut # "no"
      <4>1. session = "closed"
        BY <2>1 DEF TurnInv, JInv
      <4>2. EndPassed
        BY <3>1, <4>1 DEF WholeInv
      <4> QED
        BY <2>1, <4>2 DEF EndPassed
    <3>3. EndPassed' /\ filter' # "draining"
      BY <2>1, <3>2 DEF EndPassed
    <3> QED
      BY <1>1, <2>1, <2>2, <2>3, <3>1, <3>2, <3>3 DEF WholeInv, tools, Carrying
  <2> QED
    BY <1>2, <2>4, <2>5, <2>6 DEF TurnInv
<1>7. CASE CloseOut
  <2>1. /\ delivered' = delivered /\ cut' = cut /\ filter = "finished" /\ filter' = "closed"
        /\ ~Carrying /\ ~Carrying'
    BY <1>7 DEF CloseOut, Carrying
  <2>2. tools' = tools /\ (Items!Ended' <=> Items!Ended)
    BY <2>1 DEF Items!Ended
  <2> HIDE DEF tools
  <2>3. FilterInv'
    BY <1>1, <1>2, <1>3, <2>1, <2>2 DEF FilterInv, tools
  <2>4. OrderInv'
    BY <1>1, <1>2, <1>3, <2>1, <2>2 DEF OrderInv, tools
  <2>5. ASSUME ~Interrupted'
        PROVE  WholeInv'
    <3>1. WholeInv
      BY <1>2, <1>3, <2>5
    <3>2. EndPassed'
      BY <2>1 DEF EndPassed
    <3> QED
      BY <1>1, <1>2, <2>1, <2>2, <3>1, <3>2 DEF WholeInv, tools
  <2> QED
    BY <1>2, <2>3, <2>4, <2>5 DEF TurnInv
<1> QED
  BY <1>4, <1>5, <1>6, <1>7

(* The invariant is inductive.                                              *)
LEMMA StepKeepsTurnInv == TurnInv /\ [Next]_vars => TurnInv'
<1> SUFFICES ASSUME TurnInv, [Next]_vars
             PROVE  TurnInv'
  OBVIOUS
<1>1. JInv'
  BY HandlingKeeps, SessionKeeps, OthersKeep DEF Next, Goroutines, TurnInv
<1>2. ASSUME NEW who \in Caller, Handle(who) \/ Emit(who) \/ GiveUp(who) \/ Panic(who) \/ Return(who)
      PROVE  TurnInv'
  <2>1. CASE Handle(who)
    <3>1. CASE terminated
      <4>1. /\ callback' = [callback EXCEPT ![who] = NoCall]
            /\ UNCHANGED <<calls, terminated, filterVars, delivered, session, sendFailed, cancelled>>
            /\ callback[who].stage = "entered" /\ doneClosed' = doneClosed
        BY <2>1, <3>1 DEF Handle, Call, reducer, signals, sessionVars, client
      <4> QED
        BY <1>1, <4>1, EndingKeeps
    <3>2. CASE ~terminated
      BY <1>1, <2>1, <3>2, HandledKeeps
    <3> QED
      BY <3>1, <3>2
  <2>2. CASE Emit(who)
    BY <1>1, <2>2, EmittingKeeps
  <2>3. CASE GiveUp(who) \/ Panic(who)
    <3>1. /\ callback' = [callback EXCEPT ![who] = NoCall]
          /\ UNCHANGED <<calls, terminated, filterVars, delivered, session, sendFailed, cancelled>>
      BY <2>3 DEF GiveUp, Panic, Call, reducer, signals, sessionVars, client
    <3>2. Interrupted
      <4>1. CASE GiveUp(who)
        BY <4>1 DEF GiveUp, Interrupted
      <4>2. CASE Panic(who)
        <5>1. panicked'
          BY <4>2 DEF Panic
        <5>2. Interrupted'
          BY <1>1, <5>1 DEF JInv
        <5> QED
          BY <3>1, <5>2 DEF Interrupted
      <4> QED
        BY <2>3, <4>1, <4>2
    <3> QED
      BY <1>1, <3>1, <3>2, EndingKeeps
  <2>4. CASE Return(who)
    <3>1. /\ callback' = [callback EXCEPT ![who] = NoCall]
          /\ UNCHANGED <<calls, terminated, filterVars, delivered, session, sendFailed, cancelled>>
          /\ callback[who].stage = "emitting" /\ callback[who].items = <<>>
          /\ doneClosed' = (doneClosed \/ callback[who].terminal)
      BY <2>4 DEF Return, Call, reducer, sessionVars, client
    <3> QED
      BY <1>1, <3>1, EndingKeeps
  <2> QED
    BY <1>2, <2>1, <2>2, <2>3, <2>4
<1>3. CASE Open \/ Sent \/ Waited \/ CloseRaw \/ Settle \/ Cancel \/ StopReading \/ UNCHANGED vars
  BY <1>1, <1>3, WaitingKeeps
<1>4. CASE OpenFails \/ SendFails
  BY <1>1, <1>4, ReportingKeeps
<1>5. CASE Forward \/ ForwardFails \/ EndOfRaw \/ CloseOut
  BY <1>1, <1>5, FilteringKeeps
<1>6. ASSUME NEW e \in Event, Raise(e)
      PROVE  TurnInv'
  BY <1>1, <1>6, RaisingKeeps
<1> QED
  BY <1>2, <1>3, <1>4, <1>5, <1>6 DEF Next, Goroutines

-----------------------------------------------------------------------------
(* Every step is one of the abstract stream's, or leaves it as it is.       *)

Interface == <<delivered, filter = "closed", Interrupted>>

(* The interface counts as the component does.                              *)
LEMMA SameCount ==
    \A S : Items!Cardinality(S) = Cardinality(S)
BY DEF Items!Cardinality, Cardinality

(* The consumer takes an item: a delta, the next tool call, or the end.     *)
LEMMA ForwardDelivers ==
    ASSUME TurnInv, Forward
    PROVE  Items!Next
<1>1. /\ filter = "sending" /\ filter' # "closed" /\ delivered' = Append(delivered, carry)
      /\ cancelled' = cancelled /\ sendFailed' = sendFailed
  BY DEF Forward, client, sessionVars
<1>2. /\ carry \in Item /\ ~Items!Ended /\ delivered \in Seq(Item)
  BY <1>1 DEF TurnInv, FilterInv, Carrying
<1>3. Items!Deliver(carry)
  BY <1>1, <1>2 DEF Items!Deliver
<1>4. CASE carry.kind = "delta"
  BY <1>2, <1>3, <1>4, ItemKinds DEF Items!Next, Delta
<1>5. CASE carry.kind = "error"
  BY <1>2, <1>3, <1>5, ItemKinds DEF Items!Next, Error
<1>6. CASE carry.kind = "done"
  <2>1. PICK f \in {"stop", "length", "tool_calls"} : carry = Items!Done(f)
    BY <1>2, <1>6, ItemKinds
  <2>2. carry.finish = f
    BY <2>1, ItemKinds
  <2>3. Interrupted \/ (f = "tool_calls" <=> Items!ToolCalls(delivered) # {})
    BY <1>1, <1>6, <2>2 DEF TurnInv, WholeInv, Carrying
  <2>4. Items!DeliverDone(f)
    BY <1>3, <2>1, <2>3 DEF Items!DeliverDone, Interrupted
  <2> QED
    BY <2>4 DEF Items!Next
<1>7. CASE carry.kind = "tool_call"
  <2> DEFINE n == carry.index
             t == calls[n + 1]
  <2>1. /\ Numbered(carry, calls) /\ calls \in Seq(Tool) /\ Distinct(calls)
        /\ \A i \in Items!ToolCalls(delivered) : Numbered(delivered[i], calls) /\ delivered[i].index < n
    BY <1>1, <1>7 DEF TurnInv, OrderInv, HandlingInv, Carrying, IsTool
  <2>2. n \in 0..(Len(calls) - 1) /\ carry = Items!ToolCall(t, n) /\ t \in Tool
    BY <2>1 DEF Numbered
  <2>3. Len(calls) <= Cardinality(Tool) /\ Cardinality(Tool) \in Nat /\ Len(calls) \in Nat
    <3>1. Cardinality(ToSet(calls)) = Len(calls) /\ Len(calls) \in Nat
      BY <2>1, DistinctCount
    <3>2. ToSet(calls) \subseteq Tool
      BY <2>1 DEF ToSet
    <3> QED
      BY <3>1, <3>2, StreamAssumption, FS_Subset, FS_CardinalityType
  <2>4. n \in 0..Cardinality(Tool)
    BY <2>2, <2>3
  <2>5. ASSUME NEW i \in Items!ToolCalls(delivered)
        PROVE  delivered[i].tool # t
    <3> DEFINE m == delivered[i].index
    <3>1. m \in 0..(Len(calls) - 1) /\ delivered[i] = Items!ToolCall(calls[m + 1], m) /\ m < n
      BY <2>1 DEF Numbered
    <3>2. delivered[i].tool = calls[m + 1]
      BY <3>1 DEF Items!ToolCall
    <3> HIDE DEF m, n
    <3>3. m + 1 \in 1..Len(calls) /\ n + 1 \in 1..Len(calls) /\ m + 1 # n + 1
      BY <2>2, <2>3, <3>1
    <3> QED
      BY <2>1, <3>2, <3>3 DEF Distinct
  <2>6. Interrupted \/ n = Cardinality(Items!ToolCalls(delivered))
    BY <1>1, <1>7 DEF TurnInv, WholeInv, Carrying, IsTool
  <2> HIDE DEF n, t
  <2>7. Items!DeliverTool(t, n)
    BY <1>3, <2>2, <2>5, <2>6, SameCount DEF Items!DeliverTool, Interrupted
  <2> QED
    BY <2>2, <2>4, <2>7, SameCount DEF Items!Next
<1>8. carry.kind \in {"delta", "error", "done", "tool_call"}
  BY <1>2, ItemKinds
<1> QED
  BY <1>4, <1>5, <1>6, <1>7, <1>8

(* The other steps close the channel, break the turn off, or do nothing     *)
(* that the consumer sees.                                                  *)
LEMMA StepRefines ==
    ASSUME TurnInv, [Next]_vars
    PROVE  [Items!Next]_<<delivered, filter = "closed", cancelled \/ sendFailed>>
<1>1. CASE Forward
  BY <1>1, ForwardDelivers
<1>2. CASE EndOfRaw \/ CloseOut
  <2>1. /\ delivered' = delivered /\ cancelled' = cancelled /\ sendFailed' = sendFailed
        /\ filter # "closed"
    BY <1>2 DEF EndOfRaw, CloseOut, client, sessionVars
  <2>2. CASE filter' = "closed"
    <3>1. Items!Ended \/ Interrupted
      <4>1. CASE CloseOut
        BY <4>1 DEF CloseOut, TurnInv, FilterInv
      <4>2. CASE EndOfRaw
        <5>1. rawClosed /\ cut = "no" /\ filter \in {"reading", "draining"}
          BY <2>2, <4>2 DEF EndOfRaw
        <5>2. session = "closed"
          BY <5>1 DEF TurnInv, JInv
        <5>3. ~Interrupted => EndPassed
          BY <5>2 DEF TurnInv, WholeInv
        <5> QED
          BY <5>1, <5>3 DEF EndPassed, Carrying
      <4> QED
        BY <1>2, <4>1, <4>2
    <3>2. Items!Close
      BY <2>1, <2>2, <3>1 DEF Items!Close, Interrupted
    <3> QED
      BY <3>2 DEF Items!Next
  <2>3. CASE filter' # "closed"
    BY <2>1, <2>3
  <2> QED
    BY <2>2, <2>3
<1>3. CASE Cancel \/ SendFails
  <2>1. delivered' = delivered /\ filter' = filter /\ (cancelled' \/ sendFailed')
    BY <1>3 DEF Cancel, SendFails, filterVars
  <2>2. Items!BreakOff
    BY <2>1 DEF Items!BreakOff
  <2> QED
    BY <2>2 DEF Items!Next
<1>4. ASSUME NEW who \in Caller, Handle(who) \/ Emit(who) \/ GiveUp(who) \/ Panic(who) \/ Return(who)
      PROVE  UNCHANGED <<delivered, filter = "closed", cancelled \/ sendFailed>>
  <2>1. UNCHANGED <<delivered, cancelled, sendFailed>>
    BY <1>4 DEF Handle, Emit, GiveUp, Panic, Return, client, sessionVars
  <2>2. (filter' = "closed") <=> (filter = "closed")
    <3>1. CASE Emit(who)
      <4>1. \/ filter = "draining" /\ filter' = filter
            \/ filter = "reading" /\ filter' \in {"sending", "draining"}
        BY <3>1 DEF Emit, Receive, ReceiveDelta, Carry, filterVars
      <4> QED
        BY <4>1
    <3>2. CASE ~Emit(who)
      BY <1>4, <3>2 DEF Handle, GiveUp, Panic, Return, filterVars
    <3> QED
      BY <3>1, <3>2
  <2> QED
    BY <2>1, <2>2
<1>5. CASE Open \/ OpenFails \/ Sent \/ Waited \/ CloseRaw \/ Settle \/ ForwardFails \/ StopReading \/ UNCHANGED vars
  <2>1. UNCHANGED <<delivered, cancelled, sendFailed>>
    BY <1>5 DEF Open, OpenFails, Sent, Waited, CloseRaw, Settle, ForwardFails, StopReading, vars, client, sessionVars
  <2>2. (filter' = "closed") <=> (filter = "closed")
    BY <1>5 DEF Open, OpenFails, Sent, Waited, CloseRaw, Settle, ForwardFails, StopReading, vars, filterVars
  <2> QED
    BY <2>1, <2>2
<1>6. ASSUME NEW e \in Event, Raise(e)
      PROVE  UNCHANGED <<delivered, filter = "closed", cancelled \/ sendFailed>>
  BY <1>6 DEF Raise, client, sessionVars, filterVars
<1> QED
  BY <1>1, <1>2, <1>3, <1>4, <1>5, <1>6 DEF Next, Goroutines

(* The goroutines of a streamed turn, the filter among them, give the       *)
(* consumer the stream that Backend.ChatStream promises: whatever the SDK   *)
(* announces, however often and in whatever events, for any tools, wherever *)
(* the filter cuts, and whenever the client leaves (copilot_sdk_stream.go). *)
THEOREM TurnImplementsItemStream == Spec => ImplementsItemStream
<1>1. Init => Items!Init
  BY DEF Init, Items!Init
<1>2. Spec => []TurnInv
  BY InitTurnInv, StepKeepsTurnInv, PTL DEF Spec
<1>3. TurnInv /\ [Next]_vars => [Items!Next]_<<delivered, filter = "closed", cancelled \/ sendFailed>>
  BY StepRefines
<1> QED
  BY <1>1, <1>2, <1>3, PTL DEF Spec, Items!Spec, ImplementsItemStream

====
