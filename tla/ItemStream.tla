------------------------------ MODULE ItemStream ------------------------------
(***************************************************************************)
(* What Backend.ChatStream promises its consumer: a channel of items with  *)
(* deltas and tool calls, each tool call once and numbered in order, then  *)
(* one terminal item that tells whether there were tool calls, then the    *)
(* channel is closed.  It is closed early only when the turn broke off: the *)
(* consumer's context is done, or the prompt could not be sent.            *)
(***************************************************************************)
EXTENDS Naturals, SequencesExt

CONSTANTS Tool

VARIABLES
    delivered,  \* the items received so far
    closed,     \* the channel is closed
    broken      \* the turn broke off

Delta == [kind |-> "delta"]
ToolCall(t, i) == [kind |-> "tool_call", tool |-> t, index |-> i]
Done(finish) == [kind |-> "done", finish |-> finish]
Error == [kind |-> "error"]

(* Where the tool calls are among the items.                                *)
ToolCalls(q) == {i \in DOMAIN q : q[i].kind = "tool_call"}

Ended == delivered # <<>> /\ Last(delivered).kind \in {"done", "error"}

Init == delivered = <<>> /\ closed = FALSE /\ broken = FALSE

Deliver(item) ==
    /\ ~closed /\ ~Ended
    /\ delivered' = Append(delivered, item)
    /\ UNCHANGED <<closed, broken>>

(* Once the turn broke off items may be missing, but none comes twice.      *)
DeliverTool(t, index) ==
    /\ broken \/ index = Cardinality(ToolCalls(delivered))
    /\ \A i \in ToolCalls(delivered) : delivered[i].tool # t
    /\ Deliver(ToolCall(t, index))

(* An answer with tool calls says so, one without does not.                 *)
DeliverDone(finish) ==
    /\ broken \/ (finish = "tool_calls" <=> ToolCalls(delivered) # {})
    /\ Deliver(Done(finish))

BreakOff == broken' = TRUE /\ UNCHANGED <<delivered, closed>>

Close ==
    /\ ~closed /\ (Ended \/ broken)
    /\ closed' = TRUE
    /\ UNCHANGED <<delivered, broken>>

Next ==
    \/ Deliver(Delta) \/ Deliver(Error) \/ (\E t \in Tool, i \in 0..Cardinality(Tool) : DeliverTool(t, i))
    \/ \E finish \in {"stop", "length", "tool_calls"} : DeliverDone(finish)
    \/ BreakOff \/ Close

Spec == Init /\ [][Next]_<<delivered, closed, broken>>
=============================================================================
