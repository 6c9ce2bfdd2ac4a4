---------------------------- MODULE CollectedTurn ----------------------------
(***************************************************************************)
(* An answer that is collected before it is passed on: CopilotBackend.Chat,*)
(* chatSDKStructured, retryTransientChat, sendSDKAndCollect and            *)
(* applySDKOutputConstraints (copilot_http.go) with the validation and     *)
(* repair of structured output (structured_output.go).                     *)
(*                                                                         *)
(* The SDK calls back on a goroutine of its own, one event at a time; each *)
(* callback changes the result under its mutex and then leaves a signal in *)
(* a channel of size one, which is one step here.  The caller's goroutine  *)
(* selects among the channels and its timer.  It may also be told at any   *)
(* time that its client has left, which shows as a timeout or a failure.   *)
(*                                                                         *)
(* A text is what the validator and extractJSONPayload make of it; all     *)
(* texts have two tokens, what is left of a cut one has one.               *)
(***************************************************************************)
EXTENDS SessionTools, SequencesExt

CONSTANTS
    TurnRequest,   \* the requests considered, a subset of SessionRequest
    Limited,       \* those of them with stop sequences or max_tokens
    Content,       \* texts the model writes
    PlainContent,  \* those for a request without a format
    EventUsage,    \* usages the SDK reports
    CallId,        \* ids of calls in a session: a tool and a number
    MaxTurnEvents, \* bound on the events of one session
    Unset

ASSUME TurnAssumption ==
    /\ TurnRequest \subseteq SessionRequest /\ Limited \subseteq TurnRequest
    /\ PlainContent \subseteq Content
    /\ EventUsage \subseteq [in : Nat, out : Nat, total : Nat]
    /\ Content \subseteq {"empty", "cut", "prose", "array", "object", "conforming", "wrapped"}

VARIABLES
    req,       \* the request
    phase,     \* where its goroutine is
    try,       \* retryTransientChat's i
    repair,    \* the turn is the one repair
    raised,    \* events the SDK has raised in the session
    result,    \* sendSDKAndCollect's result
    signal,    \* idleCh, toolCh and errCh hold something
    prior,     \* usage of the answer that was rejected
    spent,     \* (history) usage of the turns that ended with an answer
    requested, \* (history) calls requested of the client in the last session
    reply      \* what the caller gets

turnVars == <<req, phase, try, repair, raised, result, signal, prior, spent, requested, reply>>

-----------------------------------------------------------------------------
(* Usage. *)

Greater(m, n) == IF m > n THEN m ELSE n
Normalized(u) == [u EXCEPT !.total = Greater(@, u.in + u.out)]

Overwriting(old, new) == IF new # 0 THEN new ELSE old

mergeSDKUsage(base, next) ==
    Normalized([in |-> Overwriting(base.in, next.in), out |-> Overwriting(base.out, next.out),
                total |-> Overwriting(base.total, next.total)])

accumulateUsage(base, next) ==
    Normalized([in |-> base.in + next.in, out |-> base.out + next.out, total |-> base.total + next.total])

NoUsage == [in |-> 0, out |-> 0, total |-> 0]

ApproxTokens(content) == CASE content = "empty" -> 0 [] content = "cut" -> 1 [] OTHER -> 2

-----------------------------------------------------------------------------
(* The result of a session. *)

(* A call's id says whose call it is and which of them.  A call announced     *)
(* without an id is given one of its own, like one that is announced once.    *)
CallsOf(tools) == {id \in CallId : id[1] \in tools}
Call(id, args) == [id |-> id, args |-> args]
Args == {"{}", "full"}

(* Mutant: every announcement is a call.                                      *)
AppendAlways(calls, c) == Append(calls, c)

(* appendToolCallUnique: a call announced twice is one call; the arguments    *)
(* may come with the second announcement.                                     *)
AppendUnique(calls, c) ==
    IF \E i \in DOMAIN calls : calls[i].id = c.id
    THEN [i \in DOMAIN calls |->
             IF calls[i].id = c.id /\ calls[i].args = "{}" THEN c ELSE calls[i]]
    ELSE Append(calls, c)

Passed(c) == c.id \notin CallsOf(InternalTools(req))

Fresh == [content |-> "empty", calls |-> <<>>, usage |-> [in |-> 1, out |-> 0, total |-> 1]]
Silent == [idle |-> FALSE, tool |-> FALSE, err |-> Unset]

Announced == {<<Call(id, a)>> : id \in CallsOf(CallableTools(req)), a \in Args}

SessionEvent ==
    [type : {"message"}, content : IF WantsJSON(req) THEN Content ELSE PlainContent, out : {0, 3},
     calls : {<<>>} \cup Announced]
    \cup [type : {"external"}, calls : Announced]
    \cup [type : {"usage"}, usage : EventUsage]
    \cup [type : {"idle"}] \cup [type : {"error"}, kind : {"overload", "other"}]

AddCall(calls, c) == IF Passed(c) THEN AppendUnique(calls, c) ELSE calls

WithCalls(e) == FoldLeft(AddCall, result.calls, e.calls)

(* The subscribed handler.  A second error finds errCh full.                  *)
Receive(e) ==
    CASE e.type = "message" ->
           /\ result' = [content |-> e.content, calls |-> WithCalls(e),
                         usage |-> [result.usage EXCEPT !.out = IF e.out = 0 THEN @ ELSE e.out]]
           /\ signal' = [signal EXCEPT !.tool = @ \/ WithCalls(e) # <<>>]
      [] e.type = "external" ->
           /\ result' = [result EXCEPT !.calls = WithCalls(e)]
           /\ signal' = [signal EXCEPT !.tool = @ \/ \E i \in DOMAIN e.calls : Passed(e.calls[i])]
      [] e.type = "usage" ->
           /\ result' = [result EXCEPT !.usage = mergeSDKUsage(@, Normalized(e.usage))]
           /\ UNCHANGED signal
      [] e.type = "idle" -> signal' = [signal EXCEPT !.idle = TRUE] /\ UNCHANGED result
      [] e.type = "error" ->
           /\ signal' = [signal EXCEPT !.err = IF @ = Unset THEN e.kind ELSE @]
           /\ UNCHANGED result

Asked(e) ==
    IF e.type \in {"message", "external"}
    THEN {e.calls[i].id : i \in DOMAIN e.calls} \ CallsOf(InternalTools(req)) ELSE {}

RaiseEvent(e) ==
    /\ phase \in {"sending", "waiting", "settling"} /\ raised < MaxTurnEvents
    /\ raised' = raised + 1
    /\ Receive(e)
    /\ requested' = requested \cup Asked(e)
    /\ UNCHANGED <<req, phase, try, repair, prior, spent, reply>>

-----------------------------------------------------------------------------
(* retryTransientChat around chatSDKOnce. *)

Attempts == IF HasWebSearch(req) THEN 2 ELSE 3

End(answer) == phase' = "ended" /\ reply' = answer

Failure(kind) == [status |-> kind]

(* Another attempt after a pause, if the failure is an overload and the       *)
(* attempts are not used up.                                                  *)
SessionFails(kind) ==
    /\ IF kind = "overload" /\ try < Attempts - 1
       THEN phase' = "pausing" /\ UNCHANGED reply
       ELSE End(Failure(kind))
    /\ UNCHANGED <<req, try, repair, raised, result, signal, prior, spent, requested>>

Begin ==
    /\ phase = "checking"
    /\ IF ToolConflict(req) THEN End(Failure("refused")) ELSE phase' = "opening" /\ UNCHANGED reply
    /\ UNCHANGED <<req, try, repair, raised, result, signal, prior, spent, requested>>

(* Client and session exist, the handler is subscribed.  Nothing limits how   *)
(* long that takes, and it may never happen.                                  *)
OpenSession ==
    /\ phase = "opening"
    /\ phase' = "sending"
    /\ result' = Fresh /\ signal' = Silent /\ raised' = 0 /\ requested' = {}
    /\ UNCHANGED <<req, try, repair, prior, spent, reply>>

OpenOrSendFails(kind) == phase \in {"opening", "sending"} /\ SessionFails(kind)

SendPrompt ==
    /\ phase = "sending"
    /\ phase' = "waiting"
    /\ UNCHANGED <<req, try, repair, raised, result, signal, prior, spent, requested, reply>>

Pause ==
    /\ phase = "pausing"
    /\ \/ phase' = "opening" /\ try' = try + 1 /\ UNCHANGED reply
       \/ End(Failure("left")) /\ UNCHANGED try
    /\ UNCHANGED <<req, repair, raised, result, signal, prior, spent, requested>>

-----------------------------------------------------------------------------
(* applySDKOutputConstraints on what the session left; the texts it can make  *)
(* of it.                                                                     *)

Finalized(r) ==
    Normalized(IF r.usage.out = 0 THEN [r.usage EXCEPT !.out = ApproxTokens(r.content)] ELSE r.usage)

KeepCaller(kept, c) == IF c.id \in CallsOf({Reserved}) THEN kept ELSE Append(kept, c)

Callers(calls) == IF WantsJSON(req) THEN FoldLeft(KeepCaller, <<>>, calls) ELSE calls

(* The arguments of the synthetic call are the answer, conforming or not.     *)
Lifted(r) ==
    LET answers == SelectSeq(r.calls, LAMBDA c : WantsJSON(req) /\ c.id \in CallsOf({Reserved}))
    IN  IF answers = <<>> THEN {r.content}
        ELSE IF Last(answers).args = "{}" THEN {"object"} ELSE {"object", "conforming"}

(* extractJSONPayload: the value inside fences or prose.                      *)
Extracted(content) == IF WantsJSON(req) /\ content = "wrapped" THEN "conforming" ELSE content

Answer(content, calls, usage, finish) ==
    [status |-> "answered", content |-> content, calls |-> calls, usage |-> Normalized(usage), finish |-> finish]

(* A stop sequence or max_tokens leaves the beginning of the text; the counts *)
(* of the SDK do not describe it any more.                                    *)
CutShort(content, usage) ==
    IF req \in Limited /\ content # "empty"
    THEN {Answer(c, <<>>, [usage EXCEPT !.out = ApproxTokens(c), !.total = 0], f) :
              c \in {"cut", "empty"}, f \in {"stop", "length"}}
    ELSE {}

Whole(content, usage) ==
    Answer(content, <<>>, IF usage.out = 0 THEN [usage EXCEPT !.out = ApproxTokens(content)] ELSE usage, "stop")

Constrained(r) ==
    LET usage == Finalized(r)
    IN  IF Callers(r.calls) # <<>>
        THEN {Answer(c, Callers(r.calls), usage, "tool_calls") : c \in Lifted(r)}
        ELSE UNION {{Whole(Extracted(c), usage)} \cup CutShort(Extracted(c), usage) : c \in Lifted(r)}

-----------------------------------------------------------------------------
(* chatSDKStructured. *)

Valid(content) ==
    CASE req.format = "none" -> TRUE
      [] req.format = "object" -> content \in {"object", "conforming"}
      [] req.format = "schema" -> content = "conforming"

Add(u, v) == [in |-> u.in + v.in, out |-> u.out + v.out, total |-> u.total + v.total]

(* Mutant: the repaired answer is passed on without a second look.            *)
AcceptsRepaired(answer) == repair \/ answer.calls # <<>> \/ Valid(answer.content)

(* Tool calls of the caller take precedence over the format.                  *)
Accepts(answer) == answer.calls # <<>> \/ Valid(answer.content)

Collect(answer) ==
    /\ spent' = Add(spent, answer.usage)
    /\ IF Accepts(answer)
       THEN /\ End([answer EXCEPT !.usage = IF repair THEN accumulateUsage(prior, @) ELSE @])
            /\ UNCHANGED <<try, repair, prior>>
       ELSE IF repair
       THEN End(Failure("nonconforming")) /\ UNCHANGED <<try, repair, prior>>
       ELSE /\ phase' = "opening" /\ try' = 0 /\ repair' = TRUE /\ prior' = answer.usage
            /\ UNCHANGED reply
    /\ UNCHANGED <<req, raised, result, signal, requested>>

TakeIdle == phase = "waiting" /\ signal.idle /\ \E a \in Constrained(result) : Collect(a)

TakeTool ==
    /\ phase = "waiting" /\ signal.tool
    /\ phase' = "settling" /\ signal' = [signal EXCEPT !.tool = FALSE]
    /\ UNCHANGED <<req, try, repair, raised, result, prior, spent, requested, reply>>

(* More calls may follow the first; 50 ms after the last of them, or after 5 s *)
(* in all, the session is aborted.                                            *)
MoreTools ==
    /\ phase = "settling" /\ signal.tool
    /\ signal' = [signal EXCEPT !.tool = FALSE]
    /\ UNCHANGED <<req, phase, try, repair, raised, result, prior, spent, requested, reply>>

Settled == phase = "settling" /\ \E a \in Constrained(result) : Collect(a)

TakeError == phase = "waiting" /\ signal.err # Unset /\ SessionFails(signal.err)

(* Mutant: only the SDK ends the turn.                                        *)
NeverTimedOut == FALSE /\ UNCHANGED turnVars

(* 60 s, or 180 s with web search, or the request's deadline; not transient.  *)
TimedOut == phase = "waiting" /\ SessionFails("timeout")

-----------------------------------------------------------------------------
TurnInit ==
    /\ req \in TurnRequest
    /\ phase = "checking" /\ try = 0 /\ repair = FALSE /\ raised = 0
    /\ result = Fresh /\ signal = Silent /\ prior = NoUsage /\ spent = NoUsage
    /\ requested = {} /\ reply = Unset

ServerStep ==
    \/ Begin \/ OpenSession \/ SendPrompt \/ Pause
    \/ \E kind \in {"overload", "other"} : OpenOrSendFails(kind)
    \/ TakeIdle \/ TakeTool \/ MoreTools \/ Settled \/ TakeError \/ TimedOut

TurnNext == ServerStep \/ \E e \in SessionEvent : RaiseEvent(e)

-----------------------------------------------------------------------------
Answered == phase = "ended" /\ reply.status = "answered"

(* README.md, structured output: "never a 200 carrying non-conforming         *)
(* content", also not after a repair, a cut, or a synthetic call that did not *)
(* keep to the schema.  An answer with calls of the caller's tools has no     *)
(* format to keep.  chatSDKStructured.                                        *)
ConformsOrFails == Answered /\ reply.calls = <<>> => Valid(reply.content)

(* The usage of a repaired answer is that of both answers, the rejected one   *)
(* and the one that is passed on, and no total is below its parts, whatever   *)
(* the SDK reported and in which order.  A session that ended without an      *)
(* answer is not billed, whatever it used: retryTransientChat drops its       *)
(* result.  mergeSDKUsage, accumulateUsage, Usage.Normalized.                 *)
BillsBothAnswers ==
    Answered => /\ reply.usage = spent
                /\ reply.usage.total >= reply.usage.in + reply.usage.out

(* What the model asked the client to run while the turn was collected is in  *)
(* the answer, every call once, however often and in whatever events it was   *)
(* announced, and two calls of one tool are two; the synthetic call and calls *)
(* under its name in a JSON answer are not.                                   *)
CallsReachTheCaller ==
    Answered =>
        /\ {reply.calls[i].id : i \in DOMAIN reply.calls}
              = IF WantsJSON(req) THEN requested \ CallsOf({Reserved}) ELSE requested
        /\ Len(reply.calls) = Cardinality({reply.calls[i].id : i \in DOMAIN reply.calls})
        /\ reply.finish = "tool_calls" <=> reply.calls # <<>>

(* Only a session that never opens can hold a collected turn for ever: client *)
(* start and CreateSession have no time limit.  Once it is open the SDK may   *)
(* fall silent at any point, and retries and the repair come to an end: the   *)
(* turn has ended, or waits for the opening of a session that does not come.  *)
(* chatSDKOnce, sendSDKAndCollect, retryTransientChat.                        *)
CollectedTurnEnds == phase # "checking" ~> [](phase \in {"opening", "ended"})

(* README.md says that with a tool_choice that constrains the tools the       *)
(* synthetic one is withheld and the turn "falls back to prompt + validation":*)
(* a caller's schema reaches the model by the tool or by the prompt.          *)
SchemaReachesModel ==
    phase = "waiting" /\ HasSchema(req) => Reserved \in CallableTools(req) \/ PromptHasSchema(req)
=============================================================================
