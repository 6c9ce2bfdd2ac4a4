---------------------------- MODULE AnswerStream ----------------------------
(***************************************************************************)
(* What a streamed answer looks like to its client: the events that        *)
(* StreamChat, StreamResponses and StreamAnthropic (gateway.go) make of    *)
(* the items of a backend, or of a cached record, and what Gemini's stream *)
(* (gemini.go) makes of the chat events; against the answer a request      *)
(* without "stream" gets (openai.go, gemini.go).                           *)
(*                                                                         *)
(* A text is a sequence of runes.  A call is the kind of its tool, its     *)
(* arguments are one piece.  Events are reduced to what they do at the     *)
(* client: open a block, add a piece to it, check or close it.             *)
(***************************************************************************)
EXTENDS Naturals, SequencesExt

CONSTANTS
    Rune,
    MaxRunes,    \* bound on the length of an answer
    ChunkSize,   \* 24 in the code
    MaxCalls,    \* bound on the calls of an answer
    Nothing

ToolKind == {"function", "custom"}
ItemKind == {"message", "function_call", "custom_tool_call", "web_search_call", "text", "tool_use"}

ASSUME AnswerAssumption ==
    /\ MaxRunes \in Nat /\ MaxCalls \in Nat /\ ChunkSize \in Nat \ {0}
    /\ Nothing \notin [kind : ItemKind, text : Seq(Rune) \cup Seq(ToolKind)]

VARIABLES
    form,      \* the request: protocol, source of the answer, options
    whole,     \* all that the backend's channel delivers, or what the cache has
    left,      \* what the backend has still to send
    collected, \* what the producer has collected
    stage,     \* where the producer is
    outbox,    \* the events it is about to send
    client     \* what the client has made of the events

streamVars == <<form, whole, left, collected, stage, outbox, client>>

Upto(n, S) == UNION {[1..k -> S] : k \in 0..n}
Finish(calls, finish) == IF calls = <<>> THEN finish ELSE "tool_calls"

Answers ==
    {[text |-> t, calls |-> c, finish |-> Finish(c, f)] :
        t \in Upto(MaxRunes, Rune), c \in Upto(MaxCalls, ToolKind), f \in {"stop", "length"}}

Forms ==
    [protocol : {"chat", "gemini"}, source : {"live", "cache"}, usage : BOOLEAN, web : {FALSE}]
    \cup [protocol : {"responses"}, source : {"live", "cache"}, usage : {FALSE}, web : BOOLEAN]
    \cup [protocol : {"anthropic"}, source : {"live", "cache"}, usage : {FALSE}, web : {FALSE}]

(* charChunks *)
charChunks(text) ==
    [i \in 1..(Len(text) + ChunkSize - 1) \div ChunkSize |->
        LET end == IF i * ChunkSize > Len(text) THEN Len(text) ELSE i * ChunkSize
        IN  SubSeq(text, (i - 1) * ChunkSize + 1, end)]

Each(f(_), s) == [i \in DOMAIN s |-> f(s[i])]

-----------------------------------------------------------------------------
(* Events. *)

Plain(type) == [type |-> type]
Open(k, kind) == [type |-> "open", index |-> k, kind |-> kind]
Piece(k, text) == [type |-> "piece", index |-> k, text |-> text]
Note(k) == [type |-> "note", index |-> k]
Check(k, text) == [type |-> "check", index |-> k, text |-> text]
Close(k, item) == [type |-> "close", index |-> k, item |-> item]
EndEvent(finish, output, text) == [type |-> "end", finish |-> finish, output |-> output, text |-> text]

Item(kind, text) == [kind |-> kind, text |-> text]
Arguments(call) == <<call>>
CallItem(call) == IF call = "custom" THEN "custom_tool_call" ELSE "function_call"

(* Chat: the chunks of StreamChat.                                            *)
ContentChunk(text) == [type |-> "content", text |-> text]
ToolChunk(i, call) == [type |-> "tool", index |-> i, call |-> "function"]
FinishChunk(finish) == [type |-> "finish", finish |-> finish]
Closing(finish) ==
    <<FinishChunk(finish)>> \o (IF form.usage THEN <<Plain("usage")>> ELSE <<>>) \o <<Plain("done")>>

ChatReplay(a) ==
    <<Plain("role")>> \o Each(ContentChunk, charChunks(a.text))
    \o [i \in DOMAIN a.calls |-> ToolChunk(i - 1, a.calls[i])] \o Closing(a.finish)

(* Gemini: what becomes of a chat chunk.                                      *)
(* (A backend reports "stop", "length" and "tool_calls"; reasons it does not   *)
(* report would be passed on in capitals.)                                    *)
geminiFinishReason(finish) ==
    CASE finish = "length" -> "MAX_TOKENS" [] finish = "content_filter" -> "SAFETY" [] OTHER -> "STOP"

geminiStreamFromChat(e) ==
    CASE e.type \in {"role", "done"} -> <<>>
      [] e.type = "finish" -> <<FinishChunk(geminiFinishReason(e.finish))>>
      [] OTHER -> <<e>>

(* Responses: responseReplayEvents.  The index runs over search, text, calls. *)
Indexed(web, text) == (IF web THEN 1 ELSE 0) + (IF text = <<>> THEN 0 ELSE 1)

SearchEvents == <<Open(0, "web_search_call"), Note(0), Note(0), Note(0), Close(0, Item("web_search_call", <<>>))>>

MessageEvents(k, text) ==
    <<Open(k, "message"), Note(k)>> \o [i \in DOMAIN charChunks(text) |-> Piece(k, charChunks(text)[i])]
    \o <<Check(k, text), Check(k, text), Close(k, Item("message", text))>>

CallEvents(k, call) ==
    <<Open(k, CallItem(call)), Piece(k, Arguments(call)), Check(k, Arguments(call)),
      Close(k, Item(CallItem(call), Arguments(call)))>>

(* Mutant: the search does not count as an item.                              *)
ReplayUncounted(text, calls, web) ==
    (IF web THEN SearchEvents ELSE <<>>)
    \o (IF text = <<>> THEN <<>> ELSE MessageEvents(0, text))
    \o FlattenSeq([i \in DOMAIN calls |-> CallEvents(Indexed(FALSE, text) + i - 1, calls[i])])
    \o (IF ~web /\ text = <<>> /\ calls = <<>> THEN MessageEvents(0, <<>>) ELSE <<>>)

responseReplayEvents(text, calls, web) ==
    (IF web THEN SearchEvents ELSE <<>>)
    \o (IF text = <<>> THEN <<>> ELSE MessageEvents(Indexed(web, <<>>), text))
    \o FlattenSeq([i \in DOMAIN calls |-> CallEvents(Indexed(web, text) + i - 1, calls[i])])
    \o (IF ~web /\ text = <<>> /\ calls = <<>> THEN MessageEvents(0, <<>>) ELSE <<>>)

(* The output it collects beside the events, for response.completed.          *)
ReplayOutput(text, calls, web) ==
    (IF web THEN <<Item("web_search_call", <<>>)>> ELSE <<>>)
    \o (IF text = <<>> THEN <<>> ELSE <<Item("message", text)>>)
    \o [i \in DOMAIN calls |-> Item(CallItem(calls[i]), Arguments(calls[i]))]
    \o (IF ~web /\ text = <<>> /\ calls = <<>> THEN <<Item("message", <<>>)>> ELSE <<>>)

ResponsesReplay(text, calls, finish) ==
    LET web == form.web /\ calls = <<>>
    IN  responseReplayEvents(text, calls, web)
        \o <<EndEvent(Finish(calls, finish), ReplayOutput(text, calls, web), text)>>

(* Anthropic: anthropicReplayEvents.                                          *)
TextBlock(text) ==
    <<Open(0, "text")>> \o [i \in DOMAIN charChunks(text) |-> Piece(0, charChunks(text)[i])]
    \o <<Close(0, Item("text", text))>>

anthropicReplayEvents(text, calls) ==
    (IF text = <<>> /\ calls # <<>> THEN <<>> ELSE TextBlock(text))
    \o FlattenSeq([i \in DOMAIN calls |->
           LET k == Indexed(FALSE, text) + i - 1
           IN  <<Open(k, "tool_use"), Piece(k, Arguments(calls[i])),
                 Close(k, Item("tool_use", Arguments(calls[i])))>>])

anthropicStopReason(finish) ==
    CASE finish = "stop" -> "end_turn" [] finish = "length" -> "max_tokens" [] finish = "tool_calls" -> "tool_use"
      [] finish = "content_filter" -> "refusal" [] OTHER -> finish

AnthropicReplay(text, calls, finish) ==
    anthropicReplayEvents(text, calls)
    \o <<FinishChunk(anthropicStopReason(Finish(calls, finish))), Plain("done")>>

-----------------------------------------------------------------------------
(* The producer. *)

Chatting == form.protocol \in {"chat", "gemini"}
Translated(e) == IF form.protocol = "gemini" THEN geminiStreamFromChat(e) ELSE <<e>>

Opening ==
    CASE Chatting -> <<Plain("role")>>
      [] form.protocol = "responses" -> <<Plain("created"), Plain("in_progress")>>
      [] form.protocol = "anthropic" -> <<Plain("message_start")>>

Replay(a) ==
    CASE Chatting -> ChatReplay(a)
      [] form.protocol = "responses" -> Opening \o ResponsesReplay(a.text, a.calls, a.finish)
      [] form.protocol = "anthropic" -> Opening \o AnthropicReplay(a.text, a.calls, a.finish)

Say(events) == outbox' = FlattenSeq(Each(Translated, events))

BeginStream ==
    /\ stage = "start"
    /\ IF form.source = "cache"
       THEN stage' = "closing" /\ Say(Replay(whole))
       ELSE stage' = "reading" /\ Say(Opening)
    /\ UNCHANGED <<form, whole, left, collected, client>>

Reading == stage = "reading" /\ outbox = <<>>

(* The backend cuts its text into deltas as it likes, and may send a call     *)
(* before the rest of the text.                                               *)
ReadDelta(n) ==
    /\ Reading /\ n <= Len(left.text)
    /\ LET text == SubSeq(left.text, 1, n)
       IN  /\ collected' = [collected EXCEPT !.text = @ \o text]
           /\ left' = [left EXCEPT !.text = SubSeq(@, n + 1, Len(@))]
           /\ IF Chatting THEN Say(<<ContentChunk(text)>>) ELSE UNCHANGED outbox
    /\ UNCHANGED <<form, whole, stage, client>>

ReadCall ==
    /\ Reading /\ left.calls # <<>>
    /\ LET call == Head(left.calls)
       IN  /\ collected' = [collected EXCEPT !.calls = Append(@, call)]
           /\ left' = [left EXCEPT !.calls = Tail(@)]
           /\ IF Chatting THEN Say(<<ToolChunk(Len(collected.calls), call)>>) ELSE UNCHANGED outbox
    /\ UNCHANGED <<form, whole, stage, client>>

(* The backend's channel is closed: what was collected is the answer.         *)
FinishStream(finish) ==
    /\ Reading /\ left.text = <<>> /\ left.calls = <<>>
    /\ stage' = "closing"
    /\ Say(CASE Chatting -> Closing(Finish(collected.calls, finish))
             [] form.protocol = "responses" -> ResponsesReplay(collected.text, collected.calls, finish)
             [] form.protocol = "anthropic" -> AnthropicReplay(collected.text, collected.calls, finish))
    /\ UNCHANGED <<form, whole, left, collected, client>>

(* With a done item.  A filter may have finished a text at "stop" though      *)
(* calls came before it.                                                      *)
ReadDone ==
    \E finish \in {whole.finish, "stop"} :
        (collected.calls = <<>> => finish = whole.finish) /\ FinishStream(finish)

(* Without one, cut off wherever it was: the producer takes what has come for *)
(* the whole answer, and it ends as if the model had stopped.                 *)
ReadClosed == (whole.calls = <<>> => whole.finish = "stop") /\ FinishStream("stop")

ReadError ==
    /\ Reading
    /\ stage' = "failing" /\ Say(<<Plain("error")>>)
    /\ UNCHANGED <<form, whole, left, collected, client>>

-----------------------------------------------------------------------------
(* The client: it keeps to the protocol's grammar, and stops at an event that *)
(* does not.                                                                  *)

NewClient ==
    [text |-> <<>>, calls |-> <<>>, items |-> <<>>, block |-> Nothing,
     finish |-> Nothing, complete |-> FALSE, failed |-> FALSE, confused |-> FALSE]

Fits(c, e) ==
    CASE e.type = "open" -> c.block = Nothing /\ e.index = Len(c.items)
      [] e.type \in {"piece", "note"} -> c.block # Nothing /\ e.index = Len(c.items)
      [] e.type = "check" -> c.block # Nothing /\ e.index = Len(c.items) /\ e.text = c.block.text
      [] e.type = "close" -> c.block = e.item /\ e.index = Len(c.items)
      [] e.type = "tool" -> e.index = Len(c.calls)
      [] e.type = "end" -> c.block = Nothing /\ e.output = c.items
      [] e.type \in {"content", "finish"} -> c.block = Nothing /\ c.finish = Nothing
      [] OTHER -> TRUE

Take(protocol, c, e) ==
    CASE e.type = "open" -> [c EXCEPT !.block = Item(e.kind, <<>>)]
      [] e.type = "piece" -> [c EXCEPT !.block = Item(@.kind, @.text \o e.text)]
      [] e.type = "close" -> [c EXCEPT !.block = Nothing, !.items = Append(@, e.item)]
      [] e.type = "content" -> [c EXCEPT !.text = @ \o e.text]
      [] e.type = "tool" -> [c EXCEPT !.calls = Append(@, e.call)]
      [] e.type = "finish" -> [c EXCEPT !.finish = e.finish, !.complete = protocol = "gemini"]
      [] e.type = "done" -> [c EXCEPT !.complete = TRUE]
      [] e.type = "end" -> [c EXCEPT !.text = e.text, !.finish = e.finish, !.complete = TRUE]
      [] e.type = "error" -> [c EXCEPT !.failed = TRUE]
      [] OTHER -> c

SendEvent ==
    /\ outbox # <<>>
    /\ outbox' = Tail(outbox)
    /\ client' = IF Fits(client, Head(outbox)) THEN Take(form.protocol, client, Head(outbox))
                  ELSE [client EXCEPT !.confused = TRUE]
    /\ UNCHANGED <<form, whole, left, collected, stage>>

StreamInit ==
    /\ form \in Forms /\ whole \in Answers
    /\ left = IF form.source = "live" THEN whole ELSE [whole EXCEPT !.text = <<>>, !.calls = <<>>]
    /\ collected = [text |-> <<>>, calls |-> <<>>]
    /\ stage = "start" /\ outbox = <<>> /\ client = NewClient

StreamNext ==
    \/ BeginStream \/ (\E n \in 1..MaxRunes : ReadDelta(n)) \/ ReadCall
    \/ ReadDone \/ ReadClosed \/ ReadError \/ SendEvent

-----------------------------------------------------------------------------
(* The answer to the same request without "stream": completionResponse,       *)
(* responseOutputFromResult, anthropicResponse, geminiFromChatResult.         *)

ResponseOutput(a) ==
    (IF form.web /\ a.calls = <<>> THEN <<Item("web_search_call", <<>>)>> ELSE <<>>)
    \o (IF a.text # <<>> \/ (~form.web /\ a.calls = <<>>) THEN <<Item("message", a.text)>> ELSE <<>>)
    \o [i \in DOMAIN a.calls |-> Item(CallItem(a.calls[i]), Arguments(a.calls[i]))]

AnthropicContent(a) ==
    (IF a.text # <<>> \/ a.calls = <<>> THEN <<Item("text", a.text)>> ELSE <<>>)
    \o [i \in DOMAIN a.calls |-> Item("tool_use", Arguments(a.calls[i]))]

Unstreamed(a) ==
    CASE form.protocol = "chat" ->
           [text |-> a.text, calls |-> Each(LAMBDA c : "function", a.calls), items |-> <<>>, finish |-> Finish(a.calls, a.finish)]
      [] form.protocol = "gemini" ->
           [text |-> a.text, calls |-> Each(LAMBDA c : "function", a.calls), items |-> <<>>, finish |-> geminiFinishReason(a.finish)]
      [] form.protocol = "responses" ->
           [text |-> a.text, calls |-> <<>>, items |-> ResponseOutput(a), finish |-> Finish(a.calls, a.finish)]
      [] form.protocol = "anthropic" ->
           [text |-> <<>>, calls |-> <<>>, items |-> AnthropicContent(a), finish |-> anthropicStopReason(a.finish)]

Made(c) == [text |-> c.text, calls |-> c.calls, items |-> c.items, finish |-> c.finish]

(* The protocols show one answer alike with and without "stream": from the    *)
(* backend's channel or from the cache, a client that follows the protocol's  *)
(* grammar is never confused by an event, what it has put together at the end *)
(* is what the same text, calls and finish reason look like in an answer that *)
(* is not streamed, and a stream that reports a failure never looks complete. *)
(* Whether Backend.Chat would have collected the same answer, and whether the *)
(* channel was cut off, is not said here.                                     *)
StreamedAsUnstreamed ==
    /\ ~client.confused
    /\ client.complete => Made(client) = Unstreamed(whole) /\ ~client.failed
    /\ stage = "closing" /\ outbox = <<>> => client.complete
=============================================================================
