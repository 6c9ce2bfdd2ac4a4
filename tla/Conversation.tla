---------------------------- MODULE Conversation ----------------------------
(***************************************************************************)
(* How the conversation a client sends becomes what the model is shown:    *)
(* the four protocols' messages (openai.go, gemini.go) become chat         *)
(* messages, those neutral messages (types.go), and those one prompt       *)
(* (backend.go) with attached images (attachments.go).                     *)
(*                                                                         *)
(* A piece of a conversation is its address and its kind: a text, an image *)
(* (inline; remote, that is without data in it: a URL, Gemini's fileData,  *)
(* an empty string; or unusable because it is too large or not base64), a  *)
(* tool call, or the result of an earlier call: a plain one, or a "shot",  *)
(* which holds an inline image beside its text.  A call has an id, its     *)
(* address, and the name of its tool, and its result has them too; in      *)
(* Gemini's protocol a client may leave out the id of both.                *)
(***************************************************************************)
EXTENDS Naturals, SequencesExt

CONSTANTS
    MaxTurns,  \* bound on the turns of a conversation
    MaxPieces, \* bound on its pieces
    ToolName,
    Nobody,
    Refused

VARIABLES
    talk,     \* the conversation, a sequence of turns
    wire,     \* the protocol it was sent with
    prompt,   \* the lines the model is shown
    attached  \* the images it is shown, or Refused

talkVars == <<talk, wire, prompt, attached>>

Wire == {"chat", "responses", "anthropic", "gemini"}
ImageKind == {"inline", "remote", "unusable"}
ResultKind == {"result", "shot"}

(* The elements of s that pass the test, in their order.                      *)
Where(s, Test(_)) == FlattenSeq([i \in DOMAIN s |-> IF Test(s[i]) THEN <<s[i]>> ELSE <<>>])

Only(kinds, pieces) == Where(pieces, LAMBDA p : p.kind \in kinds)
Except(kinds, pieces) == Where(pieces, LAMBDA p : p.kind \notin kinds)

(* A chat message: coerceText of its content, its image blocks, its calls; a  *)
(* tool message also has the id of the call it answers.                       *)
ChatMessage(role, pieces) ==
    [role |-> role, texts |-> Only({"text"}, pieces), images |-> Only(ImageKind, pieces),
     calls |-> Only({"call"}, pieces), id |-> Nobody]

ToolMessage(p) == [role |-> "tool", texts |-> <<p>>, images |-> <<>>, calls |-> <<>>, id |-> p.id]

(* Texts and images are gathered until a piece that stands alone, for which   *)
(* there is the message alone[piece].                                         *)
Flushed(role, s) == IF s.open = <<>> THEN s.out ELSE Append(s.out, ChatMessage(role, s.open))

Gather(role, alone, s, p) ==
    IF p.kind \in ResultKind \cup {"call"}
    THEN [out |-> Append(Flushed(role, s), alone[p]), open |-> <<>>]
    ELSE [s EXCEPT !.open = Append(@, p)]

Split(role, pieces, alone) ==
    Flushed(role, FoldLeft(LAMBDA s, p : Gather(role, alone, s, p), [out |-> <<>>, open |-> <<>>], pieces))

-----------------------------------------------------------------------------
(* The messages of one turn. *)

(* A chat client sends tool messages itself, with whatever content they have. *)
chatMessages(role, pieces) ==
    IF role = "user"
    THEN Split(role, pieces, [p \in ToSet(pieces) |-> [ToolMessage(p) EXCEPT
                 !.images = IF p.kind = "shot" THEN <<[p EXCEPT !.kind = "inline"]>> ELSE <<>>]])
    ELSE <<ChatMessage(role, pieces)>>

responseInputItemToMessage(p) ==
    IF p.kind = "call" THEN ChatMessage("assistant", <<p>>) ELSE ToolMessage(p)

(* Mutant: a message that has content of its own returns early.               *)
anthropicContentOnly(role, pieces) ==
    LET own == Except(ResultKind, pieces)
        results == Only(ResultKind, pieces)
    IN  IF own = <<>> THEN [i \in DOMAIN results |-> ToolMessage(results[i])] ELSE <<ChatMessage(role, own)>>

(* The results follow whatever else the message has.                          *)
anthropicMessageToChatMessages(role, pieces) ==
    LET own == Except(ResultKind, pieces)
        results == Only(ResultKind, pieces)
    IN  (IF own = <<>> THEN <<>> ELSE <<ChatMessage(role, own)>>)
        \o [i \in DOMAIN results |-> ToolMessage(results[i])]

(* A part with fileData has no field GeminiPart knows, one with empty data is *)
(* skipped.                                                                   *)
geminiUserContentToChat(pieces) ==
    Split("user", Except({"remote"}, pieces), [p \in ToSet(pieces) |-> ToolMessage(p)])
geminiModelContentToChat(pieces) == <<ChatMessage("assistant", Except(ImageKind, pieces))>>

ToChatMessages(protocol, role, pieces) ==
    CASE protocol = "chat" -> chatMessages(role, pieces)
      [] protocol = "responses" -> Split(role, pieces, [p \in ToSet(pieces) |-> responseInputItemToMessage(p)])
      [] protocol = "anthropic" -> anthropicMessageToChatMessages(role, pieces)
      [] protocol = "gemini" /\ role = "assistant" -> geminiModelContentToChat(pieces)
      [] protocol = "gemini" /\ role # "assistant" ->
             IF role = "system" THEN <<ChatMessage(role, pieces)>> ELSE geminiUserContentToChat(pieces)

(* A Gemini call or result without an id goes by the name of its tool, which  *)
(* it may share with others.                                                  *)
firstNonEmpty(id, name) == IF id # Nobody THEN id ELSE name

Identified(protocol, p) ==
    IF protocol = "gemini" /\ p.kind \in ResultKind \cup {"call"}
    THEN [p EXCEPT !.id = firstNonEmpty(p.id, p.name)] ELSE p

ToChatRequest(protocol) ==
    LET pieces(t) == [i \in DOMAIN talk[t].pieces |-> Identified(protocol, talk[t].pieces[i])]
    IN  FlattenSeq([t \in DOMAIN talk |-> ToChatMessages(protocol, talk[t].role, pieces(t))])

-----------------------------------------------------------------------------
(* What the SDK is given. *)

Line(p, id) == [at |-> p.at, kind |-> p.kind, id |-> id]

MessageLines(m) ==
    [i \in DOMAIN m.texts |-> Line(m.texts[i], m.id)]
    \o [i \in DOMAIN m.calls |-> Line(m.calls[i], m.calls[i].id)]

(* What the system says is moved to the front, whenever it said it.           *)
renderPrompt(messages) ==
    LET Lines(ms) == FlattenSeq([i \in DOMAIN ms |-> MessageLines(ms[i])])
    IN  Lines(Where(messages, LAMBDA m : m.role = "system"))
        \o Lines(Where(messages, LAMBDA m : m.role # "system"))

(* One image that cannot be forwarded fails the request.                      *)
sdkAttachments(messages) ==
    LET declared == FlattenSeq([i \in DOMAIN messages |-> messages[i].images])
        converted == Only({"inline"}, declared)
    IN  IF Len(declared) > Len(converted) THEN Refused ELSE converted

-----------------------------------------------------------------------------
(* The client. *)

Pieces == FlattenSeq([t \in DOMAIN talk |-> talk[t].pieces])

Composing == wire = Nobody
MayAdd(kind) ==
    LET role == Last(talk).role
    IN  \/ kind = "text"
        \/ kind \in {"inline", "remote", "unusable"} /\ role = "user"
        \/ kind \in {"inline", "call"} /\ role = "assistant"
        \/ kind \in ResultKind /\ role = "user"

(* A system message may come at any time.                                     *)
AddTurn(role) ==
    /\ Composing /\ Len(talk) < MaxTurns
    /\ IF talk = <<>> THEN role # "assistant" ELSE Last(talk).pieces # <<>> /\ Last(talk).role # role
    /\ talk' = Append(talk, [role |-> role, pieces |-> <<>>])
    /\ UNCHANGED <<wire, prompt, attached>>

(* A call is answered at most once, in a later turn, and by the id and name   *)
(* it came with.                                                              *)
OpenCalls == {c \in ToSet(Only({"call"}, Pieces)) : c.at \notin {p.of : p \in ToSet(Pieces)}}

NewPieces(kind, at) ==
    CASE kind \in ResultKind ->
           {[at |-> at, kind |-> kind, of |-> c.at, id |-> c.id, name |-> c.name] : c \in OpenCalls}
      [] kind = "call" ->
           [at : {at}, kind : {kind}, of : {Nobody}, id : {at, Nobody}, name : ToolName]
      [] OTHER ->
           {[at |-> at, kind |-> kind, of |-> Nobody, id |-> Nobody, name |-> Nobody]}

AddPiece(kind) ==
    /\ Composing /\ talk # <<>> /\ Len(Pieces) < MaxPieces /\ MayAdd(kind)
    /\ \E p \in NewPieces(kind, <<Len(talk), Len(Last(talk).pieces) + 1>>) :
          talk' = [talk EXCEPT ![Len(talk)].pieces = Append(@, p)]
    /\ UNCHANGED <<wire, prompt, attached>>

(* Only Gemini's protocol does without ids, and it has the system speak first. *)
HasIds == \A p \in ToSet(Only(ResultKind \cup {"call"}, Pieces)) : p.id # Nobody
SystemLater == \E t \in DOMAIN talk : t > 1 /\ talk[t].role = "system"

Send(protocol) ==
    /\ Composing /\ talk # <<>> /\ Last(talk).role = "user" /\ Last(talk).pieces # <<>>
    /\ HasIds \/ protocol = "gemini"
    /\ wire' = protocol
    /\ LET messages == ToChatRequest(protocol)
       IN  IF messages = <<>> \/ (protocol = "gemini" /\ SystemLater)
           THEN prompt' = <<>> /\ attached' = Refused
           ELSE prompt' = renderPrompt(messages) /\ attached' = sdkAttachments(messages)
    /\ UNCHANGED talk

TalkInit == talk = <<>> /\ wire = Nobody /\ prompt = <<>> /\ attached = <<>>

TalkNext ==
    \/ \E role \in {"system", "user", "assistant"} : AddTurn(role)
    \/ \E kind \in ImageKind \cup ResultKind \cup {"text", "call"} : AddPiece(kind)
    \/ \E protocol \in Wire : Send(protocol)

-----------------------------------------------------------------------------
(* The id or else the name a call goes by, and that of the call a result      *)
(* answers.                                                                   *)
ShownId(p) ==
    LET c == IF p.kind \in ResultKind THEN talk[p.of[1]].pieces[p.of[2]] ELSE p
    IN  firstNonEmpty(c.id, c.name)

SaidBySystem(line) == talk[line.at[1]].role = "system"

(* Whatever protocol a conversation comes in, the model is shown all of it:   *)
(* every text, call and result once, first what the system says and then the  *)
(* other turns, each in their order, and in a turn the pieces of a kind in    *)
(* theirs; results under the same id as the call they answer, and after it;   *)
(* and the images that are part of a message, all of them in their order, or  *)
(* the request is refused.  ToChatRequest, renderPrompt, sdkAttachments.      *)
ModelIsShownTheTalk ==
    wire # Nobody /\ attached # Refused =>
        /\ ToSet(prompt) = {Line(p, ShownId(p)) : p \in ToSet(Except(ImageKind, Pieces))}
        /\ \A i, j \in DOMAIN prompt :
              i < j => /\ SaidBySystem(prompt[j]) => SaidBySystem(prompt[i])
                       /\ SaidBySystem(prompt[i]) = SaidBySystem(prompt[j])
                              => prompt[i].at[1] <= prompt[j].at[1]
                       /\ prompt[i].at = prompt[j].at => i = j
                       /\ prompt[i].at[1] = prompt[j].at[1] /\ prompt[i].kind = prompt[j].kind
                              => prompt[i].at[2] < prompt[j].at[2]
        /\ LET Own(p) == /\ p.kind \in ImageKind
                         /\ wire = "gemini" => p.kind # "remote" /\ talk[p.at[1]].role = "user"
               Forwarded == Where(attached, LAMBDA p : talk[p.at[1]].pieces[p.at[2]].kind # "shot")
           IN  Forwarded = Where(Pieces, Own)

(* README.md, image input: "In every rejected case the request fails with an  *)
(* explicit error; images are never silently dropped."                        *)
NoImageDropped ==
    wire # Nobody /\ attached # Refused =>
        {p.at : p \in ToSet(Only(ImageKind \cup {"shot"}, Pieces))} \subseteq {p.at : p \in ToSet(attached)}
=============================================================================
