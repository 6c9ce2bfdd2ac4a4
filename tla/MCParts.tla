------------------------------ MODULE MCParts -------------------------------
(* The parts of the gateway that share no state with each other: its stores,  *)
(* collected answers, answer streams and the conversion of conversations.  A  *)
(* behaviour plays in one of them, `part', and the others stand still in one  *)
(* of their initial states.                                                   *)
EXTENDS ResponseCache, ModelAliases, HomeRegistry, DebugRecorder,
        KeyVaultClients, CollectedTurn, AnswerStream, Conversation
CONSTANTS Parts, short, long, a1, a2
VARIABLE part

CacheVars == vars
allVars == <<CacheVars, aliasVars, homeVars, debugVars, vaultVars, turnVars, streamVars, talkVars, part>>

Updates == short :> {a1} @@ long :> {a1, a2}

(* Requests that differ in what they let the model call.  In the mode "cli"   *)
(* a web search brings internal tools.                                        *)
Request(format, choice, tools) == [format |-> format, choice |-> choice, tools |-> tools]
Requests ==
    { Request("none", "auto", {"fn"}), Request("object", "auto", {Reserved}),
      Request("schema", "auto", {"fn"}), Request("schema", "auto", {Reserved}),
      Request("none", "auto", {"fn", Search}) }
ForcedRequests == {Request("none", "auto", {"fn"}), Request("schema", "required", {"fn"})}
LimitedRequests == {Request("object", "auto", {Reserved}), Request("none", "auto", {"fn"})}
Contents == {"prose", "object", "wrapped"}
CallIds == {<<"fn", 1>>, <<"fn", 2>>, <<Reserved, 1>>} \cup {<<"ghcp_web_search", 1>>}
PlainContents == {"prose"}
Usages == {[in |-> 2, out |-> 0, total |-> 0], [in |-> 0, out |-> 2, total |-> 3]}

Resting(name, pinned) == part # name => pinned

MCInit ==
    /\ part \in Parts
    /\ Init /\ AliasInit /\ HomeInit /\ DebugInit /\ VaultInit /\ TalkInit
    /\ TurnInit /\ Resting("turn", req = Request("none", "auto", {"fn"}))
    /\ StreamInit /\ Resting("stream", form = CHOOSE f \in Forms : TRUE)
    /\ Resting("stream", whole = [text |-> <<>>, calls |-> <<>>, finish |-> "stop"])

Plays(name, next) == part = name /\ next
Rests(name, variables) == part # name => UNCHANGED variables

MCNext ==
    /\ \/ Plays("cache", Next) \/ Plays("aliases", AliasNext) \/ Plays("homes", HomeNext)
       \/ Plays("debug", DebugNext) \/ Plays("vault", VaultNext)
       \/ Plays("turn", TurnNext) \/ Plays("stream", StreamNext) \/ Plays("talk", TalkNext)
    /\ Rests("cache", CacheVars) /\ Rests("aliases", aliasVars) /\ Rests("homes", homeVars)
    /\ Rests("debug", debugVars) /\ Rests("vault", vaultVars)
    /\ Rests("turn", turnVars) /\ Rests("stream", streamVars) /\ Rests("talk", talkVars)
    /\ UNCHANGED part

(* The caller's goroutine goes on, but the SDK owes no event and need not     *)
(* open a session that is asked for.                                          *)
MCSpec == MCInit /\ [][MCNext]_allVars
                 /\ WF_turnVars(part = "turn" /\ phase # "opening" /\ ServerStep)
=============================================================================
