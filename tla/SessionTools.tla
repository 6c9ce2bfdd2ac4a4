---------------------------- MODULE SessionTools ----------------------------
(* Which tools a turn of the Copilot SDK declares, allows and talks about:    *)
(* sdkSessionConfig, sdkAvailableToolsForParams, sdkPrompt (copilot_http.go)  *)
(* and the synthetic tool that carries a structured answer                    *)
(* (structured_output.go).  A tool is its name; a request is what it says     *)
(* about its answer's format, its tool_choice and its tools.                  *)
EXTENDS Naturals, FiniteSets

CONSTANTS
    Mode   \* sdkWebSearchMode: "empty", "cli" or "native_cli"

Reserved == "ghcp_structured_output"
Search == "web_search"

SessionRequest ==
    [format : {"none", "object", "schema"}, choice : {"auto", "none", "required"},
     tools : SUBSET {"fn", Reserved, Search}]

WantsJSON(r) == r.format # "none"
HasSchema(r) == r.format = "schema"

HasWebSearch(r) == r.choice # "none" /\ Search \in r.tools
Controlled(r) == Mode = "cli" /\ HasWebSearch(r)
Native(r) == Mode = "native_cli" /\ HasWebSearch(r)

(* The caller's own tool under the reserved name: the request is refused, but *)
(* only if it has a schema.                                                   *)
ToolConflict(r) == HasSchema(r) /\ Reserved \in r.tools

ToolUsable(r) == r.choice = "auto"

WithStructuredTool(tools, r) ==
    IF ToolUsable(r) /\ ~ToolConflict(r) /\ HasSchema(r) THEN tools \cup {Reserved} ELSE tools

CustomTools(r) == IF r.choice = "none" THEN {} ELSE WithStructuredTool(r.tools \ {Search}, r)

WebTools == {"ghcp_web_search", "ghcp_web_fetch", "ghcp_report_intent"}
NativeTools == {"web_search", "web_fetch"}

DeclaredTools(r) ==
    IF Controlled(r) THEN WithStructuredTool(WebTools, r)
    ELSE IF Native(r) THEN WithStructuredTool({"web_fetch"} \cup CustomTools(r), r)
    ELSE CustomTools(r)

AllowedTools(r) ==
    IF r.choice = "none" THEN {}
    ELSE CustomTools(r) \cup
         (IF Native(r) THEN NativeTools
          ELSE IF Controlled(r) THEN WebTools
          ELSE IF Mode = "empty" /\ HasWebSearch(r) THEN {Search}
          ELSE {})

(* Tools the gateway or the SDK runs itself; their calls are not passed on.   *)
InternalTools(r) == IF Controlled(r) THEN WebTools ELSE IF Native(r) THEN NativeTools ELSE {}

(* What a model can call: what is both declared and allowed, and the SDK's    *)
(* built-in tools that are allowed.                                           *)
CallableTools(r) == AllowedTools(r) \cap (DeclaredTools(r) \cup {Search})

(* The prompt tells the model to answer by calling the synthetic tool, or     *)
(* gives it the schema.                                                       *)
PromptNamesTool(r) == HasSchema(r) /\ r.choice # "none"
PromptHasSchema(r) == HasSchema(r) /\ ~PromptNamesTool(r)
=============================================================================
