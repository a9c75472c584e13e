------------------------------- MODULE MCGateway -------------------------------
(* Instances of GatewaySurfaces for TLC.  One set of scenarios sends each  *)
(* surface one conversation with everything a translation can lose, over   *)
(* every provider, tool policy and routing mode; another sends three small *)
(* deterministic requests that meet in the cache.                          *)
EXTENDS GatewaySurfaces

(* The models, and what each tier of the configuration names.              *)
MCSmartAliases ==
  (Name("rp:", "balanced") :> Candidate("anthropic", "claude"))
MCModelMapping == (Name("", "sonnet") :> Candidate("anthropic", "claude"))
MCFamily ==
  [m \in {"claude", "haiku"} |-> "anthropic"] @@ [m \in {"gpt", "mini"} |-> "openai"]
  @@ ("flash" :> "google") @@ ("glm" :> "zai") @@ ("grok" :> "xai")
MCSlashProvider ==
  [s \in {"anthropic/", "openai/", "google/", "zai/", "ollama/"} |->
     CASE s = "anthropic/" -> "anthropic" [] s = "openai/" -> "openai"
       [] s = "google/" -> "google" [] s = "zai/" -> "zai" [] OTHER -> "ollama"]
MCBuiltInMapping ==
  (<<"anthropic", "google", "claude">> :> "flash") @@ (<<"openai", "anthropic", "gpt">> :> "claude")
MCUnsupported == ("flash" :> {"reasoning"}) @@ ("mini" :> {"tools"})
MCRegistered == {"anthropic", "openai", "google", "zai", "ollama"}
MCDowngrades == ("claude" :> "haiku") @@ ("gpt" :> "bargain")

MCText ==
  [t \in {"rules", "hello", "look", "go on", "args", "cut", "found"} |->
     [signals |-> {}, tokens |-> 10, ands |-> 0]]
  @@ ("plan it" :> [signals |-> {"architecture", "planning"}, tokens |-> 600, ands |-> 3])

MCFailures ==
  {"provider_auth_error", "provider_overloaded", "internal_error"}

(* Tool policy: a pack, an agent that changes it, a deny list.             *)
MCPacks ==
  "coding" :> [entries |-> <<[name |-> "read", policy |-> "inherit"],
                             [name |-> "shell", policy |-> "deny"]>>,
               default |-> "allow"]
  @@ "extra" :> [entries |-> <<[name |-> "shell", policy |-> "allow"],
                               [name |-> "rm", policy |-> "allow"]>>,
                 default |-> "deny"]
MCAgents ==
  "bot" :> [allowPacks |-> <<"extra">>, denyPacks |-> <<>>,
            overrides |-> ("rm" :> "allow") @@ ("shell" :> "allow")]
  @@ "guest" :> [allowPacks |-> <<>>, denyPacks |-> <<"coding">>, overrides |-> ("none" :> "deny")]
MCDenyList == {"rm"}
MCHosted == {"web_search"}

MCNotJson == {<<>>, <<"cut">>}

Call == Part("tool_use", "c1", <<"args">>)
NoData == Part("image_ref", "", <<"file">>)
Said(text) == <<Part("text", "", <<text>>)>>
Input(text) == <<Part("input_text", "", <<text>>)>>

(* A whole conversation in each protocol: system text, an image, one that  *)
(* has no data, a call made with a remark, one whose arguments are cut     *)
(* short, its result returned with a further question.                     *)
MessagesBody ==
  [Blank EXCEPT
     !.system = Said("rules"), !.maxTokens = 100,
     !.turns =
       << Turn("user", <<TextPart(<<"hello">>), NoData, Part("image", "", <<"look">>)>>,
               <<>>, ""),
          Turn("user", <<NoData>>, <<>>, ""),
          Turn("assistant", <<Part("thinking", "", <<"hm">>), TextPart(<<"look">>), Call,
                              Part("tool_use", "c2", <<"args">>)>>, <<>>, ""),
          Turn("user", <<Part("tool_result", "c2", <<"found">>),
                         Part("tool_result", "c1", <<"look">>),
                         TextPart(<<"plan it">>)>>, <<>>, "") >>]
ChatBody ==
  [Blank EXCEPT
     !.turns =
       << Turn("system", Said("rules"), <<>>, ""),
          Turn("user", <<TextPart(<<"hello">>), NoData, Part("image", "", <<"look">>)>>,
               <<>>, ""),
          Turn("assistant", Said("look"), <<Call, Part("tool_use", "c2", <<"cut">>)>>, ""),
          Turn("tool", Said("found"), <<>>, "c2"),
          Turn("tool", Said("look"), <<>>, "c1"),
          Turn("developer", Said("go on"), <<>>, ""),
          Turn("user", Said("plan it"), <<>>, "") >>]
ResponsesBody ==
  [Blank EXCEPT
     !.system = Said("rules"), !.maxTokens = 100,
     !.turns =
       << Turn("developer", Input("go on"), <<>>, ""),
          Turn("user", <<Part("input_text", "", <<"hello">>),
                         Part("input_image", "", <<"look">>),
                         NoData>>, <<>>, ""),
          Turn("reasoning", <<Part("summary", "", <<"hm">>)>>, <<>>, ""),
          Turn("assistant", <<Part("output_text", "", <<"look">>)>>, <<>>, ""),
          Turn("function_call", Input("args"), <<>>, "c1"),
          Turn("function_call", Input("cut"), <<>>, "c2"),
          Turn("function_call_output", Input("found"), <<>>, "c1"),
          Turn("user", Said("plan it"), <<>>, "") >>]

BodyOf(surface) ==
  CASE surface = "chat" -> ChatBody [] surface = "responses" -> ResponsesBody
    [] OTHER -> MessagesBody

------------------------------------------------------------------------------
NoHeaders ==
  [agent |-> "none", fingerprint |-> "none", task |-> "general",
   toolTask |-> "none", toolAgent |-> "none"]

NoCross == [enabled |-> FALSE, providers |-> <<>>, mapping |-> <<>>]
Plain ==
  [overrides |-> <<>>,
   routing |-> [mode |-> "passthrough", tiers |-> <<>>, chain |-> <<>>,
                cross |-> NoCross, enforce |-> FALSE],
   policy |-> [agents |-> <<>>, tasks |-> <<>>]]

Request(surface, model, body, headers) ==
  [surface |-> surface, name |-> model, body |-> body, previous |-> FALSE,
   shorthand |-> FALSE, headers |-> headers]

One(config_, q) == [config |-> config_, inbox |-> ("r1" :> q)]

Models == {Name("", m) : m \in {"claude", "gpt", "flash", "glm", "grok", "who"}}
          \cup {Name("ollama/", "llama"), Name("aipp:", "auto"), Name("", "sonnet")}

(* Every surface to every provider, streamed or not.                       *)
Translations ==
  {One(Plain, Request(surface, model, [BodyOf(surface) EXCEPT !.stream = stream], NoHeaders)) :
     surface \in {"messages", "chat", "responses", "count_tokens"},
     model \in Models, stream \in BOOLEAN}

(* Every tool policy, with and without a hosted tool.                      *)
ToolScenarios ==
  {One(Plain, Request(surface, Name("", model),
                      [BodyOf(surface) EXCEPT !.tools = tools, !.hosted = hosted,
                                              !.choice = [type |-> "any", tool |-> ""]],
                      [NoHeaders EXCEPT !.toolTask = task, !.toolAgent = agent])) :
     surface \in {"messages", "chat"}, model \in {"claude", "gpt", "flash"},
     tools \in {<<"read", "shell", "rm">>, <<"rm">>, <<"", "read">>, <<"read", "", "rm">>,
                <<"", "rm">>, <<"">>},
     hosted \in {{}},
     task \in {"none", "coding", "extra"}, agent \in {"none", "bot", "guest"}}
  \cup
  {One(Plain, Request("responses", Name("", model),
                      [ResponsesBody EXCEPT !.tools = <<"read", "rm">>, !.hosted = hosted],
                      [NoHeaders EXCEPT !.toolTask = "coding"])) :
     model \in {"claude", "gpt"}, hosted \in {{}, {"web_search"}, {"file_search"}}}

(* Every routing mode, with fallbacks, capabilities, a policy, a pin.      *)
Routings ==
  {[Plain.routing EXCEPT !.mode = "complexity",
                         !.tiers = ("complex" :> Name("", "gpt")), !.enforce = enforce] :
     enforce \in BOOLEAN}
  \cup
  {[Plain.routing EXCEPT !.mode = "cascade", !.chain = chain, !.enforce = enforce,
      !.cross = [enabled |-> TRUE, providers |-> <<"anthropic", "openai", "google", "ollama">>,
                 mapping |-> (<<"anthropic", "ollama", "claude">> :> "llama")]] :
     enforce \in BOOLEAN,
     chain \in {<<Name("", "claude"), Candidate("openai", "mini"), Name("", "flash")>>,
                <<Name("", "who"), Name("", "grok"), Name("", "claude")>>, <<>>}}

MCPolicy ==
  LET rule == [preferred |-> Name("", "claude"), escalateTo |-> Name("", "gpt"),
               onComplexity |-> TRUE, neverDowngrade |-> TRUE]
  IN  [agents |-> ("bot" :> [fingerprint |-> "print", rule |-> rule,
                             tasks |-> ("review" :> [rule EXCEPT !.preferred = Name("", "glm"),
                                                                 !.onComplexity = FALSE])]),
       tasks |-> ("draft" :> [rule EXCEPT !.preferred = Name("", "who"),
                                          !.escalateTo = Name("", "haiku"),
                                          !.neverDowngrade = FALSE])]

RoutingScenarios ==
  {One([Plain EXCEPT !.routing = routing, !.policy = MCPolicy],
       Request(surface, Name("", "claude"),
               [BodyOf(surface) EXCEPT !.tools = tools, !.thinking = thinking,
                                       !.temperature = 1], headers)) :
     routing \in Routings, surface \in {"messages", "responses"},
     tools \in {<<>>, <<"read">>}, thinking \in BOOLEAN,
     headers \in {[NoHeaders EXCEPT !.toolTask = "coding", !.agent = agent,
                                    !.fingerprint = print, !.task = task] :
                    agent \in {"none", "bot"}, print \in {"none", "print"},
                    task \in {"general", "review", "draft"}}}

(* Requests the parsers refuse, and the shorthand input.                   *)
OddScenarios ==
  {One(Plain, q) : q \in
     {Request("messages", Name("", "claude"), [MessagesBody EXCEPT !.maxTokens = 0], NoHeaders),
      Request("chat", Name("", "gpt"), Blank, NoHeaders),
      [Request("responses", Name("", "gpt"), ResponsesBody, NoHeaders)
         EXCEPT !.previous = TRUE],
      [Request("responses", Name("", "glm"),
               [Blank EXCEPT !.turns = <<Turn("user", Said("plan it"), <<>>, "")>>,
                             !.effort = "high", !.parallel = "true"], NoHeaders)
         EXCEPT !.shorthand = TRUE]}}

(* Three requests of which some ask the same; some ask for a stream.       *)
Small(tools, stream, temperature) ==
  [Blank EXCEPT !.turns = <<Turn("user", Said("hello"), <<>>, "")>>, !.maxTokens = 100,
                !.tools = tools, !.stream = stream, !.temperature = temperature]

CacheScenarios ==
  {[config |-> Plain,
    inbox |-> [r \in {"r1", "r2", "r3"} |->
                 Request("messages", Name("", "claude"),
                         CASE r = "r1" -> Small(<<>>, FALSE, 0)
                           [] r = "r2" -> others[1] [] OTHER -> others[2],
                         [NoHeaders EXCEPT !.toolTask = "coding"])]] :
     others \in {<<Small(<<"read">>, FALSE, 0), Small(<<>>, FALSE, 0)>>,
                 <<Small(<<>>, TRUE, 0), Small(<<>>, FALSE, 1)>>,
                 <<Small(<<"read">>, FALSE, 0), Small(<<"shell", "read">>, FALSE, 0)>>}}

MCScenarios ==
  Translations \cup ToolScenarios \cup RoutingScenarios \cup OddScenarios
  \cup CacheScenarios

------------------------------------------------------------------------------
(* What upstreams answer: words, calls, cut short or not.                  *)
Calls == {<<>>, <<Part("tool_use", "c9", <<"args">>), Part("tool_use", "c8", <<"cut">>)>>}

MCAnswers ==
  [protocol \in {"anthropic", "openai_chat", "openai_responses", "gemini", "ollama"} |->
     CASE protocol = "anthropic" ->
            {Message(<<Part("thinking", "", <<"hm">>), TextPart(<<"found">>)>>, "max_tokens"),
             Message(<<TextPart(<<"look">>), Call>>, "tool_use"),
             Message(<<TextPart(<<"look">>)>>, "end_turn")}
       [] protocol = "openai_chat" ->
            {Completion(<<"found">>, calls, finish, <<"hm">>) :
               calls \in Calls, finish \in {"stop", "length"}}
            \cup {Completion(<<>>, <<Call>>, "tool_calls", <<>>)}
       [] protocol = "openai_responses" ->
            {Object(<<Part("message", "", <<"found">>), Part("function_call", "c9", <<"args">>)>>,
                    "completed")}
       [] protocol = "gemini" ->
            {Message(<<TextPart(<<"found">>)>> \o calls, finish) :
               calls \in {<<>>, <<Part("functionCall", "", <<"args">>)>>},
               finish \in {"STOP", "MAX_TOKENS"}}
       [] OTHER ->
            {Completion(<<"found">>, calls, finish, <<>>) :
               calls \in Calls, finish \in {"stop", "length"}}]

MCSizeOf(answer) == IF "parts" \in DOMAIN answer THEN Len(answer.parts) ELSE 1
===============================================================================
