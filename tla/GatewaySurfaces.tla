---------------------------- MODULE GatewaySurfaces ---------------------------
(***************************************************************************)
(* The gateway's POST surfaces, Messages, Responses, Chat Completions and  *)
(* count_tokens (src/gateway/server.ts), from the parsed request to the    *)
(* answer: routing, response cache, budget gate, tool policy, translation, *)
(* dispatch, rendering, usage event.  What is synchronous in a handler is  *)
(* one action; handlers interleave where they await an upstream.           *)
(*                                                                         *)
(* The attempt loop is reduced to "this hop answers, or a later one does,  *)
(* or the last failure is reported" (module AttemptLoop has the rest), and *)
(* the budget to what its check may say (module BudgetLedger).             *)
(***************************************************************************)
EXTENDS RoutePlanning, ToolPolicy, AnswerTranslation, ResponseCache, FiniteSets

CONSTANTS
  Scenarios,        \* [config, inbox]: a configuration, and what clients send
                    \* as a function on request ids
  Registered,       \* providers the registry holds
  Downgrades,       \* routing.downgrade.mapping: model -> cheaper name
  UpstreamAnswers,  \* protocol -> what an upstream speaking it may answer
  FailureCategories,\* the error categories an upstream's failure may have
  MaxTime           \* bound on the clock

VARIABLES
  config,           \* the configuration in force
  inbox,            \* request -> what its client sent
  req,              \* request -> how far its handler is, see Idle(b)
  table,            \* the response cache
  now
vars == <<config, inbox, req, table, now>>

------------------------------------------------------------------------------
(* The adapters                                                            *)

Protocols == {"anthropic", "openai_chat", "openai_responses", "gemini", "ollama"}

UpstreamProtocols(provider) ==
  CASE provider = "anthropic" -> {"anthropic"}
    [] provider = "openai" -> {"openai_chat", "openai_responses"}
    [] provider = "google" -> {"gemini"}
    [] provider = "ollama" -> {"ollama"}
    [] OTHER -> {"openai_chat"}

Capable(provider) ==
  IF provider \in {"google", "ollama"} THEN {"tools"} ELSE {"tools", "reasoning"}

(* The protocol the gateway speaks to a provider for a surface.            *)
ProtocolTo(surface, provider) ==
  LET spoken == UpstreamProtocols(provider)
  IN  CASE surface = "messages" ->
             IF provider = "anthropic" THEN "anthropic" ELSE "openai_chat"
        [] surface = "responses" ->
             IF "openai_responses" \in spoken THEN "openai_responses" ELSE "openai_chat"
        [] surface = "chat" ->
             IF "openai_chat" \in spoken THEN "openai_chat" ELSE CHOOSE p \in spoken : TRUE
        [] OTHER -> "anthropic"

(* What a provider answers in, whatever it was asked in.                   *)
AnswerProtocol(surface, provider) ==
  LET asked == ProtocolTo(surface, provider)
  IN  IF asked \in UpstreamProtocols(provider) THEN asked
      ELSE CHOOSE p \in UpstreamProtocols(provider) : TRUE

Asked(surface, b, provider) ==   \* stream: true, as the adapter sees it
  b.stream /\ ~ (surface = "chat" /\ provider \in {"google", "ollama"})

GatewayBody(surface, b, provider) ==
  CASE surface = "messages" /\ provider # "anthropic" ->
         AnthropicToOpenAIRequest(b, provider)
    [] surface = "responses" /\ ProtocolTo(surface, provider) = "openai_chat" ->
         ResponsesToChatBody([b EXCEPT !.turns = [i \in DOMAIN @ |-> NormalizeItem(@[i])]],
                             provider, Capable(provider))
    [] surface = "chat" /\ provider = "anthropic" -> ChatToAnthropicRequest(b)
    [] OTHER -> b

WireBody(surface, b, provider) ==
  LET body == [GatewayBody(surface, b, provider) EXCEPT
                 !.stream = Asked(surface, b, provider)]
  IN  CASE provider = "google" -> ChatToGeminiRequest(body)
        [] provider = "ollama" -> ChatToOllamaRequest(body)
        [] OTHER -> body

(* The answer as the client gets it.  The Responses surface reads an       *)
(* Anthropic message as a chat completion, which finds no choices in it.   *)
Render(surface, provider, parsed) ==
  CASE surface = "messages" /\ provider # "anthropic" ->
         OpenAIResponseToAnthropic(parsed, provider)
    [] surface = "responses" /\ provider = "anthropic" ->
         ChatResponseToCanonical(UnreadableToChat)
    [] surface = "responses" /\ provider \notin {"anthropic", "openai"} ->
         ChatResponseToCanonical(parsed)
    [] surface = "chat" /\ provider = "anthropic" -> AnthropicResponseToChat(parsed)
    [] OTHER -> parsed

(* The status a failure is reported with on a surface.                     *)
ErrorStatus(surface, category) ==
  CASE category \in {"provider_auth_error", "client_auth_error"} -> 401
    [] category = "policy_rejected" -> 403
    [] category = "provider_rate_limited" -> 429
    [] category = "provider_overloaded" ->
         IF surface \in {"messages", "count_tokens"} THEN 529 ELSE 429
    [] category \in {"provider_validation_error", "client_validation_error"} -> 400
    [] category = "capability_unsupported" /\ surface \in {"responses", "chat"} -> 400
    [] OTHER -> 500

------------------------------------------------------------------------------
(* The handlers                                                            *)

NoKey == [none |-> TRUE]
NoAnswer == [none |-> TRUE]

(* No upstream fails in a way that only the gateway's own refusals have a  *)
(* name for, an answer is not the absence of one, and what is stored of it *)
(* has a size.                                                             *)
ASSUME UpstreamAssumption ==
  /\ FailureCategories \cap
       {"success", "cache_hit", "budget_exceeded", "policy_rejected"} = {}
  /\ \A protocol \in Protocols : NoAnswer \notin UpstreamAnswers[protocol]
  /\ \A p \in Registered, asked \in BOOLEAN :
       \A a \in UpstreamAnswers[AnswerProtocol("messages", p)] :
         SizeOf(Render("messages", p, ParseResponse(a, p, asked))) \in Nat

(* A cascade is an array, or cascadeChain reads none of it; the providers  *)
(* to fall back to are one by the schema of the configuration.             *)
WellFormed(routing) ==
  /\ routing.chain \in Seq(ToSet(routing.chain))
  /\ routing.cross.providers \in Seq(ToSet(routing.cross.providers))

ASSUME ConfigAssumption == \A s \in Scenarios : WellFormed(s.config.routing)

(* A parsed body has the fields of Blank.  Its tools are a list of names,  *)
(* "" for one that has none; hosted tools are the Responses protocol's.    *)
ASSUME ScenarioAssumption ==
  \A s \in Scenarios : \A r \in DOMAIN s.inbox :
    LET q == s.inbox[r]
    IN  /\ q.body = [f \in DOMAIN Blank |-> q.body[f]]
        /\ q.body.tools \in Seq(STRING)
        /\ q.surface # "responses" => q.body.hosted = {}

Idle(b) ==
  [pc |-> "new", body |-> b, hops |-> <<>>, reason |-> "none", key |-> NoKey,
   sent |-> <<>>, upstream |-> NoAnswer, status |-> 0, form |-> "none",
   reply |-> NoAnswer, events |-> <<>>, at |-> 0]

Event(outcome, exported) == [outcome |-> outcome, exported |-> exported]

Ended(s, status, events) ==
  [s EXCEPT !.pc = "done", !.status = status, !.form = "json", !.at = now,
            !.events = @ \o events]

(* Mutant: the hop that is not registered is answered, and never reported. *)
DispatchAs(s, surface, hops) ==
  LET hop == hops[1]
  IN  IF hop.provider \notin Registered
      THEN Ended([s EXCEPT !.hops = hops], 404, <<>>)
      ELSE [s EXCEPT !.pc = "waiting", !.hops = hops,
              !.sent = Append(@, [hop |-> hop,
                                  body |-> WireBody(surface, s.body, hop.provider)])]

(* A first hop that is not registered ends the request, fallbacks or not.  *)
Dispatch(s, surface, hops) ==
  LET hop == hops[1]
  IN  IF hop.provider \notin Registered
      THEN Ended([s EXCEPT !.hops = hops], 404,
                 IF surface = "count_tokens" THEN <<>>
                 ELSE <<Event("capability_unsupported", TRUE)>>)
      ELSE [s EXCEPT !.pc = "waiting", !.hops = hops,
              !.sent = Append(@, [hop |-> hop,
                                  body |-> WireBody(surface, s.body, hop.provider)])]

Parsed(q) ==
  CASE q.surface = "messages" -> MessagesValid(q.body)
    [] q.surface = "chat" -> ChatValid(q.body)
    [] q.surface = "responses" -> ResponsesValid(q.body, q.previous)
    [] OTHER -> TRUE

(* What the planner sees of a body: no messages when the input is a plain  *)
(* string, as input is an array only otherwise.                            *)
RouteMessages(q) == IF q.shorthand THEN <<>> ELSE q.body.turns

RequiredCapabilities(b) ==
  {c \in {"tools", "reasoning"} :
     \/ c = "tools" /\ (b.tools # <<>> \/ b.hosted # {})
     \/ c = "reasoning" /\ (b.thinking \/ b.effort # "unset")}

Plan(q) ==
  IF q.surface = "count_tokens"
  THEN LET c == ResolveModel(q.name, config.overrides)
       IN  IF c.provider = "anthropic" THEN [primary |-> c, fallbacks |-> <<>>,
                                             reason |-> "none", neverDowngrade |-> FALSE]
           ELSE Unresolved
  ELSE PlanRouteFor(q.name, RouteMessages(q), RequiredCapabilities(q.body),
                    config, q.headers)

ToolsOf(q) == Enforced(q.body.tools, q.headers.toolTask, q.headers.toolAgent)

(* Tool authorization, then the hosted tools, then the first hop; for      *)
(* count_tokens, and for a provider nobody registered unless on Messages,  *)
(* the hop at once.                                                        *)
Decided(s, q, hops, decided) ==
  LET unasked == \/ q.surface = "count_tokens"
                 \/ q.surface # "messages" /\ hops[1].provider \notin Registered
  IN  CASE ~ unasked /\ decided.action = "reject" ->
             Ended(s, 403, <<Event("policy_rejected", TRUE)>>)
        [] /\ ~ unasked /\ decided.action # "reject"
           /\ q.surface = "responses" /\ ~ HostedPass(q.body.hosted, hops[1].provider) ->
             Ended(s, 400, <<Event("capability_unsupported", TRUE)>>)
        [] OTHER ->
             Dispatch(IF unasked THEN s ELSE [s EXCEPT !.body.tools = decided.tools],
                      q.surface, hops)

Authorized(s, q, hops) == Decided(s, q, hops, ToolsOf(q))

(* Mutant: the budget swaps a primary that a policy pinned.                *)
DowngradedAs(decision, spent) ==
  LET primary == decision.primary
      cheaper == ResolveModel(Name("", Downgrades[primary.model]), config.overrides)
  IN  IF spent /\ primary.model \in DOMAIN Downgrades
      THEN IF cheaper # Unresolved THEN cheaper
           ELSE Candidate(primary.provider, Downgrades[primary.model])
      ELSE primary

(* checkDowngrade: a spent budget swaps the primary unless a policy pins   *)
(* it; a cheaper name nobody knows goes to the same provider.              *)
Downgraded(decision, spent) ==
  LET primary == decision.primary
      cheaper == ResolveModel(Name("", Downgrades[primary.model]), config.overrides)
  IN  IF spent /\ ~ decision.neverDowngrade /\ primary.model \in DOMAIN Downgrades
      THEN IF cheaper # Unresolved THEN cheaper
           ELSE Candidate(primary.provider, Downgrades[primary.model])
      ELSE primary

CacheKey(q) ==
  IF q.surface = "messages" /\ ~ ShouldBypass(q.body)
  THEN ComputeCacheKey(q.name, q.body) ELSE NoKey

(* handleMessages up to its first await: cache, then budget, then tools.   *)
StartMessages(q, decision, blocked, spent) ==
  LET hops == <<Downgraded(decision, spent)>> \o decision.fallbacks
      key  == CacheKey(q)
      s    == [Idle(q.body) EXCEPT !.reason = decision.reason, !.key = key,
                                   !.hops = hops]
  IN  IF CacheHit(table, key, now)
      THEN [Ended(s, 200, <<Event("cache_hit", FALSE)>>)
              EXCEPT !.reply = table[key].answer]
      ELSE IF blocked THEN Ended(s, 429, <<Event("budget_exceeded", TRUE)>>)
      ELSE Authorized(s, q, hops)

Start(q, decision, blocked, spent) ==
  IF ~ Parsed(q) \/ decision = Unresolved THEN Ended(Idle(q.body), 400, <<>>)
  ELSE IF q.surface = "messages"
  THEN StartMessages(q, decision, blocked, spent)
  ELSE Authorized([Idle(q.body) EXCEPT !.reason = decision.reason,
                                       !.hops = <<decision.primary>>],
                  q, <<decision.primary>>)

------------------------------------------------------------------------------
Init ==
  /\ \E s \in Scenarios : config = s.config /\ inbox = s.inbox
  /\ req = [r \in DOMAIN inbox |-> Idle(inbox[r].body)]
  /\ table = EmptyTable
  /\ now = 0

Receive(r) ==
  /\ req[r].pc = "new"
  /\ \E decision \in {Plan(inbox[r])} :
       /\ \E blocked, spent \in BOOLEAN :
            req' = [req EXCEPT ![r] = Start(inbox[r], decision, blocked, spent)]
       /\ table' = IF Parsed(inbox[r]) /\ decision # Unresolved
                   THEN AfterLookup(table, CacheKey(inbox[r]), now) ELSE table
  /\ UNCHANGED <<config, inbox, now>>

Hop(r) == req[r].hops[1]

(* A hop of a Messages request fails, or is skipped, and the next is tried. *)
FallBack(r) ==
  /\ req[r].pc = "waiting" /\ inbox[r].surface = "messages"
  /\ Len(req[r].hops) > 1
  /\ req' = [req EXCEPT ![r] = Dispatch(@, "messages", Tail(@.hops))]
  /\ UNCHANGED <<config, inbox, table, now>>

Fail(r) ==
  /\ req[r].pc = "waiting"
  /\ \E category \in FailureCategories :
       req' = [req EXCEPT ![r] =
                 Ended(@, ErrorStatus(inbox[r].surface, category),
                       IF inbox[r].surface = "count_tokens" THEN <<>>
                       ELSE <<Event(category, TRUE)>>)]
  /\ UNCHANGED <<config, inbox, table, now>>

(* The upstream answers with an event stream: the response starts, its     *)
(* event waits for the end.  There is no reply as a whole: what such a     *)
(* client reads is module StreamPipeline's.                                *)
AnswerStreamed(r) ==
  LET surface == inbox[r].surface
      p == Hop(r).provider
  IN  /\ req[r].pc = "waiting" /\ surface # "count_tokens"
      /\ Streamed(Asked(surface, req[r].body, p), p)
      /\ \E a \in UpstreamAnswers[AnswerProtocol(surface, p)] :
           req' = [req EXCEPT ![r] =
                     [@ EXCEPT !.pc = "streaming", !.status = 200, !.form = "sse",
                               !.upstream = a]]
      /\ UNCHANGED <<config, inbox, table, now>>

Settled(s) ==
  [s EXCEPT !.pc = "done", !.at = now, !.events = Append(@, Event("success", TRUE))]

EndStream(r) ==
  /\ req[r].pc = "streaming"
  /\ req' = [req EXCEPT ![r] = Settled(@)]
  /\ UNCHANGED <<config, inbox, table, now>>

(* The upstream answers with a whole body: event, then cache, then answer, *)
(* as a stream made up from it if the client asked for one.                *)
AnswerWhole(r) ==
  LET surface == inbox[r].surface
      p       == Hop(r).provider
      asked   == Asked(surface, req[r].body, p)
  IN  /\ req[r].pc = "waiting" /\ surface # "count_tokens"
      /\ ~ Streamed(asked, p)
      /\ \E a \in UpstreamAnswers[AnswerProtocol(surface, p)] :
           LET reply == Render(surface, p, ParseResponse(a, p, asked))
           IN  /\ req' = [req EXCEPT ![r] =
                           [Ended(@, 200, <<Event("success", TRUE)>>) EXCEPT
                              !.upstream = a, !.reply = reply,
                              !.form = IF inbox[r].body.stream THEN "sse" ELSE "json"]]
               /\ IF req[r].key = NoKey THEN table' = table
                  ELSE table' \in AfterStore(table, req[r].key, Hop(r).model, reply, now)
      /\ UNCHANGED <<config, inbox, now>>

(* count_tokens forwards what the upstream says, success or not.           *)
AnswerCount(r) ==
  /\ req[r].pc = "waiting" /\ inbox[r].surface = "count_tokens"
  /\ \E status \in {200, 400} : req' = [req EXCEPT ![r] = Ended(@, status, <<>>)]
  /\ UNCHANGED <<config, inbox, table, now>>

Tick ==
  /\ now < MaxTime
  /\ now' = now + 1
  /\ UNCHANGED <<config, inbox, req, table>>

Next ==
  \/ \E r \in DOMAIN inbox :
       \/ Receive(r) \/ FallBack(r) \/ Fail(r)
       \/ AnswerStreamed(r) \/ EndStream(r) \/ AnswerWhole(r) \/ AnswerCount(r)
  \/ Tick

Spec == Init /\ [][Next]_vars

------------------------------------------------------------------------------
(* Properties                                                              *)

Done(r) == req[r].pc = "done"
Planned(r) == Parsed(inbox[r]) /\ Plan(inbox[r]) # Unresolved
LastEvent(r) == req[r].events[Len(req[r].events)]

(* Every early return of the three handlers reports what it answered: a    *)
(* request that was planned ends with exactly one event, a success iff the *)
(* client got a 200; what is exported as a success did cost an upstream    *)
(* call, and what was refused or replayed cost none.  (The attempts that   *)
(* were superseded have events of their own, see AttemptLoop.)             *)
EventTellsTheAnswer ==
  \A r \in DOMAIN inbox :
    IF ~ Planned(r) \/ inbox[r].surface = "count_tokens"
    THEN req[r].events = <<>>
    ELSE /\ Len(req[r].events) = IF Done(r) THEN 1 ELSE 0
         /\ Done(r) =>
              LET e == LastEvent(r)
              IN  /\ (e.outcome \in {"success", "cache_hit"}) = (req[r].status = 200)
                  /\ e.exported = (e.outcome # "cache_hit")
                  /\ e.outcome = "success" =>
                       req[r].sent # <<>> /\ req[r].upstream # NoAnswer
                  /\ e.outcome \in {"cache_hit", "budget_exceeded", "policy_rejected"} =>
                       req[r].sent = <<>>

(* What a tool needs to reach an upstream, said without the order in which *)
(* authorization.ts applies its rules.                                     *)
MayUse(tool, q) ==
  LET agent == q.headers.toolAgent
      named == agent \in DOMAIN Agents
      packs == ActivePacks(q.headers.toolTask, agent)
      says(i, word) == /\ Lists(Packs[packs[i]], tool)
                       /\ EntryPolicy(Packs[packs[i]], tool) = word
                       /\ \A j \in 1..(i - 1) : ~ Lists(Packs[packs[j]], tool)
  IN  /\ tool \notin DenyList
      /\ \/ named /\ tool \in DOMAIN Agents[agent].overrides
                  /\ Agents[agent].overrides[tool] = "allow"
         \/ /\ ~ (named /\ tool \in DOMAIN Agents[agent].overrides)
            /\ \E i \in 1..Len(packs) : says(i, "allow")

(* The tools of a request that may reach an upstream, in its order: those  *)
(* of a name that is allowed.  One without a name is never asked about,    *)
(* and passes as long as no other is denied.                               *)
Permitted(q) ==
  LET named == RequestedNames(q.body.tools)
  IN  IF ~ ToolsEnforced \/ \A t \in ToSet(named) : MayUse(t, q)
      THEN q.body.tools
      ELSE Keep(named, {t \in ToSet(named) : MayUse(t, q)})

(* No surface and no fallback lets a tool of a denied name reach an        *)
(* upstream, and none loses a tool that is allowed; hosted tools reach     *)
(* OpenAI alone.  (A tool no active pack lists is denied whatever the      *)
(* packs' defaults say.)                                                   *)
DeniedNeverSent ==
  \A r \in DOMAIN inbox : \A i \in DOMAIN req[r].sent :
    LET q == inbox[r]
        s == req[r].sent[i]
    IN  q.surface # "count_tokens" =>
          /\ s.body.tools = Permitted(q)
          /\ s.body.tools = <<>> => q.body.tools = <<>>
          /\ s.body.hosted # {} =>
               s.hop.provider = "openai" /\ s.body.hosted \subseteq AllowedHosted

(* The vocabularies of the protocols: what the parts of a turn may be, and *)
(* that the assistant calls and a user's turn returns.                     *)
PartsOf(kinds) == Seq([kind : kinds, id : STRING, text : Seq(STRING)])
TurnsOf(kinds, calls) ==
  Seq([role : STRING, parts : PartsOf(kinds), calls : PartsOf(calls), answers : STRING])

MessagesTurn(t) ==
  /\ \A i \in DOMAIN t.parts : t.parts[i].kind = "tool_use" => t.role = "assistant"
  /\ \A i \in DOMAIN t.parts : t.parts[i].kind = "tool_result" => t.role = "user"

ResponsesItem(t) ==
  /\ t.role = "reasoning" => t.parts \in PartsOf({"summary"})
  /\ t.role = "function_call" => t.parts \in PartsOf({"text", "input_text"})

Conversation(surface, b) ==
  /\ b.system \in PartsOf({"text"})
  /\ CASE surface = "chat" ->
            /\ b.system = <<>>
            /\ b.turns \in TurnsOf({"text", "image", "image_ref"}, {"tool_use"})
            /\ \A i \in DOMAIN b.turns :
                 b.turns[i].calls # <<>> => b.turns[i].role = "assistant"
       [] surface = "responses" ->
            /\ b.turns \in TurnsOf({"text", "input_text", "output_text", "input_image",
                                    "image_ref", "summary"}, {})
            /\ \A i \in DOMAIN b.turns : ResponsesItem(b.turns[i])
       [] OTHER ->
            /\ b.turns \in TurnsOf({"text", "image", "image_ref", "thinking", "tool_use",
                                    "tool_result"}, {})
            /\ \A i \in DOMAIN b.turns : MessagesTurn(b.turns[i])

ASSUME ConversationAssumption ==
  \A s \in Scenarios : \A r \in DOMAIN s.inbox :
    /\ s.inbox[r].surface \in {"messages", "chat", "responses", "count_tokens"}
    /\ Conversation(s.inbox[r].surface, s.inbox[r].body)

(* Each protocol has one word for an answer that was cut short, and uses   *)
(* no other's.                                                             *)
CutShort ==
  [anthropic |-> "max_tokens", openai_chat |-> "length", gemini |-> "MAX_TOKENS",
   ollama |-> "length", openai_responses |-> "incomplete:max_output_tokens"]

Truncated(a) == a.finish \in {CutShort[protocol] : protocol \in Protocols}

AnswersIn(protocol) ==
  CASE protocol = "anthropic" ->
         [parts : PartsOf({"text", "thinking", "tool_use"}), finish : STRING]
    [] protocol = "gemini" -> [parts : PartsOf({"text", "functionCall"}), finish : STRING]
    [] protocol = "openai_responses" ->
         [outputs : PartsOf({"message", "function_call", "reasoning"}), finish : STRING]
    [] OTHER -> [text : Seq(STRING), calls : PartsOf({"tool_use"}), finish : STRING,
                 reasoning : Seq(STRING)]

ASSUME AnswerAssumption ==
  \A protocol \in Protocols : \A a \in UpstreamAnswers[protocol] :
    a \in AnswersIn(protocol) /\ (Truncated(a) => a.finish = CutShort[protocol])

(* What a body says, whatever its protocol: the words of each side, and    *)
(* the calls with their results in order.                                  *)
Who(role) == CASE role \in {"system", "developer"} -> "system"
               [] role \in {"assistant", "model"} -> "assistant"
               [] OTHER -> "user"

Carrier(role) == role \in {"tool", "function_call", "function_call_output", "reasoning"}

WordsOf(parts) == Joined({"text", "input_text", "output_text"}, parts)

TurnWords(who, t) ==
  IF Who(t.role) = who /\ ~ Carrier(t.role) THEN WordsOf(t.parts) ELSE <<>>

Words(who, b) ==
  (IF who = "system" THEN WordsOf(b.system) ELSE <<>>)
  \o Flat([i \in DOMAIN b.turns |-> TurnWords(who, b.turns[i])])

TurnExchange(t) ==
  LET inParts == OfKind({"tool_use", "functionCall", "tool_result", "functionResponse"},
                        t.parts)
      one(p) == [result |-> p.kind \in {"tool_result", "functionResponse"},
                 id |-> p.id, text |-> p.text]
  IN  IF t.role \in {"tool", "function_call", "function_call_output"}
      THEN << [result |-> t.role # "function_call", id |-> t.answers,
               text |-> WordsOf(t.parts)] >>
      ELSE [i \in DOMAIN inParts |-> one(inParts[i])]
           \o [i \in DOMAIN t.calls |-> one(t.calls[i])]

Exchange(b) == Flat([i \in DOMAIN b.turns |-> TurnExchange(b.turns[i])])

(* Calls as an upstream is sent them.  Gemini's and Ollama's carry no id;  *)
(* these two, and Anthropic behind Chat, are sent a value for arguments.   *)
AsSent(calls, surface, provider) ==
  LET bare   == provider \in {"google", "ollama"}
      valued == bare \/ (surface = "chat" /\ provider = "anthropic")
      sent(c) == [c EXCEPT !.id = IF bare THEN "" ELSE @,
                           !.text = IF valued THEN Arguments(@) ELSE @]
  IN  [i \in DOMAIN calls |-> IF calls[i].result THEN calls[i] ELSE sent(calls[i])]

Pictures(kinds, b) ==
  Flat([i \in DOMAIN b.turns |-> OfKind(kinds, b.turns[i].parts)])

Images(b) == Pictures({"image", "input_image", "image_ref"}, b)

(* The images that may reach an upstream: none behind Gemini, Ollama or a  *)
(* Chat body rewritten for Anthropic; those that come with their data in   *)
(* any other body that is translated; all of a body that is passed on.     *)
ImagesFor(b, surface, provider) ==
  CASE provider \in {"google", "ollama"} -> <<>>
    [] surface = "chat" /\ provider = "anthropic" -> <<>>
    [] \/ surface = "messages" /\ provider \notin {"anthropic", "google", "ollama"}
       \/ surface = "responses" /\ provider \notin {"openai", "google", "ollama"} ->
         Pictures({"image", "input_image"}, b)
    [] OTHER -> Images(b)

(* Across every pair of protocols, and with a system text, a tool call and *)
(* its result in the conversation: what each side said, which call came    *)
(* when, with which arguments, and what it returned, and the limits the    *)
(* client set reach the upstream.  What is lost on the way is this and no  *)
(* more: arguments that are not JSON where the upstream wants a value, and *)
(* the images a translation does not take.                                 *)
NothingLostInTranslation ==
  \A r \in DOMAIN inbox : \A i \in DOMAIN req[r].sent :
    LET q == inbox[r].body
        p == req[r].sent[i].hop.provider
        s == req[r].sent[i].body
    IN  /\ \A who \in {"system", "user", "assistant"} : Words(who, s) = Words(who, q)
        /\ Exchange(s) = AsSent(Exchange(q), inbox[r].surface, p)
        /\ Len(Images(s)) = Len(ImagesFor(q, inbox[r].surface, p))
        /\ q.maxTokens # 0 => s.maxTokens = q.maxTokens
        /\ s.temperature = q.temperature

(* What an answer says, whatever its protocol.                             *)
AnswerWords(a) ==
  CASE "parts" \in DOMAIN a -> WordsOf(a.parts)
    [] "outputs" \in DOMAIN a -> Joined({"message"}, a.outputs)
    [] OTHER -> a.text

AnswerCalls(a) ==
  LET calls == CASE "parts" \in DOMAIN a -> OfKind({"tool_use", "functionCall"}, a.parts)
                 [] "outputs" \in DOMAIN a -> OfKind({"function_call"}, a.outputs)
                 [] OTHER -> a.calls
  IN  [i \in DOMAIN calls |-> calls[i].text]

(* Messages' calls have a value for arguments.                             *)
AsTold(calls, surface, provider) ==
  IF surface = "messages" /\ provider # "anthropic"
  THEN [i \in DOMAIN calls |-> Arguments(calls[i])] ELSE calls

Whole(r) ==
  LET a == req[r].upstream
      reply == req[r].reply
      p == Hop(r).provider
  IN  /\ AnswerWords(reply) = AnswerWords(a)
      /\ AnswerCalls(reply) = AsTold(AnswerCalls(a), inbox[r].surface, p)
      /\ \/ p \in {"google", "ollama"} /\ AnswerCalls(a) # <<>>
         \/ Truncated(reply) = Truncated(a)

(* The two routes whose answer cannot be read: an Anthropic upstream       *)
(* behind the Responses surface, and a streaming client of Messages or     *)
(* Responses behind Gemini or Ollama.                                      *)
Unread(r) ==
  \/ inbox[r].surface = "responses" /\ Hop(r).provider = "anthropic"
  \/ Hop(r).provider \in {"google", "ollama"} /\ Asked(inbox[r].surface, req[r].body, Hop(r).provider)

(* On every other route a client whose answer is made of a whole body gets *)
(* the upstream's words, its calls and whether it was cut short; of a call *)
(* whose arguments are cut short, a Messages client behind another         *)
(* protocol gets the call alone.  (Gemini's and Ollama's adapters report a *)
(* call where the answer was also cut short.)                              *)
AnswerIsWhole ==
  \A r \in DOMAIN inbox :
    req[r].upstream # NoAnswer /\ req[r].reply # NoAnswer /\ ~ Unread(r) => Whole(r)

(* docs/architecture/streaming.md:53-55: the buffered streaming paths      *)
(* through Gemini and Ollama "are correct, just not incremental".          *)
BufferedStreamIsCorrect ==
  \A r \in DOMAIN inbox :
    /\ req[r].upstream # NoAnswer
    /\ inbox[r].body.stream /\ Hop(r).provider \in {"google", "ollama"}
    => Whole(r)

(* Whatever mode, policy or budget chose: a fallback is never a model the  *)
(* registry knows to lack what the request needs; a route no policy and no *)
(* budget changed asks no candidate twice unless the configured cascade    *)
(* lists it twice, and leaves that cascade only by a mapping; a model that *)
(* a policy pinned is not swapped for a cheaper one.                       *)
RouteSound ==
  \A r \in DOMAIN inbox : \A plan \in {Plan(inbox[r])} :
    LET q     == inbox[r]
        asked == [i \in DOMAIN req[r].sent |-> req[r].sent[i].hop]
        cascade == CascadeChain(config.routing, config.overrides)
        custom == config.routing.cross.mapping
    IN  asked # <<>> =>
          /\ \A i \in 2..Len(asked) :
               ~ KnownUnsupported(asked[i].model, RequiredCapabilities(q.body))
          /\ plan.reason \notin {"agent_task", "task", "agent"} /\ asked[1] = plan.primary =>
               \A i \in 2..Len(asked) :
                 \/ Contains(cascade, asked[i])
                 \/ /\ \A j \in 1..(i - 1) : asked[j].provider # asked[i].provider \/
                                             Contains(cascade, asked[j])
                    /\ MapModel(plan.primary.model, plan.primary.provider,
                                asked[i].provider, custom) = asked[i].model
          /\ plan.neverDowngrade => asked[1] = plan.primary

SameQuestion(q, p) ==
  /\ q.name = p.name
  /\ \A field \in {"system", "turns", "tools", "choice", "maxTokens", "temperature"} :
       q.body[field] = p.body[field]

(* s, for q, repeats what x gave as the whole answer to p.                 *)
Repeats(s, q, x, p) ==
  /\ SameQuestion(q, p)
  /\ x.pc = "done" /\ x.upstream # NoAnswer
  /\ x.form = IF p.body.stream THEN "sse" ELSE "json"
  /\ x.reply = s.reply
  /\ s.at - x.at < CacheTtl

(* A hit repeats the answer some earlier request was given for the same    *)
(* question: same model, same conversation, same tools and limits, no      *)
(* randomness asked for, and no older than the time to live.  (Which tools *)
(* that request's agent was allowed is not part of the question.)          *)
HitIsDeserved ==
  \A r \in DOMAIN inbox :
    req[r].events = <<Event("cache_hit", FALSE)>> =>
      /\ inbox[r].body.temperature = 0
      /\ \E other \in DOMAIN inbox \ {r} :
           Repeats(req[r], inbox[r], req[other], inbox[other])

(* A store makes room by age alone, as long as it must: what remains fits, *)
(* is younger than what went, and the answer just stored stays unless it   *)
(* does not fit by itself or is no younger than another.                   *)
StoreMakesRoom ==
  [][\A r \in DOMAIN inbox :
       /\ req[r].pc = "waiting" /\ req'[r].pc = "done" /\ req'[r].status = 200
       /\ req[r].key # NoKey
       => LET key  == req[r].key
              gone == (DOMAIN table \cup {key}) \ DOMAIN table'
          IN  /\ TotalSize(table') <= CacheBudget
              /\ \A g \in gone \ {key}, k \in DOMAIN table' \ {key} :
                   table[g].created <= table[k].created
              /\ \/ key \in DOMAIN table' /\ table'[key].answer = req'[r].reply
                 \/ SizeOf(req'[r].reply) > CacheBudget
                 \/ \E k \in DOMAIN table' : table[k].created = now]_vars
=============================================================================
