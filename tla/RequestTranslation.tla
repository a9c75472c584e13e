-------------------------- MODULE RequestTranslation --------------------------
(***************************************************************************)
(* The three client surfaces' requests and their translation to what an    *)
(* upstream speaks: src/protocols/{anthropic,openai-chat,openai-responses} *)
(* and the Gemini and Ollama adapters' translate.ts.                       *)
(*                                                                         *)
(* Every body is one record.  turns holds the messages (Messages, Chat) or *)
(* the input items (Responses); a turn is [role, parts, calls, answers],   *)
(* a part or a call [kind, id, text].  A text is a sequence of atoms, so   *)
(* joining texts is concatenating them; tool arguments and image data are  *)
(* texts too.  An image a translation cannot carry, because its source has *)
(* no data (Messages) or it has no URL (Responses: a file's id), is a part *)
(* of kind image_ref.  In a request not yet parsed a missing id or name is *)
(* "", a missing number 0, an unset option "unset".                        *)
(***************************************************************************)
EXTENDS Integers, Sequences, SequencesExt, Filters

CONSTANT NotJson    \* the texts that are no JSON value, cut short for one

DefaultMaxTokens == 4096
EmptyObject == <<"{}">>

ASSUME JsonAssumption == <<>> \in NotJson /\ EmptyObject \in Seq(STRING) \ NotJson

Part(kind, id, text) == [kind |-> kind, id |-> id, text |-> text]
TextPart(text) == Part("text", "", text)
Turn(role, parts, calls, answers) ==
  [role |-> role, parts |-> parts, calls |-> calls, answers |-> answers]

Blank ==
  [system |-> <<>>, turns |-> <<>>, tools |-> <<>>, hosted |-> {},
   choice |-> [type |-> "unset", tool |-> ""], maxTokens |-> 0,
   temperature |-> 0, thinking |-> FALSE, effort |-> "unset",
   parallel |-> "unset", stream |-> FALSE]

OfKind(kinds, parts) == Keep(parts, {p \in ToSet(parts) : p.kind \in kinds})

(* The texts of the parts of some kinds, joined.                           *)
Joined(kinds, parts) ==
  Flat([i \in DOMAIN parts |-> IF parts[i].kind \in kinds THEN parts[i].text ELSE <<>>])

TextOf(parts) == Joined({"text"}, parts)

(* The arguments of a call where the protocol wants a value: a text that   *)
(* does not parse is replaced by the empty object.                         *)
Arguments(text) == IF text \in NotJson THEN EmptyObject ELSE text

ToolUses(calls) ==
  [i \in DOMAIN calls |->
     [calls[i] EXCEPT !.kind = "tool_use", !.text = Arguments(@)]]

------------------------------------------------------------------------------
(* Parsing: a request is normalised or answered 400.                       *)

MessagesValid(b) ==
  /\ b.turns # <<>> /\ b.maxTokens > 0
  /\ \A i \in DOMAIN b.turns : b.turns[i].role \in {"user", "assistant", "system"}

(* A tool message names its call; only an assistant's calls may stand      *)
(* without content.                                                        *)
ChatValid(b) ==
  /\ b.turns # <<>>
  /\ \A i \in DOMAIN b.turns :
       LET m == b.turns[i] IN
       /\ m.role \in {"system", "user", "assistant", "tool", "developer"}
       /\ m.role = "tool" => m.answers # ""
       /\ m.parts = <<>> => m.role = "assistant" /\ m.calls # <<>>

HostedToolTypes ==
  {"web_search", "file_search", "code_interpreter", "computer_use",
   "image_generation"}

(* An input item is a message, a function call, its output or reasoning.   *)
ItemValid(item) ==
  \/ item.role \in {"user", "assistant", "system", "developer", "reasoning"}
  \/ item.role \in {"function_call", "function_call_output"} /\ item.answers # ""

(* previous is previous_response_id: no state is kept to resume from.      *)
ResponsesValid(b, previous) ==
  /\ ~ previous
  /\ b.turns # <<>> /\ \A i \in DOMAIN b.turns : ItemValid(b.turns[i])
  /\ b.hosted \subseteq HostedToolTypes /\ "" \notin ToSet(b.tools)
  /\ b.effort \in {"unset", "minimal", "low", "medium", "high"}

(* A plain string, as an item's content or the whole input, becomes one    *)
(* input_text part.                                                        *)
NormalizeItem(item) ==
  [item EXCEPT !.parts = [i \in DOMAIN item.parts |->
     IF item.parts[i].kind = "text"
     THEN [item.parts[i] EXCEPT !.kind = "input_text"] ELSE item.parts[i]]]

------------------------------------------------------------------------------
(* Messages -> Chat Completions.  An image_ref is not carried.             *)

(* Mutant: a turn with tool results is nothing but its results.            *)
AnthropicTurnToChatAs(turn) ==
  LET parts   == OfKind({"text", "image"}, turn.parts)
      calls   == OfKind({"tool_use"}, turn.parts)
      results == OfKind({"tool_result"}, turn.parts)
      said    == IF results # <<>> THEN <<>>
                 ELSE <<Turn(turn.role, parts, calls, "")>>
  IN  said \o [i \in DOMAIN results |->
                 Turn("tool", <<TextPart(results[i].text)>>, <<>>, results[i].id)]

AnthropicTurnToChat(turn) ==
  LET parts   == OfKind({"text", "image"}, turn.parts)
      calls   == OfKind({"tool_use"}, turn.parts)
      results == OfKind({"tool_result"}, turn.parts)
      said    == IF parts = <<>> /\ calls = <<>> THEN <<>>
                 ELSE <<Turn(turn.role, parts, calls, "")>>
  IN  said \o [i \in DOMAIN results |->
                 Turn("tool", <<TextPart(results[i].text)>>, <<>>, results[i].id)]

SystemMessage(text) ==
  IF text = <<>> THEN <<>> ELSE <<Turn("system", <<TextPart(text)>>, <<>>, "")>>

AnthropicChoiceToChat(choice) ==
  CASE choice.type = "auto" -> choice
    [] choice.type = "any" -> [choice EXCEPT !.type = "required"]
    [] choice.type = "tool" -> [choice EXCEPT !.type = "function"]
    [] OTHER -> Blank.choice

(* Z.ai alone is told of a thinking budget.                                *)
AnthropicToOpenAIRequest(b, provider) ==
  [Blank EXCEPT
     !.turns = SystemMessage(TextOf(b.system))
               \o Flat([i \in DOMAIN b.turns |-> AnthropicTurnToChat(b.turns[i])]),
     !.tools = b.tools, !.choice = AnthropicChoiceToChat(b.choice),
     !.maxTokens = b.maxTokens, !.temperature = b.temperature,
     !.thinking = b.thinking /\ provider = "zai", !.stream = b.stream]

------------------------------------------------------------------------------
(* Chat Completions -> Messages: system text is hoisted, each tool message *)
(* is a user turn of its own, images are dropped.                          *)

IsSystem(m) == m.role \in {"system", "developer"}

ChatMessageToAnthropic(m) ==
  LET text == TextOf(m.parts)
  IN  CASE m.role = "tool" ->
             Turn("user", <<Part("tool_result", m.answers, text)>>, <<>>, "")
        [] m.role = "assistant" ->
             Turn("assistant", (IF text = <<>> THEN <<>> ELSE <<TextPart(text)>>)
                               \o ToolUses(m.calls), <<>>, "")
        [] OTHER -> Turn("user", <<TextPart(text)>>, <<>>, "")

ChatChoiceToAnthropic(choice) ==
  CASE choice.type = "auto" -> choice
    [] choice.type = "required" -> [choice EXCEPT !.type = "any"]
    [] choice.type = "function" -> [choice EXCEPT !.type = "tool"]
    [] OTHER -> Blank.choice

SystemText(turns) ==
  Flat([i \in DOMAIN turns |->
          IF IsSystem(turns[i]) THEN TextOf(turns[i].parts) ELSE <<>>])

Spoken(turns) == Keep(turns, {m \in ToSet(turns) : ~ IsSystem(m)})

ChatToAnthropicRequest(b) ==
  LET spoken == Spoken(b.turns)
  IN  [Blank EXCEPT
         !.system = IF \E i \in DOMAIN b.turns : IsSystem(b.turns[i])
                    THEN <<TextPart(SystemText(b.turns))>> ELSE <<>>,
         !.turns = [i \in DOMAIN spoken |-> ChatMessageToAnthropic(spoken[i])],
         !.tools = b.tools, !.choice = ChatChoiceToAnthropic(b.choice),
         !.maxTokens = IF b.maxTokens = 0 THEN DefaultMaxTokens ELSE b.maxTokens,
         !.temperature = b.temperature, !.stream = b.stream]

------------------------------------------------------------------------------
(* Responses -> Chat Completions.  An image_ref is not carried.            *)

ContentPartsToChat(parts) ==
  LET kept == OfKind({"input_text", "output_text", "text", "input_image"}, parts)
  IN  [i \in DOMAIN kept |->
         [kept[i] EXCEPT !.kind = IF @ = "input_image" THEN "image" ELSE "text"]]

InputItemToChat(item) ==
  CASE item.role = "reasoning" -> <<>>
    [] item.role = "function_call" ->
         <<Turn("assistant", <<>>,
                <<Part("tool_use", item.answers, TextOf(ContentPartsToChat(item.parts)))>>, "")>>
    [] item.role = "function_call_output" ->
         <<Turn("tool", ContentPartsToChat(item.parts), <<>>, item.answers)>>
    [] OTHER ->
         <<Turn(IF item.role = "developer" THEN "system" ELSE item.role,
                ContentPartsToChat(item.parts), <<>>, "")>>

(* A choice with no Chat equivalent (a hosted tool) is left out.           *)
ResponsesToolChoiceToChat(choice) ==
  IF choice.type \in {"auto", "none", "required", "function"} THEN choice
  ELSE Blank.choice

GateParallelToolCalls(requested, capable) ==
  IF requested = "unset" \/ capable THEN requested ELSE "false"

(* capable: the capabilities the adapter declares.                         *)
ResponsesToChatBody(b, provider, capable) ==
  LET effort == IF "reasoning" \in capable THEN b.effort ELSE "unset"
  IN  [Blank EXCEPT
         !.turns = SystemMessage(TextOf(b.system))
                   \o Flat([i \in DOMAIN b.turns |-> InputItemToChat(b.turns[i])]),
         !.tools = b.tools, !.choice = ResponsesToolChoiceToChat(b.choice),
         !.maxTokens = b.maxTokens, !.temperature = b.temperature,
         !.effort = effort, !.thinking = effort # "unset" /\ provider = "zai",
         !.parallel = GateParallelToolCalls(b.parallel, "tools" \in capable),
         !.stream = b.stream]

------------------------------------------------------------------------------
(* Chat Completions -> Gemini and Ollama, inside their adapters            *)

(* Gemini knows a call and its result by the function's name; the result   *)
(* is sent under the id of the call it answers.                            *)
ChatMessageToGemini(m) ==
  LET text  == TextOf(m.parts)
      calls == [i \in DOMAIN m.calls |->
                  Part("functionCall", "", Arguments(m.calls[i].text))]
  IN  CASE m.role = "tool" ->
             Turn("user", <<Part("functionResponse", m.answers, text)>>, <<>>, "")
        [] m.role = "assistant" ->
             Turn("model", (IF text = <<>> THEN <<>> ELSE <<TextPart(text)>>)
                           \o calls, <<>>, "")
        [] OTHER -> Turn("user", <<TextPart(text)>>, <<>>, "")

ChatToGeminiRequest(b) ==
  LET spoken == Spoken(b.turns)
  IN  [Blank EXCEPT
         !.system = IF \E i \in DOMAIN b.turns : IsSystem(b.turns[i])
                    THEN <<TextPart(SystemText(b.turns))>> ELSE <<>>,
         !.turns = [i \in DOMAIN spoken |-> ChatMessageToGemini(spoken[i])],
         !.tools = b.tools, !.maxTokens = b.maxTokens,
         !.temperature = b.temperature]

(* Ollama's calls carry no id.                                             *)
WithoutIds(calls) ==
  [i \in DOMAIN calls |->
     [calls[i] EXCEPT !.id = "", !.text = Arguments(@)]]

ChatToOllamaRequest(b) ==
  [Blank EXCEPT
     !.turns = [i \in DOMAIN b.turns |->
                  [b.turns[i] EXCEPT !.parts = <<TextPart(TextOf(@))>>,
                                     !.calls = WithoutIds(@)]],
     !.tools = b.tools, !.maxTokens = b.maxTokens,
     !.temperature = b.temperature, !.stream = b.stream]
=============================================================================
