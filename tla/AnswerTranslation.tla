-------------------------- MODULE AnswerTranslation ---------------------------
(***************************************************************************)
(* What an upstream answered, as each client surface renders it when the   *)
(* body is whole (the streamed paths are module StreamPipeline): the       *)
(* translate.ts and response.ts of the three protocols, the Gemini and     *)
(* Ollama adapters' answers, and the rule by which the transport decides   *)
(* whether an answer is streamed at all.                                   *)
(*                                                                         *)
(*   chat completion    [text, calls, finish, reasoning]                   *)
(*   Anthropic message  [parts, finish]                                    *)
(*   Responses object   [outputs, finish]   finish: status and reason      *)
(***************************************************************************)
EXTENDS RequestTranslation

Completion(text, calls, finish, reasoning) ==
  [text |-> text, calls |-> calls, finish |-> finish, reasoning |-> reasoning]
Message(parts, finish) == [parts |-> parts, finish |-> finish]
Object(outputs, finish) == [outputs |-> outputs, finish |-> finish]

Optional(kind, text) == IF text = <<>> THEN <<>> ELSE <<Part(kind, "", text)>>
AsKind(kind, calls) == [i \in DOMAIN calls |-> [calls[i] EXCEPT !.kind = kind]]

------------------------------------------------------------------------------
(* Chat completion -> Anthropic message                                    *)

OpenAIFinishToAnthropicStop(finish) ==
  CASE finish = "length" -> "max_tokens"
    [] finish \in {"tool_calls", "function_call"} -> "tool_use"
    [] finish = "content_filter" -> "stop_sequence"
    [] OTHER -> "end_turn"

(* Z.ai's reasoning leads the message as an unsigned thinking block.  The  *)
(* arguments of a call become a value: none is left of a text cut short.   *)
OpenAIResponseToAnthropic(answer, provider) ==
  Message((IF provider = "zai" THEN Optional("thinking", answer.reasoning) ELSE <<>>)
            \o Optional("text", answer.text)
            \o ToolUses(answer.calls),
          OpenAIFinishToAnthropicStop(answer.finish))

------------------------------------------------------------------------------
(* Anthropic message -> chat completion                                    *)

AnthropicStopToChatFinish(stop) ==
  CASE stop = "max_tokens" -> "length" [] stop = "tool_use" -> "tool_calls"
    [] OTHER -> "stop"

AnthropicResponseToChat(answer) ==
  Completion(TextOf(answer.parts),
             AsKind("tool_use", OfKind({"tool_use"}, answer.parts)),
             AnthropicStopToChatFinish(answer.finish), <<>>)

------------------------------------------------------------------------------
(* Chat completion -> Responses object                                     *)

(* Mutant: an answer that was cut short counts as completed.               *)
FinishReasonToStatusAs(finish) ==
  IF finish = "content_filter" THEN "incomplete:content_filter" ELSE "completed"

FinishReasonToStatus(finish) ==
  CASE finish = "length" -> "incomplete:max_output_tokens"
    [] finish = "content_filter" -> "incomplete:content_filter"
    [] OTHER -> "completed"

ChatResponseToCanonical(answer) ==
  Object(Optional("message", answer.text) \o AsKind("function_call", answer.calls),
         FinishReasonToStatus(answer.finish))

------------------------------------------------------------------------------
(* Gemini and Ollama answers -> chat completion, inside their adapters.    *)
(* Calls carry no id there: they are numbered after the request.           *)

CallId(n) == <<"call", n>>

Numbered(calls, places) ==
  [i \in DOMAIN calls |->
     [calls[i] EXCEPT !.kind = "tool_use", !.id = CallId(places[i])]]

GeminiFinishToChat(finish) ==
  CASE finish = "MAX_TOKENS" -> "length"
    [] finish \in {"SAFETY", "RECITATION"} -> "content_filter"
    [] OTHER -> "stop"

(* Numbered by the place of the part among all parts; a call decides the   *)
(* finish whatever the reason.                                             *)
GeminiResponseToChat(answer) ==
  LET places == Keep([i \in DOMAIN answer.parts |-> i],
                     {i \in DOMAIN answer.parts : answer.parts[i].kind = "functionCall"})
      calls  == [k \in DOMAIN places |-> answer.parts[places[k]]]
  IN  Completion(TextOf(answer.parts), Numbered(calls, places),
                 IF calls # <<>> THEN "tool_calls"
                 ELSE GeminiFinishToChat(answer.finish), <<>>)

OllamaFinishToChat(finish) == IF finish = "length" THEN "length" ELSE "stop"

OllamaResponseToChat(answer) ==
  Completion(answer.text, Numbered(answer.calls, [k \in DOMAIN answer.calls |-> k]),
             IF answer.calls # <<>> THEN "tool_calls"
             ELSE OllamaFinishToChat(answer.finish), <<>>)

(* A body that is not one JSON value (an NDJSON transcript, the array that *)
(* streamGenerateContent answers) has no fields to read.                   *)
UnreadableToChat == Completion(<<>>, <<>>, "stop", <<>>)

------------------------------------------------------------------------------
(* The transport streams an answer only if the gateway asked for it and    *)
(* the upstream answered with an event stream.  Gemini's and Ollama's      *)
(* adapters ask their upstreams for a stream, but for none of this kind.   *)

SpeaksEventStream(provider) == provider \notin {"google", "ollama"}

Streamed(requested, provider) == requested /\ SpeaksEventStream(provider)

(* parseResponse: what the adapter hands the gateway when the body is      *)
(* whole; requested: the upstream was asked to stream.                     *)
ParseResponse(answer, provider, requested) ==
  CASE provider \in {"google", "ollama"} /\ requested -> UnreadableToChat
    [] provider = "google" /\ ~ requested -> GeminiResponseToChat(answer)
    [] provider = "ollama" /\ ~ requested -> OllamaResponseToChat(answer)
    [] OTHER -> answer
=============================================================================
