-------------------------- MODULE MCStreamPipeline --------------------------
(* Instances of StreamPipeline for TLC: for each protocol, the frames that *)
(* make a difference to a translator, some of them with several events.    *)
EXTENDS StreamPipeline

Fragment(i, named, args) == [index |-> i, named |-> named, args |-> args]

ChatChunk == Upstream!Chunk

ToolChunks ==
  {[ChatChunk EXCEPT !.calls = <<Fragment(i, n, ~n)>>] :
     i \in 0 .. 1, n \in BOOLEAN}

MCChatFrames ==
  ToolChunks \cup
  {Upstream!Done,
   [ChatChunk EXCEPT !.role = TRUE, !.text = TRUE],
   [ChatChunk EXCEPT !.reasoning = TRUE],
   [ChatChunk EXCEPT !.finish = "length", !.usage = TRUE],
   [ChatChunk EXCEPT !.calls = <<Fragment(0, TRUE, TRUE),
                                 Fragment(1, TRUE, TRUE),
                                 Fragment(0, FALSE, TRUE)>>,
                     !.finish = "tool_calls"]}

MCAnthropicFrames ==
  {[type |-> "message_start", usage |-> {"input"}],
   [type |-> "text_delta", index |-> 0],
   [type |-> "thinking_delta", index |-> 0],
   [type |-> "json_delta", index |-> 1],
   [type |-> "block_stop", index |-> 0],
   [type |-> "message_delta", usage |-> {"output"}],
   [type |-> "message_stop"],
   [type |-> "error"],
   [type |-> "unknown"]}
  \cup {[type |-> "block_start", index |-> i, kind |-> k] :
          i \in {1}, k \in {"text", "tool_use", "thinking"}}

MCResponsesFrames ==
  {[type |-> "output_text_delta"],
   [type |-> "snapshot", usage |-> {"input", "output"}],
   [type |-> "unknown"]}

MCFrames ==
  [p \in Protocols |->
     CASE p = "openai_chat" -> MCChatFrames
       [] p = "anthropic" -> MCAnthropicFrames
       [] p = "openai_responses" -> MCResponsesFrames]

MCResponsesOnly == {"responses"}
=============================================================================
