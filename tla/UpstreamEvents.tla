--------------------------- MODULE UpstreamEvents ---------------------------
(***************************************************************************)
(* What one SSE block of an upstream decodes to:                           *)
(* src/protocols/openai-chat/stream-decoder.ts and                         *)
(* src/protocols/anthropic/stream-decoder.ts.  A frame is abstracted to    *)
(* what the decoders look for in it, a text to its presence, a tool call   *)
(* to its index.                                                           *)
(***************************************************************************)
EXTENDS Integers, Sequences, Filters

(* What an upstream of each protocol may send.                             *)
ChatFrames ==
  [done : BOOLEAN, role : BOOLEAN, reasoning : BOOLEAN, text : BOOLEAN,
   calls : Seq([index : Int, named : BOOLEAN, args : BOOLEAN]),
   finish : STRING, usage : BOOLEAN]

AnthropicFrames ==
  [type : {"message_start", "message_delta"}, usage : SUBSET STRING]
    \cup [type : {"text_delta", "thinking_delta", "signature_delta", "json_delta",
                  "block_stop"}, index : Int]
    \cup [type : {"block_start"}, index : Int, kind : {"text", "tool_use", "thinking"}]
    \cup [type : {"message_stop", "error", "unknown"}]

ResponsesFrames ==
  [type : {"output_text_delta", "unknown"}] \cup [type : {"snapshot"}, usage : SUBSET STRING]

(* A chat chunk that carries nothing, and the terminal [DONE] record.  A   *)
(* fragment of `calls` has an index and may name the call, carry arguments *)
(* of it, or both.                                                         *)
Chunk == [done |-> FALSE, role |-> FALSE, reasoning |-> FALSE,
          text |-> FALSE, calls |-> <<>>, finish |-> "none",
          usage |-> FALSE]

Done == [Chunk EXCEPT !.done = TRUE]

When(cond, event) == IF cond THEN <<event>> ELSE <<>>

DecodeToolCall(c) ==
  When(c.named, [type |-> "tool_call_start", index |-> c.index])
    \o When(c.args, [type |-> "tool_args_delta", index |-> c.index])

DecodeChat(f) ==
  IF f.done THEN <<[type |-> "done"]>>
  ELSE When(f.role, [type |-> "start"])
         \o When(f.reasoning, [type |-> "reasoning_delta"])
         \o When(f.text, [type |-> "text_delta"])
         \o Flat([k \in DOMAIN f.calls |-> DecodeToolCall(f.calls[k])])
         \o When(f.finish # "none", [type |-> "finish", reason |-> f.finish])
         \o When(f.usage, [type |-> "usage"])

(* An Anthropic frame carries one event; a ping, a block of a kind the     *)
(* decoder does not know and a malformed payload are all "unknown".        *)
DecodeAnthropic(f) == When(f.type # "unknown", f)

(* A frame of a Responses upstream is only ever forwarded and observed.    *)
DecodeResponses(f) == <<f>>

(* The usage fields a frame states.  A chat chunk states both, whichever   *)
(* of them it leaves out (decodeUsage reads an absent count as 0).         *)
ChatUsage == {"input", "output"}

UsageIn(e) ==
  CASE e.type = "usage" -> ChatUsage
    [] e.type \in {"message_start", "message_delta", "snapshot"} -> e.usage
    [] OTHER -> {}
=============================================================================
