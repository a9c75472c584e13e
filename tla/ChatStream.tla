----------------------------- MODULE ChatStream -----------------------------
(***************************************************************************)
(* An Anthropic upstream served as a Chat Completions stream: the          *)
(* translator (src/protocols/openai-chat/stream-translate.ts), which       *)
(* numbers the tool calls by itself, and the encoder (stream-encoder.ts).  *)
(* A chat stream has no parts to open or close but its tool calls.         *)
(***************************************************************************)
EXTENDS Integers, Sequences

NoIndex == -1

(* AnthropicToChatTranslator.  `usage` is the set of fields merged so far. *)
Translator == [started |-> FALSE, finished |-> FALSE, open |-> "none",
               tool |-> NoIndex, usage |-> {}]

Opening(t) == IF t.started THEN <<>> ELSE <<[type |-> "start"]>>

Terminal(t) == Opening(t) \o <<[type |-> "finish", usage |-> t.usage]>>

(* A text delta needs no open block, but one inside a thinking block is    *)
(* dropped.                                                                *)
ForwardsText(t) == t.open # "thinking"

(* The events push returns, and what it makes of the translator.           *)
Implied(t, e) ==
  IF t.finished THEN <<>>
  ELSE CASE e.type = "message_start" -> Opening(t)
         [] e.type = "block_start" /\ e.kind = "tool_use" ->
              Opening(t) \o <<[type |-> "tool_call_start",
                               index |-> t.tool + 1, call |-> e.index]>>
         [] e.type = "text_delta" /\ ForwardsText(t) ->
              Opening(t) \o <<[type |-> "text"]>>
         [] e.type = "json_delta" /\ t.open = "tool_use" ->
              Opening(t) \o <<[type |-> "tool_args", index |-> t.tool,
                               of |-> e.index]>>
         [] e.type = "message_stop" -> Terminal(t)
         [] OTHER -> <<>>

(* Mutant: the usage of message_delta replaces that of message_start.      *)
MergedLatest(old, new) == new

(* mergeUsage                                                              *)
Merged(old, new) == old \cup new

(* Whether push goes through open() for this event.                        *)
Opens(t, e) == Implied(t, e) # <<>>

Pushed(t, e) ==
  IF t.finished THEN t
  ELSE CASE e.type \in {"message_start", "message_delta"} ->
              [t EXCEPT !.started = @ \/ Opens(t, e),
                        !.usage = Merged(@, e.usage)]
         [] e.type = "block_start" ->
              [t EXCEPT !.started = @ \/ Opens(t, e), !.open = e.kind,
                        !.tool = IF e.kind = "tool_use" THEN @ + 1 ELSE @]
         [] e.type = "block_stop" -> [t EXCEPT !.open = "none"]
         [] e.type = "message_stop" ->
              [t EXCEPT !.started = TRUE, !.finished = TRUE]
         [] OTHER -> [t EXCEPT !.started = @ \/ Opens(t, e)]

(* What end() returns, and what it makes of the translator.                *)
Ending(t) == IF t.finished THEN <<>> ELSE Terminal(t)

Ended(t) == [t EXCEPT !.started = TRUE, !.finished = TRUE]

-----------------------------------------------------------------------------

(* ChatChunkEncoder.  It numbers nothing: a tool call's index is the       *)
(* translator's.  A `finish` event sets both finished and done.            *)
Encoder == [started |-> FALSE, done |-> FALSE]

(* Whether encode(ev) does not throw.                                      *)
Legal(c, ev) ==
  /\ ~c.done
  /\ (ev.type = "start") # c.started

Encoded(c, ev) ==
  CASE ev.type = "start" -> [c EXCEPT !.started = TRUE]
    [] ev.type = "finish" -> [c EXCEPT !.done = TRUE]
    [] OTHER -> c

(* The record the client gets; "end" stands for the terminal chunk, the    *)
(* usage chunk and [DONE].                                                 *)
Record(c, ev) ==
  CASE ev.type = "start" -> [name |-> "open"]
    [] ev.type = "text" -> [name |-> "text"]
    [] ev.type = "tool_call_start" ->
         [name |-> "part", index |-> ev.index, kind |-> "tool_use",
          call |-> ev.call]
    [] ev.type = "tool_args" ->
         [name |-> "delta", index |-> ev.index, kind |-> "tool_use",
          of |-> ev.of]
    [] ev.type = "finish" -> [name |-> "end", usage |-> ev.usage]
=============================================================================
