-------------------------- MODULE AnthropicStream ---------------------------
(***************************************************************************)
(* A chat upstream served as an Anthropic Messages stream: the translator  *)
(* (src/protocols/anthropic/stream-translate.ts), a state t that turns a   *)
(* decoded upstream event into canonical events, and the encoder           *)
(* (stream-encoder.ts), a state c that accepts or rejects a canonical      *)
(* event and numbers the content blocks.                                   *)
(***************************************************************************)
EXTENDS Integers, Sequences

NoIndex == -1

(* ChatToAnthropicTranslator                                               *)
Translator == [started |-> FALSE, finished |-> FALSE, open |-> "none",
               tool |-> NoIndex, usage |-> {}, reason |-> "none"]

Opening(t) == IF t.started THEN <<>> ELSE <<[type |-> "message_start"]>>

Closing(t) == IF t.open = "none" THEN <<>> ELSE <<[type |-> "block_stop"]>>

Starting(kind, call) ==
  <<[type |-> "block_start", kind |-> kind, call |-> call]>>

(* Mutant: a change of kind leaves the block before it open.               *)
SwitchingUnclosed(t, kind) ==
  IF t.open = kind THEN <<>> ELSE Starting(kind, NoIndex)

(* openTyped: nothing when a block of the kind is open already.            *)
Switching(t, kind) ==
  IF t.open = kind THEN <<>> ELSE Closing(t) \o Starting(kind, NoIndex)

Kind(e) == IF e.type = "text_delta" THEN "text" ELSE "thinking"

Terminal(t) ==
  Opening(t) \o Closing(t)
    \o <<[type |-> "message_delta"], [type |-> "message_stop"]>>

(* The events push returns, and what it makes of the translator.           *)
Implied(t, e) ==
  IF t.finished THEN <<>>
  ELSE CASE e.type = "start" -> Opening(t)
         [] e.type \in {"text_delta", "reasoning_delta"} ->
              Opening(t) \o Switching(t, Kind(e)) \o <<[type |-> Kind(e)]>>
         [] e.type = "tool_call_start" ->
              Opening(t) \o Closing(t) \o Starting("tool_use", e.index)
         [] e.type = "tool_args_delta"
              /\ t.open = "tool_use" /\ t.tool = e.index ->
              <<[type |-> "json", of |-> e.index]>>
         [] e.type = "done" -> Terminal(t)
         [] OTHER -> <<>>

Finished(t) ==
  [t EXCEPT !.started = TRUE, !.finished = TRUE,
            !.open = "none", !.tool = NoIndex]

Pushed(t, e) ==
  IF t.finished THEN t
  ELSE CASE e.type = "start" -> [t EXCEPT !.started = TRUE]
         [] e.type \in {"text_delta", "reasoning_delta"} ->
              [t EXCEPT !.started = TRUE, !.open = Kind(e), !.tool = NoIndex]
         [] e.type = "tool_call_start" ->
              [t EXCEPT !.started = TRUE, !.open = "tool_use",
                        !.tool = e.index]
         [] e.type = "finish" -> [t EXCEPT !.reason = e.reason]
         [] e.type = "usage" -> [t EXCEPT !.usage = {"input", "output"}]
         [] e.type = "done" -> Finished(t)
         [] OTHER -> t

(* What end() returns, and what it makes of the translator.                *)
Ending(t) == IF t.finished THEN <<>> ELSE Terminal(t)

Ended(t) == IF t.finished THEN t ELSE Finished(t)

-----------------------------------------------------------------------------

(* AnthropicSseEncoder                                                     *)
Encoder == [started |-> FALSE, stopped |-> FALSE, open |-> "none", next |-> 0]

(* The block a delta must find open.                                       *)
Required(ev) == IF ev.type = "json" THEN "tool_use" ELSE ev.type

(* Whether encode(ev) does not throw.                                      *)
Legal(c, ev) ==
  /\ ~c.stopped
  /\ CASE ev.type = "message_start" -> ~c.started
       [] ev.type \in {"block_start", "message_delta", "message_stop"} ->
            c.started /\ c.open = "none"
       [] ev.type = "block_stop" -> c.open # "none"
       [] OTHER -> c.started /\ c.open = Required(ev)

Encoded(c, ev) ==
  CASE ev.type = "message_start" -> [c EXCEPT !.started = TRUE]
    [] ev.type = "block_start" ->
         [c EXCEPT !.open = ev.kind, !.next = @ + 1]
    [] ev.type = "block_stop" -> [c EXCEPT !.open = "none"]
    [] ev.type = "message_stop" -> [c EXCEPT !.stopped = TRUE]
    [] OTHER -> c

(* The record the client gets.                                             *)
Record(c, ev) ==
  CASE ev.type = "message_start" -> [name |-> "open"]
    [] ev.type = "block_start" ->
         [name |-> "part", index |-> c.next, kind |-> ev.kind,
          call |-> ev.call]
    [] ev.type = "block_stop" -> [name |-> "stop", index |-> c.next - 1]
    [] ev.type = "message_delta" -> [name |-> "closing"]
    [] ev.type = "message_stop" -> [name |-> "end"]
    [] OTHER -> [name |-> "delta", index |-> c.next - 1,
                 kind |-> Required(ev),
                 of |-> IF ev.type = "json" THEN ev.of ELSE NoIndex]
=============================================================================
