-------------------------- MODULE ResponsesStream ---------------------------
(***************************************************************************)
(* A chat upstream served as a Responses stream: the translator            *)
(* (src/protocols/openai-responses/stream-translate.ts) and the encoder    *)
(* (stream-encoder.ts), which also rebuilds every output item for its      *)
(* `done` record and for the snapshot in the terminal event.  The content  *)
(* of an item is the sequence of the calls its fragments came from         *)
(* (NoIndex for text).                                                     *)
(***************************************************************************)
EXTENDS Integers, Sequences

NoIndex == -1

(* ChatToResponsesTranslator                                               *)
Translator == [started |-> FALSE, finished |-> FALSE, open |-> "none",
               usage |-> {}, reason |-> "none"]

Opening(t) ==
  IF t.started THEN <<>> ELSE <<[type |-> "response_created"]>>

Closing(t) ==
  IF t.open = "none" THEN <<>> ELSE <<[type |-> "output_item_stop"]>>

Starting(kind, call) ==
  <<[type |-> "output_item_start", kind |-> kind, call |-> call]>>

(* openMessage                                                             *)
Switching(t) ==
  IF t.open = "message" THEN <<>>
  ELSE Closing(t) \o Starting("message", NoIndex)

Status(reason) ==
  IF reason \in {"length", "content_filter"} THEN "incomplete"
  ELSE "completed"

Terminal(t, status) ==
  Opening(t) \o Closing(t)
    \o <<[type |-> "response_done", status |-> status]>>

(* The events push returns, and what it makes of the translator.  A        *)
(* fragment goes to the open call, whatever index it carries.              *)
Implied(t, e) ==
  IF t.finished THEN <<>>
  ELSE CASE e.type = "start" -> Opening(t)
         [] e.type = "text_delta" ->
              Opening(t) \o Switching(t) \o <<[type |-> "output_text"]>>
         [] e.type = "tool_call_start" ->
              Opening(t) \o Closing(t) \o Starting("function_call", e.index)
         [] e.type = "tool_args_delta" /\ t.open = "function_call" ->
              <<[type |-> "function_arguments", of |-> e.index]>>
         [] e.type = "done" -> Terminal(t, Status(t.reason))
         [] OTHER -> <<>>

Finished(t) ==
  [t EXCEPT !.started = TRUE, !.finished = TRUE, !.open = "none"]

Pushed(t, e) ==
  IF t.finished THEN t
  ELSE CASE e.type = "start" -> [t EXCEPT !.started = TRUE]
         [] e.type = "text_delta" ->
              [t EXCEPT !.started = TRUE, !.open = "message"]
         [] e.type = "tool_call_start" ->
              [t EXCEPT !.started = TRUE, !.open = "function_call"]
         [] e.type = "finish" -> [t EXCEPT !.reason = e.reason]
         [] e.type = "usage" -> [t EXCEPT !.usage = {"input", "output"}]
         [] e.type = "done" -> Finished(t)
         [] OTHER -> t

(* What end() returns: without a finish reason the response is incomplete. *)
Ending(t) ==
  IF t.finished THEN <<>>
  ELSE Terminal(t, IF t.reason = "none" THEN "incomplete"
                   ELSE Status(t.reason))

Ended(t) == IF t.finished THEN t ELSE Finished(t)

-----------------------------------------------------------------------------

(* ResponsesSseEncoder.  `got` is the content of the open item.            *)
Encoder == [created |-> FALSE, done |-> FALSE, open |-> "none", call |-> NoIndex,
            got |-> <<>>, next |-> 0, items |-> <<>>]

Required(ev) ==
  IF ev.type = "output_text" THEN "message" ELSE "function_call"

Fragment(ev) == IF ev.type = "output_text" THEN NoIndex ELSE ev.of

(* Whether encode(ev) does not throw.                                      *)
Legal(c, ev) ==
  /\ ~c.done
  /\ CASE ev.type = "response_created" -> ~c.created
       [] ev.type \in {"output_item_start", "response_done"} ->
            c.created /\ c.open = "none"
       [] ev.type = "output_item_stop" -> c.open # "none"
       [] OTHER -> c.created /\ c.open = Required(ev)

(* The item an output_item_stop completes.                                 *)
Item(c) == [kind |-> c.open, call |-> c.call, got |-> c.got]

Encoded(c, ev) ==
  CASE ev.type = "response_created" -> [c EXCEPT !.created = TRUE]
    [] ev.type = "output_item_start" ->
         [c EXCEPT !.open = ev.kind, !.call = ev.call, !.got = <<>>,
                   !.next = @ + 1]
    [] ev.type = "output_item_stop" ->
         [c EXCEPT !.open = "none", !.items = Append(@, Item(c))]
    [] ev.type = "response_done" -> [c EXCEPT !.done = TRUE]
    [] OTHER -> [c EXCEPT !.got = Append(@, Fragment(ev))]

(* The records of one event, as one: response.created stands for it and    *)
(* response.in_progress, an item's `added` and `done` for those of its     *)
(* content part too.                                                       *)
Record(c, ev) ==
  CASE ev.type = "response_created" -> [name |-> "open"]
    [] ev.type = "output_item_start" ->
         [name |-> "part", index |-> c.next, kind |-> ev.kind,
          call |-> ev.call]
    [] ev.type = "output_item_stop" ->
         [name |-> "stop", index |-> c.next - 1, item |-> Item(c)]
    [] ev.type = "response_done" ->
         [name |-> "end", status |-> ev.status, output |-> c.items]
    [] OTHER -> [name |-> "delta", index |-> c.next - 1,
                 kind |-> Required(ev), of |-> Fragment(ev)]
=============================================================================
