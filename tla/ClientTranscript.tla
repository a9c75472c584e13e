-------------------------- MODULE ClientTranscript --------------------------
(***************************************************************************)
(* A reference reading of the three client protocols: what a client makes  *)
(* of the records it gets, and whether it may get them in that order.  The *)
(* rules are those stated at the head of each stream-encoder.ts (src/      *)
(* protocols/anthropic:4-19, openai-responses:8-29, openai-chat:5-19), not *)
(* the guards of its code.                                                 *)
(***************************************************************************)
EXTENDS Integers, Sequences, SequencesExt, Filters

NoIndex == -1

(* `parts` are the content blocks, output items or tool calls, each with   *)
(* the fragments it got; `nested` says that the last one is open; `text`   *)
(* that the client was shown text of the answer.                           *)
NewView == [stage |-> "before", parts |-> <<>>, nested |-> FALSE,
            text |-> FALSE, status |-> "none", ok |-> TRUE]

(* Chat addresses any tool call by its index; the other protocols only     *)
(* know the part that is open.                                             *)
Addressed(v, surface, w) ==
  /\ w.index + 1 \in DOMAIN v.parts
  /\ surface = "chat" \/ (v.nested /\ w.index + 1 = Len(v.parts))

Acceptable(v, surface, w) ==
  CASE w.name = "open" -> v.stage = "before"
    [] w.name = "part" ->
         v.stage = "open" /\ ~v.nested /\ w.index = Len(v.parts)
    [] w.name = "delta" ->
         /\ v.stage = "open"
         /\ Addressed(v, surface, w)
         /\ v.parts[w.index + 1].kind = w.kind
    [] w.name = "stop" ->
         /\ v.stage = "open"
         /\ Addressed(v, surface, w)
         /\ surface = "responses" => w.item = Last(v.parts)
    [] w.name = "text" -> v.stage = "open"
    [] w.name = "closing" -> v.stage = "open" /\ ~v.nested
    [] w.name = "end" ->
         /\ v.stage = (IF surface = "messages" THEN "closing" ELSE "open")
         /\ ~v.nested
         /\ surface = "responses" => w.output = v.parts

Reading(v, surface, w) ==
  CASE w.name = "open" -> [v EXCEPT !.stage = "open"]
    [] w.name = "part" ->
         [v EXCEPT !.parts = Append(@, [kind |-> w.kind, call |-> w.call,
                                        got |-> <<>>]),
                   !.nested = surface # "chat"]
    [] w.name = "delta" ->
         [v EXCEPT !.parts[w.index + 1].got = Append(@, w.of),
                   !.text = @ \/ w.kind \in {"text", "message"}]
    [] w.name = "stop" -> [v EXCEPT !.nested = FALSE]
    [] w.name = "text" -> [v EXCEPT !.text = TRUE]
    [] w.name = "closing" -> [v EXCEPT !.stage = "closing"]
    [] w.name = "end" ->
         [v EXCEPT !.stage = "done",
                   !.status = IF surface = "responses" THEN w.status ELSE @]

(* The client's view after a record.                                       *)
Seen(v, surface, w) ==
  IF v.ok /\ Acceptable(v, surface, w) THEN Reading(v, surface, w)
  ELSE [v EXCEPT !.ok = FALSE]

(* Every fragment of arguments is in the call it was sent for.             *)
Filed(v) ==
  \A p \in DOMAIN v.parts : \A k \in DOMAIN v.parts[p].got :
    v.parts[p].got[k] \in {NoIndex, v.parts[p].call}

ToolCalls(v) ==
  Keep(v.parts, {p \in ToSet(v.parts) : p.kind \in {"tool_use", "function_call"}})
=============================================================================
