--------------------------- MODULE StreamPipeline ---------------------------
(***************************************************************************)
(* One streamed response: the pipelines of src/gateway/stream-pipeline.ts  *)
(* (upstream frames are decoded, translated, encoded; usage and content    *)
(* are collected for onComplete), and writeResponse of                     *)
(* src/gateway/server.ts, which writes their records to the client's       *)
(* socket.                                                                 *)
(*                                                                         *)
(* The code runs on one thread and gives up control in two places only:    *)
(* where the transport reads the upstream body (pc = "reading") and where  *)
(* writeResponse waits for the socket to drain (pc = "draining").  Only    *)
(* there can the client disconnect.  While pc = "running" the generators   *)
(* and the writer take turns: a canonical event is encoded when the writer *)
(* asks for it, so `pending` holds events that are not encoded yet.        *)
(*                                                                         *)
(* A verbatim stream has no translator: its chunks are observed and passed *)
(* on.  A chunk is taken for the frames it completes.                      *)
(***************************************************************************)
EXTENDS Integers, Sequences, SequencesExt, Filters

CONSTANTS
  Surfaces,     \* the client surfaces to serve: a subset of AllSurfaces
  Frames,       \* what an upstream of a protocol may send: protocol -> set
  MaxFrames,    \* bound: frames of one stream
  MaxCaptured   \* MAX_CAPTURED_TEXT, in deltas

Translated == {"messages", "responses", "chat"}

AllSurfaces ==
  Translated \cup {"verbatim_chat", "verbatim_anthropic", "verbatim_responses"}

Protocols == {"openai_chat", "anthropic", "openai_responses"}

VARIABLES
  surface,      \* the client surface, and whether it is served verbatim
  pc,           \* "reading", "running", "draining" or "over"
  tr,           \* the translator, or the observer of a verbatim stream
  enc,          \* the encoder
  captured,     \* the ResponseAccumulator
  todo,         \* decoded events of the current frame, not yet translated
  pending,      \* canonical events or chunks, not yet written
  eof,          \* the upstream body has ended
  connected,    \* the client is there
  completions,  \* what onComplete was called with
  outcome,      \* how the stream ended
  frames,       \* the frames read so far
  view          \* the client's reading of what it was sent

vars == <<surface, pc, tr, enc, captured, todo, pending, eof, connected,
          completions, outcome, frames, view>>

Upstream == INSTANCE UpstreamEvents
Messages == INSTANCE AnthropicStream
Responses == INSTANCE ResponsesStream
Chat == INSTANCE ChatStream
Client == INSTANCE ClientTranscript

(* The record [DONE] is not JSON: a frame that has it carries nothing else. *)
ASSUME StreamAssumption ==
  /\ Surfaces \subseteq AllSurfaces
  /\ DOMAIN Frames = Protocols
  /\ Frames["openai_chat"] \subseteq Upstream!ChatFrames
  /\ \A f \in Frames["openai_chat"] : f.done => f = Upstream!Done
  /\ Frames["anthropic"] \subseteq Upstream!AnthropicFrames
  /\ Frames["openai_responses"] \subseteq Upstream!ResponsesFrames
  /\ MaxFrames \in Nat
  /\ MaxCaptured \in Nat \ {0}

-----------------------------------------------------------------------------

(* The pipeline of a surface.                                              *)
Verbatim(s) == s \notin Translated

Protocol(s) ==
  CASE s \in {"messages", "responses", "verbatim_chat"} -> "openai_chat"
    [] s \in {"chat", "verbatim_anthropic"} -> "anthropic"
    [] s = "verbatim_responses" -> "openai_responses"

Decode(s, f) ==
  CASE Protocol(s) = "openai_chat" -> Upstream!DecodeChat(f)
    [] Protocol(s) = "anthropic" -> Upstream!DecodeAnthropic(f)
    [] Protocol(s) = "openai_responses" -> Upstream!DecodeResponses(f)

NewTranslator(s) ==
  CASE s = "messages" -> Messages!Translator
    [] s = "responses" -> Responses!Translator
    [] s = "chat" -> Chat!Translator
    [] Verbatim(s) -> [finished |-> FALSE, usage |-> {}]

NewEncoder(s) ==
  CASE s = "messages" -> Messages!Encoder
    [] s = "responses" -> Responses!Encoder
    [] s = "chat" -> Chat!Encoder
    [] Verbatim(s) -> <<>>

Implied(e) ==
  CASE surface = "messages" -> Messages!Implied(tr, e)
    [] surface = "responses" -> Responses!Implied(tr, e)
    [] surface = "chat" -> Chat!Implied(tr, e)

Pushed(e) ==
  CASE surface = "messages" -> Messages!Pushed(tr, e)
    [] surface = "responses" -> Responses!Pushed(tr, e)
    [] surface = "chat" -> Chat!Pushed(tr, e)

Ending ==
  CASE surface = "messages" -> Messages!Ending(tr)
    [] surface = "responses" -> Responses!Ending(tr)
    [] surface = "chat" -> Chat!Ending(tr)
    [] Verbatim(surface) -> <<>>

Ended ==
  CASE surface = "messages" -> Messages!Ended(tr)
    [] surface = "responses" -> Responses!Ended(tr)
    [] surface = "chat" -> Chat!Ended(tr)
    [] Verbatim(surface) -> [tr EXCEPT !.finished = TRUE]

Legal(ev) ==
  CASE surface = "messages" -> Messages!Legal(enc, ev)
    [] surface = "responses" -> Responses!Legal(enc, ev)
    [] surface = "chat" -> Chat!Legal(enc, ev)
    [] Verbatim(surface) -> TRUE

Encoded(ev) ==
  CASE surface = "messages" -> Messages!Encoded(enc, ev)
    [] surface = "responses" -> Responses!Encoded(enc, ev)
    [] surface = "chat" -> Chat!Encoded(enc, ev)
    [] Verbatim(surface) -> enc

(* The client of a verbatim stream reads the upstream's own protocol: its  *)
(* view is no more than what the gateway's capture is compared with.       *)
SeenVerbatim(v, chunk) ==
  [v EXCEPT !.text = @ \/ chunk.text > 0,
            !.parts = @ \o chunk.calls]

Shown(ev) ==
  CASE surface = "messages" ->
         Client!Seen(view, surface, Messages!Record(enc, ev))
    [] surface = "responses" ->
         Client!Seen(view, surface, Responses!Record(enc, ev))
    [] surface = "chat" -> Client!Seen(view, surface, Chat!Record(enc, ev))
    [] Verbatim(surface) -> SeenVerbatim(view, ev)

-----------------------------------------------------------------------------

(* ResponseAccumulator: text in deltas, capped, and the tool calls with    *)
(* the fragments they got, each capped too.                                *)
NewAccumulator == [text |-> 0, truncated |-> FALSE, calls |-> <<>>]

AddText(a) ==
  IF a.text < MaxCaptured THEN [a EXCEPT !.text = @ + 1]
  ELSE [a EXCEPT !.truncated = TRUE]

StartToolCall(a, call) ==
  [a EXCEPT !.calls = Append(@, [kind |-> "tool_use", call |-> call,
                                 got |-> <<>>])]

(* A fragment goes to the call that was opened last.                       *)
AddToolArgs(a, of) ==
  IF a.calls = <<>> \/ Len(Last(a.calls).got) >= MaxCaptured THEN a
  ELSE [a EXCEPT !.calls[Len(a.calls)].got = Append(@, of)]

(* accumulateChat, accumulateAnthropic, and the text that is read off a    *)
(* Responses frame.                                                        *)
Accumulated(a, e) ==
  CASE e.type \in {"text_delta", "output_text_delta"} -> AddText(a)
    [] e.type = "tool_call_start"
         \/ (e.type = "block_start" /\ e.kind = "tool_use") ->
         StartToolCall(a, e.index)
    [] e.type \in {"tool_args_delta", "json_delta"} -> AddToolArgs(a, e.index)
    [] OTHER -> a

AccumulatedAll(a, events) ==
  LET acc[n \in 0..Len(events)] ==
        IF n = 0 THEN a ELSE Accumulated(acc[n - 1], events[n])
  IN  acc[Len(events)]

UsageOf(events) == UNION {Upstream!UsageIn(events[k]) : k \in DOMAIN events}

(* What the usage of a completion becomes for emitOnStreamEnd: chatUsage   *)
(* is an object even when the upstream has stated nothing, so a chat       *)
(* stream always counts as reported, with zeros.                           *)
Reported == surface = "chat" \/ tr.usage # {}

(* The `finally` of a pipeline, with emitOnStreamEnd.                      *)
Completion == [usage |-> tr.usage, reported |-> Reported, content |-> captured]

Complete == completions' = Append(completions, Completion)

-----------------------------------------------------------------------------

(* writeResponse has flushed the headers and asked for the first record.   *)
Init ==
  /\ surface \in Surfaces
  /\ pc = "reading"
  /\ tr = NewTranslator(surface)
  /\ enc = NewEncoder(surface)
  /\ captured = NewAccumulator
  /\ todo = <<>>
  /\ pending = <<>>
  /\ eof = FALSE
  /\ connected = TRUE
  /\ completions = <<>>
  /\ outcome = "none"
  /\ frames = <<>>
  /\ view = Client!NewView

(* A frame of a translated stream is decoded; that of a verbatim stream is *)
(* observed, and its chunk yielded.                                        *)
Receive(f, chunks) ==
  LET events == Decode(surface, f) IN
  /\ frames' = Append(frames, f)
  /\ IF Verbatim(surface)
     THEN /\ captured' = AccumulatedAll(captured, events)
          /\ tr' = [tr EXCEPT !.usage = @ \cup UsageOf(events)]
          /\ pending' = IF chunks
                        THEN <<AccumulatedAll(NewAccumulator, events)>>
                        ELSE <<>>
          /\ UNCHANGED todo
     ELSE todo' = events /\ UNCHANGED <<captured, tr, pending>>

(* The upstream body yields a frame.  When the client has gone, the fetch  *)
(* is aborted: the body yields no more.                                    *)
Read(f) ==
  /\ pc = "reading" /\ connected
  /\ Len(frames) < MaxFrames
  /\ Receive(f, TRUE)
  /\ pc' = "running"
  /\ UNCHANGED <<surface, enc, eof, connected, completions, outcome, view>>

(* The body ends.  The splitter's flush may release a last frame that was  *)
(* not terminated by a blank line; a verbatim stream only observes it.     *)
ReadEnds ==
  /\ pc = "reading" /\ connected
  /\ eof' = TRUE
  /\ pc' = "running"
  /\ \/ /\ Len(frames) < MaxFrames
        /\ \E f \in Frames[Protocol(surface)] : Receive(f, FALSE)
     \/ UNCHANGED <<frames, captured, tr, pending, todo>>
  /\ UNCHANGED <<surface, enc, connected, completions, outcome, view>>

(* The body breaks: the connection to the upstream drops, or the fetch was *)
(* aborted.  The exception leaves through the pipeline's `finally`, and    *)
(* writeResponse catches it and ends the response.                         *)
ReadFails ==
  /\ pc = "reading"
  /\ Complete
  /\ outcome' = "broken"
  /\ pc' = "over"
  /\ UNCHANGED <<surface, tr, enc, captured, todo, pending, eof, connected,
                 frames, view>>

(* The generator takes the next event of the frame: the accumulator sees   *)
(* it before the translator does.                                          *)
Translate ==
  /\ pc = "running"
  /\ ~tr.finished
  /\ pending = <<>> /\ todo # <<>>
  /\ captured' = Accumulated(captured, Head(todo))
  /\ pending' = Implied(Head(todo))
  /\ tr' = Pushed(Head(todo))
  /\ todo' = Tail(todo)
  /\ UNCHANGED <<surface, pc, enc, eof, connected, completions, outcome,
                 frames, view>>

(* The frame is done: the generator asks the body for the next one.        *)
AskUpstream ==
  /\ pc = "running"
  /\ ~tr.finished /\ ~eof
  /\ pending = <<>> /\ todo = <<>>
  /\ pc' = "reading"
  /\ UNCHANGED <<surface, tr, enc, captured, todo, pending, eof, connected,
                 completions, outcome, frames, view>>

(* The body has ended without a terminator: end() supplies it.             *)
CloseOff ==
  /\ pc = "running"
  /\ ~tr.finished /\ eof
  /\ pending = <<>> /\ todo = <<>>
  /\ pending' = Ending
  /\ tr' = Ended
  /\ UNCHANGED <<surface, pc, enc, captured, todo, eof, connected,
                 completions, outcome, frames, view>>

(* The generator returns: on the terminator, which leaves the rest of the  *)
(* frame and of the body unread, or after end().                           *)
Return ==
  /\ pc = "running"
  /\ tr.finished /\ pending = <<>>
  /\ Complete
  /\ outcome' = "ended"
  /\ pc' = "over"
  /\ UNCHANGED <<surface, tr, enc, captured, todo, pending, eof, connected,
                 frames, view>>

(* The writer asks for the next record.  The encoder throws on an event    *)
(* that is out of order; the exception goes the way of ReadFails.          *)
Throw ==
  /\ Complete
  /\ outcome' = "threw"
  /\ pc' = "over"
  /\ UNCHANGED <<enc, pending, view>>

(* An event is encoded and written.  A full socket makes the writer wait.  *)
Write ==
  /\ pc = "running"
  /\ pending # <<>> /\ connected
  /\ IF Legal(Head(pending))
     THEN /\ enc' = Encoded(Head(pending))
          /\ view' = Shown(Head(pending))
          /\ pending' = Tail(pending)
          /\ pc' \in {"running", "draining"}
          /\ UNCHANGED <<completions, outcome>>
     ELSE Throw
  /\ UNCHANGED <<surface, tr, captured, todo, eof, connected, frames>>

(* The writer finds the client gone and leaves its loop, which closes the  *)
(* generator at its `yield`.                                               *)
Leave ==
  /\ pc = "running"
  /\ pending # <<>> /\ ~connected
  /\ IF Legal(Head(pending))
     THEN /\ enc' = Encoded(Head(pending))
          /\ pending' = Tail(pending)
          /\ Complete
          /\ outcome' = "left"
          /\ pc' = "over"
          /\ UNCHANGED view
     ELSE Throw
  /\ UNCHANGED <<surface, tr, captured, todo, eof, connected, frames>>

(* Mutant: drained() waits for `drain` alone.                              *)
WakesOnDrain == connected

(* drained() resolves on `drain`, which needs the client, or on `close`.   *)
Wakes == TRUE

Drained ==
  /\ pc = "draining"
  /\ Wakes
  /\ pc' = "running"
  /\ UNCHANGED <<surface, tr, enc, captured, todo, pending, eof, connected,
                 completions, outcome, frames, view>>

(* The client hangs up; the request's signal is aborted.                   *)
Disconnect ==
  /\ pc \in {"reading", "draining"}
  /\ connected
  /\ connected' = FALSE
  /\ UNCHANGED <<surface, pc, tr, enc, captured, todo, pending, eof,
                 completions, outcome, frames, view>>

UpstreamActs ==
  \/ \E f \in Frames[Protocol(surface)] : Read(f)
  \/ ReadEnds
  \/ ReadFails

Runs ==
  \/ Translate \/ AskUpstream \/ CloseOff \/ Return
  \/ Write \/ Leave

Next == UpstreamActs \/ Runs \/ Drained \/ Disconnect

Spec == Init /\ [][Next]_vars

(* The event loop runs what it can.  A body that stays silent fails in the *)
(* end (the client of fetch has a body timeout).  A client that is there   *)
(* may leave its socket full for ever; one that has gone has closed it.    *)
FairSpec ==
  /\ Spec
  /\ WF_vars(Runs)
  /\ WF_vars(UpstreamActs)
  /\ WF_vars(Drained /\ ~connected)

-----------------------------------------------------------------------------

(* What the frames of a chat upstream say: that the answer is complete,    *)
(* that it has text, and which calls it makes, in order.                   *)
SaidEnd ==
  \E k \in DOMAIN frames : frames[k].done \/ frames[k].finish # "none"

SaidText == \E k \in DOMAIN frames : frames[k].text

CallsSaid ==
  Flat([k \in DOMAIN frames |->
    Keep(frames[k].calls, {c \in ToSet(frames[k].calls) : c.named})])

(* The client of a chat upstream has been shown its text and its calls.    *)
AnswerShown ==
  LET calls == Client!ToolCalls(view) IN
  /\ view.text = SaidText
  /\ [k \in DOMAIN calls |-> calls[k].call]
       = [k \in DOMAIN CallsSaid |-> CallsSaid[k].index]

(* The encoders "throw rather than emit a malformed transcript"            *)
(* (stream-encoder.ts): whatever the upstream sends, the translators never *)
(* make them throw, the client can read every record it gets, a stream     *)
(* that ends is closed off and has shown the whole answer, a Messages      *)
(* block gets no arguments of another call, and a Responses stream that    *)
(* was cut short is not "completed".                                       *)
TranscriptWellFormed ==
  surface \in Translated =>
    /\ outcome # "threw"
    /\ view.ok
    /\ outcome = "ended" =>
         /\ view.stage = "done"
         /\ Protocol(surface) = "openai_chat" => AnswerShown
    /\ surface = "messages" => Client!Filed(view)
    /\ view.status = "completed" => SaidEnd

(* The usage stated before the current frame, and by it as well.           *)
StatedBy(n) ==
  UNION {UsageOf(Decode(surface, frames[k])) : k \in 1 .. n}

(* onComplete is "called exactly once when the stream ends -- normally,    *)
(* truncated, or abandoned": with all usage the upstream has stated in     *)
(* frames that were worked off, none it has not, and the content the       *)
(* client was shown, up to the cap.                                        *)
CompletedOnce ==
  /\ Len(completions) = (IF pc = "over" THEN 1 ELSE 0)
  /\ \A k \in DOMAIN completions :
       LET done == completions[k]
           calls == Client!ToolCalls(view)
       IN
       /\ StatedBy(Len(frames) - 1) \subseteq done.usage
       /\ done.usage \subseteq StatedBy(Len(frames))
       /\ view.text => done.content.text > 0
       /\ Len(calls) <= Len(done.content.calls)
       /\ \A c \in DOMAIN calls :
            /\ done.content.calls[c].call = calls[c].call
            /\ \/ Len(done.content.calls[c].got) = MaxCaptured
               \/ Len(calls[c].got) <= Len(done.content.calls[c].got)

(* "A fragment carrying only arguments extends the call already open at    *)
(* that index" (openai-chat/stream-decoder.ts:77-78): it is not in another *)
(* call than that, when the client has been shown that one.                *)
ArgumentsReachTheirCall ==
  \A p, q \in DOMAIN view.parts : \A k \in DOMAIN view.parts[p].got :
    view.parts[p].got[k] = view.parts[q].call
      => view.parts[p].call = view.parts[q].call

(* No stream is left hanging: unless the client is there and does not read *)
(* what it was sent, the stream ends and its completion is reported.       *)
StreamEnds == <>[](pc = "over" \/ (pc = "draining" /\ connected))
=============================================================================
