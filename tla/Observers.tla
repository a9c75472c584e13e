------------------------------- MODULE Observers -------------------------------
(***************************************************************************)
(* What the gateway's own observers make of its requests: the content      *)
(* buffer and history log, sessions, agents, traces, routing log and mesh  *)
(* episodes (src/ops/trackers, src/ops/mesh), the anomaly alerts, and the  *)
(* dashboard that reads them.                                              *)
(*                                                                         *)
(* A request's event is handed to the sinks at once, or, while their       *)
(* workers are at an await, waits in a queue (module EventSinks): all the  *)
(* sinks here are synchronous, so their workers pass through one burst of  *)
(* microtasks together and one queue stands for all of them.               *)
(*                                                                         *)
(* Every sink writes its own file or table, one after the other, and the   *)
(* failure of one is its own.  An event is therefore handled with the set   *)
(* of the sinks that do not store it: any set may fail, and a kill in the   *)
(* middle of a burst is the set of the sinks whose turn had not come,       *)
(* followed by Restart.  "torn" stands for agents.json left half written.   *)
(*                                                                         *)
(* mem is lost with the process, disk is not.  ghost is history: of one    *)
(* process the contents recorded, events handled and alerts not stored, of *)
(* all of them the events told to the sinks.                               *)
(***************************************************************************)
EXTENDS ContentLog, Anomalies, FiniteSets, FiniteSetsExt, Functions

CONSTANTS
  Scenarios,        \* configurations a process may be started with
  Attr,             \* request -> [stream, session, agent, model, tokens, cost, hops]
  Faults,           \* request -> the sets of sinks that may fail on its events
  MaxTime, MaxBoots \* bounds: clock, processes

VARIABLES config, now, boot, flow, mem, disk, ghost
vars == <<config, now, boot, flow, mem, disk, ghost>>

(* The sinks in the order they are registered, which is the order of their *)
(* writes; "torn" is the second half of the agents sink's.                 *)
Sinks == {"history", "agents", "torn", "sessions", "traces", "routing", "alerts", "mesh"}

ASSUME ObserversAssumption ==
  \A r \in DOMAIN Attr : /\ r # NoContent /\ Attr[r].tokens \in Nat
                         /\ Faults[r] \subseteq SUBSET Sinks

Requests == DOMAIN Attr
Empty == [k \in {} |-> {}]

(* A request: where it is, when it started and when its attempt completed. *)
NoFlow == [pc |-> "new", started |-> 0, completed |-> 0, success |-> FALSE,
           superseded |-> 0]

NewMem == [buffer |-> <<>>, queue |-> <<>>, busy |-> FALSE, samples |-> <<>>,
           dedup |-> Empty]

NewDisk == [history |-> <<>>, sessions |-> Empty, agents |-> Empty,
            traces |-> <<>>, routing |-> <<>>, episodes |-> <<>>, alerts |-> <<>>]

(* told: every event, with the sinks that did not store it; since: those   *)
(* of them since agents.json was last torn.                                *)
NewGhost == [captured |-> <<>>, handled |-> <<>>, failed |-> <<>>,
             told |-> <<>>, since |-> <<>>]

------------------------------------------------------------------------------
(* The sinks: what the event of request r (f is its flow) does to the disk *)

WithRow(table, key, row) ==
  [k \in DOMAIN table \cup {key} |-> IF k = key THEN row ELSE table[k]]

(* Mutant: the row is written anew for each event.                         *)
SessionUpsertAs(sessions, r, f) ==
  IF Attr[r].session = "none" THEN sessions
  ELSE WithRow(sessions, Attr[r].session,
               [first |-> f.completed, last |-> f.completed, count |-> 1,
                tokens |-> Attr[r].tokens])

SessionUpsert(sessions, r, f) ==
  LET s == Attr[r].session
      row == IF s \in DOMAIN sessions
             THEN [sessions[s] EXCEPT !.last = f.completed, !.count = @ + 1,
                                      !.tokens = @ + Attr[r].tokens]
             ELSE [first |-> f.completed, last |-> f.completed, count |-> 1,
                   tokens |-> Attr[r].tokens]
  IN  IF s = "none" THEN sessions ELSE WithRow(sessions, s, row)

AgentUpsert(agents, r, f) ==
  LET a == Attr[r].agent
      known == IF a \in DOMAIN agents THEN agents[a]
               ELSE [first |-> f.started, last |-> f.completed, count |-> 0, models |-> {}]
  IN  IF a = "none" THEN agents
      ELSE WithRow(agents, a, [known EXCEPT !.last = f.completed, !.count = @ + 1,
                                            !.models = @ \cup {Attr[r].model}])

(* writeFileSync empties agents.json before it fills it: cut off between   *)
(* the two, the file does not parse, and read() takes it for an empty one. *)
Tears(r, lost) == "torn" \in lost /\ Attr[r].agent # "none"

AgentsFile(agents, r, f, lost) ==
  IF Tears(r, lost) THEN Empty
  ELSE IF "agents" \in lost THEN agents ELSE AgentUpsert(agents, r, f)

Pattern(r) == <<Attr[r].model, Attr[r].tokens>>
Sample(r) == [at |-> now, cost |-> Attr[r].cost, pattern |-> Pattern(r)]

Event(r, at, final, lost) == [id |-> r, at |-> at, final |-> final, lost |-> lost]
RoutingRecord(e) == [id |-> e.id, at |-> e.at, final |-> e.final]

Told(ghosts, e, torn) ==
  [ghosts EXCEPT !.told = Append(@, e), !.since = IF torn THEN <<>> ELSE Append(@, e)]

(* The sinks that do not store an event: those that fail, and the mesh     *)
(* when it is off.                                                         *)
Lost(lost) == lost \cup (IF config.mesh THEN {} ELSE {"mesh"})

(* Every sink's onLogicalRequestFinal, but for those that lost the event.  *)
Handled(w, r, f, failing) ==
  LET m == w.mem
      d == w.disk
      lost == Lost(failing)
      e == Event(r, f.completed, TRUE, lost)
      content == IF config.logging THEN ContentOf(m.buffer, r) ELSE NoContent
      samples == IF config.alerting THEN Sampled(m.samples, Sample(r)) ELSE m.samples
      types == IF config.alerting THEN Analyze(samples, Sample(r)) ELSE <<>>
      fired == Fired(m.dedup, d.alerts, types, now, boot, "alerts" \in lost)
      told == Told(w.ghost, e, Tears(r, lost))
  IN  [mem |-> [m EXCEPT !.buffer = IF config.logging THEN Taken(@, r) ELSE @,
                         !.samples = samples, !.dedup = fired.dedup],
       disk |-> [d EXCEPT
                   !.history = IF "history" \in lost THEN @
                               ELSE Append(@, Entry(r, f.completed, f.success, content)),
                   !.agents = AgentsFile(@, r, f, lost),
                   !.sessions = IF "sessions" \in lost THEN @ ELSE SessionUpsert(@, r, f),
                   !.routing = IF "routing" \in lost THEN @ ELSE Append(@, RoutingRecord(e)),
                   !.alerts = fired.alerts,
                   !.episodes = IF "mesh" \in lost THEN @ ELSE Append(@, r)],
       ghost |-> [told EXCEPT
                    !.handled = Append(@, [id |-> r, at |-> now, boot |-> boot]),
                    !.failed = IF fired.thrown # "none"
                               THEN Append(@, [id |-> r, type |-> fired.thrown, at |-> now])
                               ELSE @]]

World == [mem |-> mem, disk |-> disk, ghost |-> ghost]

SetWorld(w) == mem' = w.mem /\ disk' = w.disk /\ ghost' = w.ghost

(* captureContent: before the event, and only while logging is on.         *)
Captured(w, r) ==
  IF ~ config.logging THEN w
  ELSE [w EXCEPT !.mem.buffer = Recorded(@, r),
                 !.ghost.captured = Append(@, r)]

(* emit: an idle worker runs the handlers at once.                         *)
Emitted(w, r, f, failing) ==
  IF w.mem.busy THEN [w EXCEPT !.mem.queue = Append(@, r)]
  ELSE Handled([w EXCEPT !.mem.busy = TRUE], r, f, failing)

------------------------------------------------------------------------------
Begin(r) ==
  /\ flow[r].pc = "new"
  /\ flow' = [flow EXCEPT ![r] = [@ EXCEPT !.pc = "open", !.started = now]]
  /\ UNCHANGED <<config, now, boot, mem, disk, ghost>>

(* A superseded attempt: its event, dated before the backoff, reaches      *)
(* traces and routing log alone.                                           *)
Supersede(r) ==
  /\ flow[r].pc = "open" /\ flow[r].superseded < Attr[r].hops /\ ~ mem.busy
  /\ flow' = [flow EXCEPT ![r].superseded = @ + 1]
  /\ \E at \in flow[r].started..now, failing \in Faults[r] :
       LET e == Event(r, at, FALSE, failing \cap {"traces", "routing"})
       IN  /\ disk' = [disk EXCEPT
                         !.traces = IF "traces" \in e.lost THEN @ ELSE Append(@, r),
                         !.routing = IF "routing" \in e.lost THEN @
                                     ELSE Append(@, RoutingRecord(e))]
           /\ ghost' = Told(ghost, e, FALSE)
  /\ UNCHANGED <<config, now, boot, mem>>

(* The attempt of a stream completes with its headers.                     *)
StartStream(r) ==
  /\ flow[r].pc = "open" /\ Attr[r].stream
  /\ flow' = [flow EXCEPT ![r] = [@ EXCEPT !.pc = "streaming", !.completed = now,
                                           !.success = TRUE]]
  /\ UNCHANGED <<config, now, boot, mem, disk, ghost>>

(* The stream ends: its content, if any was assembled, and its event.      *)
EndStream(r) ==
  /\ flow[r].pc = "streaming"
  /\ \E assembled \in BOOLEAN, failing \in Faults[r] :
       SetWorld(Emitted(IF assembled THEN Captured(World, r) ELSE World,
                        r, flow[r], failing))
  /\ flow' = [flow EXCEPT ![r].pc = "done"]
  /\ UNCHANGED <<config, now, boot>>

(* A whole answer, with its content; a failure or a cache hit, without.    *)
AnswerWhole(r) ==
  /\ flow[r].pc = "open" /\ ~ Attr[r].stream
  /\ \E ok \in BOOLEAN, failing \in Faults[r] :
       /\ flow' = [flow EXCEPT ![r] = [@ EXCEPT !.pc = "done", !.completed = now,
                                                !.success = ok]]
       /\ SetWorld(Emitted(IF ok THEN Captured(World, r) ELSE World,
                           r, flow'[r], failing))
  /\ UNCHANGED <<config, now, boot>>

(* The workers go on: the next event, or idle again.                       *)
Resume ==
  /\ mem.busy
  /\ IF mem.queue = <<>>
     THEN mem' = [mem EXCEPT !.busy = FALSE] /\ UNCHANGED <<disk, ghost>>
     ELSE LET r == Head(mem.queue)
          IN  \E failing \in Faults[r] :
                SetWorld(Handled([World EXCEPT !.mem.queue = Tail(@)], r, flow[r], failing))
  /\ UNCHANGED <<config, now, boot, flow>>

(* The process ends between two steps, with whatever it had under way (and *)
(* in the middle of a burst after a step whose last sinks lost the event), *)
(* and the next start prunes the history and opens the alerts.             *)
Restart ==
  /\ boot < MaxBoots
  /\ boot' = boot + 1
  /\ config' \in Scenarios
  /\ flow' = [r \in Requests |->
                IF flow[r].pc \in {"open", "streaming"} THEN [flow[r] EXCEPT !.pc = "lost"]
                ELSE flow[r]]
  /\ mem' = NewMem
  /\ ghost' = [NewGhost EXCEPT !.told = ghost.told, !.since = ghost.since]
  /\ disk' = [disk EXCEPT !.history = Pruned(@, now),
                          !.alerts = IF config'.alerting THEN Unexpired(@, now) ELSE @]
  /\ UNCHANGED now

(* The clock moves when the burst is over: bursts take no time.            *)
Tick ==
  /\ now < MaxTime /\ ~ mem.busy
  /\ now' = now + 1
  /\ UNCHANGED <<config, boot, flow, mem, disk, ghost>>

Init ==
  /\ config \in Scenarios
  /\ now = 0 /\ boot = 1
  /\ flow = [r \in Requests |-> NoFlow]
  /\ mem = NewMem /\ disk = NewDisk /\ ghost = NewGhost

Next ==
  \/ \E r \in Requests :
       Begin(r) \/ Supersede(r) \/ StartStream(r) \/ EndStream(r) \/ AnswerWhole(r)
  \/ Resume \/ Restart \/ Tick

Spec == Init /\ [][Next]_vars
------------------------------------------------------------------------------
HandledIds == {ghost.handled[i].id : i \in DOMAIN ghost.handled}
TokensOf(rows) == Total([i \in DOMAIN rows |-> Attr[rows[i].id].tokens])

(* The events about the requests ids that a sink stored.                   *)
Took(sink, ids, final) ==
  [id : ids, at : Nat, final : {final}, lost : SUBSET (Sinks \ {sink})]
OfSession(s) == {r \in Requests : Attr[r].session = s}
OfAgent(a) == {r \in Requests : Attr[r].agent = a}

Finals(told) == Keep(told, [id : Requests, at : Nat, final : {TRUE}, lost : SUBSET Sinks])
IdsOf(events) == [i \in DOMAIN events |-> events[i].id]

(* captureContent runs before the event, and the history sink takes the    *)
(* content when the event gets to it: the buffer holds nothing but what a  *)
(* waiting event will take, an entry of this process has its own request's *)
(* content and misses it only when MaxEntries later ones have pushed it    *)
(* out, and no view shows contents once logging is off.                    *)
ContentFollowsItsRequest ==
  LET captured == ghost.captured
  IN  /\ Range(mem.buffer) \subseteq Range(mem.queue) /\ Len(mem.buffer) <= MaxEntries
      /\ \A e \in Range(disk.history) :
           /\ e.content # NoContent => e.content = e.id /\ e.success
           /\ \A i \in DOMAIN captured :
                captured[i] = e.id /\ e.content = NoContent
                  => Len(captured) - i >= MaxEntries
      /\ LET shown == ListRuns(disk.history, config.logging, MaxEntries)
         IN  \A i \in DOMAIN shown :
               /\ shown[i].content # NoContent => config.logging
               /\ GetRun(disk.history, shown[i].id, config.logging, MaxEntries)
                    = <<shown[i]>>

(* pruneHistory goes by the place in the file, which is the order of the   *)
(* events' ends, while its window goes by the completion time, which a     *)
(* stream has much earlier: a prune drops no younger entry in favour of an *)
(* older one, unless that is a stream's.                                   *)
PruneKeepsNewest ==
  [][boot' # boot =>
       LET kept == Range(disk'.history)
       IN  /\ kept \subseteq Range(disk.history) /\ Cardinality(kept) <= MaxEntries
           /\ \A e \in kept : e.at >= now - Retention
           /\ \A d \in Range(disk.history) \ kept :
                d.at >= now - Retention
                  => /\ Cardinality(kept) = MaxEntries
                     /\ \A k \in kept : d.at <= k.at \/ Attr[k.id].stream]_vars

(* The alert manager marks a type before it stores the alert: alerts of    *)
(* one type are a cooldown apart, and yet a loop of requests that is all   *)
(* in the detector's buffer is told within the cooldown, unless the store  *)
(* failed or newer alerts pushed it out of the history.                    *)
AlertsApart(alerts) ==
  /\ Len(alerts) <= MaxHistory
  /\ \A i, j \in {k \in DOMAIN alerts : alerts[k].boot = boot} :
       i < j /\ alerts[i].type = alerts[j].type
         => alerts[j].at - alerts[i].at >= Cooldown

(* The events among the last BufferSize that are alike the last one.       *)
Alike(handled) ==
  LET last == handled[Len(handled)]
      seen == Newest(handled, BufferSize)
  IN  Keep(seen, {h \in ToSet(seen) : /\ h.at >= last.at - Window
                                      /\ Pattern(h.id) = Pattern(last.id)})

Fresh(at) == at = now \/ at > now - Cooldown

ToldOf(alerts, failed, last) ==
  \/ \E i \in DOMAIN alerts : /\ alerts[i].type = "repetition" /\ alerts[i].boot = boot
                              /\ Fresh(alerts[i].at)
  \/ \E i \in DOMAIN failed : \/ failed[i].id = last.id
                              \/ failed[i].type = "repetition" /\ Fresh(failed[i].at)
  \/ Len(alerts) = MaxHistory /\ \A i \in DOMAIN alerts : Fresh(alerts[i].at)

LoopIsTold ==
  LET handled == ghost.handled
      last    == handled[Len(handled)]
      loops   == last.at = now /\ Len(Alike(handled)) >= Repetition
  IN  /\ AlertsApart(disk.alerts)
      /\ config.alerting /\ handled # <<>> /\ loops
           => ToldOf(disk.alerts, ghost.failed, last)

(* A session's row adds up to the events that reached its table, and its   *)
(* last_seen is behind one of them only when the last was a stream's.      *)
SessionAgrees(s) ==
  LET rows == Keep(ghost.told, Took("sessions", OfSession(s), TRUE))
  IN  IF rows = <<>> THEN s \notin DOMAIN disk.sessions
      ELSE /\ s \in DOMAIN disk.sessions
           /\ disk.sessions[s] = [first |-> rows[1].at, last |-> Last(rows).at,
                                  count |-> Len(rows), tokens |-> TokensOf(rows)]
           /\ \A i \in DOMAIN rows :
                rows[i].at <= disk.sessions[s].last \/ Attr[Last(rows).id].stream

AgentAgrees(a) ==
  LET rows == Keep(ghost.since, Took("agents", OfAgent(a), TRUE))
  IN  IF rows = <<>> THEN a \notin DOMAIN disk.agents
      ELSE a \in DOMAIN disk.agents /\ disk.agents[a].count = Len(rows)

(* Every event is told to the sinks once, unless its process ended first,  *)
(* and each book has what its own sink stored and nothing else, across     *)
(* processes and whatever the other sinks lost: the rows of sessions, the  *)
(* agents since their file was last torn, one line of the routing log for  *)
(* each attempt, a trace for each superseded one, an episode for each      *)
(* request.                                                                *)
BooksAgree ==
  LET told    == ghost.told
      finals  == Finals(told)
      ids     == Range(IdsOf(finals))
      lines   == Keep(told, [id : Requests, at : Nat, final : BOOLEAN,
                             lost : SUBSET (Sinks \ {"routing"})])
      sessions == {Attr[r].session : r \in Requests} \ {"none"}
      agents   == {Attr[r].agent : r \in Requests} \ {"none"}
  IN  /\ Cardinality(ids) = Len(finals)
      /\ HandledIds \subseteq ids /\ ids \cap Range(mem.queue) = {}
      /\ \A r \in Requests :
           flow[r].pc = "done" => r \in ids \cup Range(mem.queue) \/ boot > 1
      /\ mem.busy \/ mem.queue = <<>>
      /\ \A i \in DOMAIN finals : finals[i].at = flow[finals[i].id].completed
      /\ disk.routing = [i \in DOMAIN lines |-> RoutingRecord(lines[i])]
      /\ disk.traces = IdsOf(Keep(told, Took("traces", Requests, FALSE)))
      /\ disk.episodes = IdsOf(Keep(told, Took("mesh", Requests, TRUE)))
      /\ DOMAIN disk.sessions \subseteq sessions /\ \A s \in sessions : SessionAgrees(s)
      /\ DOMAIN disk.agents \subseteq agents /\ \A a \in agents : AgentAgrees(a)
===============================================================================
