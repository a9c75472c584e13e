---------------------------- MODULE ObserversProofs ----------------------------
(***************************************************************************)
(* Theorems about the observers, for every set of requests, every bound    *)
(* and every configuration.                                                *)
(*                                                                         *)
(* The invariant is stated of the parts of a state that a theorem is about *)
(* and of a set P of requests whose events are between being emitted and   *)
(* being handled: P is empty between two steps, and has one member inside  *)
(* a step that runs the handlers (Emitted, Handled).                       *)
(***************************************************************************)
EXTENDS Observers, FiltersProofs, FiniteSetTheorems

Record == [id : Requests, at : Nat, final : BOOLEAN, lost : SUBSET Sinks]

FinalsOf(told, ids) == Keep(told, [id : ids, at : Nat, final : {TRUE}, lost : SUBSET Sinks])
TookBy(sink, told, ids) == Keep(told, Took(sink, ids, TRUE))
LoggedOf(told) == Keep(told, [id : Requests, at : Nat, final : BOOLEAN,
                              lost : SUBSET (Sinks \ {"routing"})])
LinesOf(events) == [i \in DOMAIN events |-> RoutingRecord(events[i])]

(* The requests whose events have been handled, in this process or before. *)
Gone(told) ==
  LET finals == FinalsOf(told, Requests) IN {finals[i].id : i \in DOMAIN finals}

(* The requests whose events are still to be handled.                      *)
Waiting(queue, P) == Range(queue) \cup P

FlowFields == {"pc", "started", "completed", "success", "superseded"}

FlowOk(fl, clock) ==
  /\ clock \in Nat
  /\ fl = [r \in Requests |-> fl[r]]
  /\ \A r \in Requests :
       /\ fl[r] = [x \in FlowFields |-> fl[r][x]]
       /\ fl[r].started \in Nat /\ fl[r].completed \in Nat /\ fl[r].completed <= clock
       /\ fl[r].success \in BOOLEAN
       /\ fl[r].pc = "streaming" => Attr[r].stream /\ fl[r].success

QueueOk(queue, busy, P, fl, clock) ==
  /\ queue \in Seq(Requests)
  /\ IsInjective(queue)
  /\ P \subseteq Requests /\ Range(queue) \cap P = {}
  /\ busy \/ queue = <<>>
  /\ \A r \in Waiting(queue, P) :
       fl[r].pc = "done" /\ (Attr[r].stream \/ fl[r].completed = clock)

Handling == [id : Requests, at : Nat, boot : Nat]

(* The events told and the requests they are about.                        *)
LogOk(told, handled, queue, P, fl, runs) ==
  LET finals == FinalsOf(told, Requests)
  IN  /\ told \in Seq(Record)
      /\ IsFiniteSet(Gone(told)) /\ Cardinality(Gone(told)) = Len(finals)
      /\ \A i \in DOMAIN finals : finals[i].at = fl[finals[i].id].completed
      /\ \A r \in Gone(told) : fl[r].pc = "done" /\ r \notin Waiting(queue, P)
      /\ \A r \in Requests :
           fl[r].pc = "done" => r \in Gone(told) \cup Waiting(queue, P) \/ runs > 1
      /\ \A i \in DOMAIN handled : handled[i].id \in Gone(told)
      /\ handled \in Seq(Handling)

(* An event is told at the time it bears, unless it is a stream's.         *)
TimesOk(told, clock) ==
  /\ \A i \in DOMAIN told : told[i].at <= clock
  /\ \A i, j \in DOMAIN told :
       i < j /\ told[j].final => told[i].at <= told[j].at \/ Attr[told[j].id].stream

(* The files and tables that have a line for an event.                     *)
LinesOk(told, routing, traces, episodes) ==
  /\ routing = LinesOf(LoggedOf(told))
  /\ traces = IdsOf(Keep(told, Took("traces", Requests, FALSE)))
  /\ episodes = IdsOf(TookBy("mesh", told, Requests))

(* A row of a session for the records it is made from.                     *)
SessionRow(rows) ==
  [first |-> rows[1].at, last |-> rows[Len(rows)].at, count |-> Len(rows),
   tokens |-> TokensOf(rows)]

RowOf(sessions, s, rows) ==
  IF s \in DOMAIN sessions THEN rows # <<>> /\ sessions[s] = SessionRow(rows)
  ELSE s = "none" \/ rows = <<>>

SessionsOk(told, sessions) ==
  /\ sessions = [s \in DOMAIN sessions |-> sessions[s]]
  /\ "none" \notin DOMAIN sessions
  /\ \A s : RowOf(sessions, s, TookBy("sessions", told, OfSession(s)))

AgentRow(row) ==
  row = [first |-> row.first, last |-> row.last, count |-> row.count, models |-> row.models]

AgentOf(agents, a, rows) ==
  IF a \in DOMAIN agents
  THEN rows # <<>> /\ AgentRow(agents[a]) /\ agents[a].count = Len(rows)
  ELSE a = "none" \/ rows = <<>>

AgentsOk(since, agents) ==
  /\ since \in Seq(Record)
  /\ agents = [a \in DOMAIN agents |-> agents[a]]
  /\ "none" \notin DOMAIN agents
  /\ \A a : AgentOf(agents, a, TookBy("agents", since, OfAgent(a)))

(* The content buffer, and what became of each captured content.           *)
BufferOk(buffer, captured, routing, queue, P, fl, logging) ==
  /\ captured \in Seq(Requests)
  /\ IsInjective(captured)
  /\ \A i \in DOMAIN captured :
       /\ fl[captured[i]].pc = "done"
       /\ \/ captured[i] \in Range(buffer) \cup Gone(routing)
          \/ Len(captured) - i >= MaxEntries
  /\ buffer \in Seq(Requests) /\ Len(buffer) <= MaxEntries
  /\ \A i \in DOMAIN buffer : buffer[i] \in Waiting(queue, P) /\ fl[buffer[i]].success
  /\ \A i \in DOMAIN captured, j \in DOMAIN buffer :
       captured[i] = buffer[j] => Len(buffer) - j <= Len(captured) - i
  /\ logging \/ (buffer = <<>> /\ captured = <<>>)

Line == [id : Requests, at : Nat, success : BOOLEAN, content : Requests \cup {NoContent}]

HistoryOk(history, captured, routing, clock) ==
  /\ history \in Seq(Line)
  /\ \A i \in DOMAIN history :
       /\ history[i].id \in Gone(routing) /\ history[i].at <= clock
       /\ history[i].content # NoContent
            => history[i].content = history[i].id /\ history[i].success
       /\ \A j \in DOMAIN captured :
            captured[j] = history[i].id /\ history[i].content = NoContent
              => Len(captured) - j >= MaxEntries
  /\ \A i, j \in DOMAIN history :
       /\ history[i].id = history[j].id => i = j
       /\ i < j => history[i].at <= history[j].at \/ Attr[history[j].id].stream

(* The records of a state have the fields they were made with.             *)
MemFields == {"buffer", "queue", "busy", "samples", "dedup"}
DiskFields == {"history", "sessions", "agents", "traces", "routing", "episodes", "alerts"}
GhostFields == {"captured", "handled", "failed", "told", "since"}

Shape(m, d, g) ==
  /\ m = [x \in MemFields |-> m[x]]
  /\ d = [x \in DiskFields |-> d[x]]
  /\ g = [x \in GhostFields |-> g[x]]

(* What holds while the events of P are being handled, with the flow fl.   *)
Between(m, d, g, P, fl, clock, runs, logging) ==
  /\ Shape(m, d, g)
  /\ FlowOk(fl, clock)
  /\ QueueOk(m.queue, m.busy, P, fl, clock)
  /\ LogOk(g.told, g.handled, m.queue, P, fl, runs)
  /\ TimesOk(g.told, clock)
  /\ LinesOk(g.told, d.routing, d.traces, d.episodes)
  /\ SessionsOk(g.told, d.sessions)
  /\ AgentsOk(g.since, d.agents)
  /\ BufferOk(m.buffer, g.captured, g.told, m.queue, P, fl, logging)
  /\ HistoryOk(d.history, g.captured, g.told, clock)

IInv ==
  /\ boot \in Nat \ {0}
  /\ Between(mem, disk, ghost, {}, flow, now, boot, config.logging)
------------------------------------------------------------------------------
(* The facts that the lemmas below have as hypotheses, each by a name.     *)
Grown(t, s, x) == t = Append(s, x)
IsFinal(x, r, at) == x \in Record /\ x.id = r /\ x.at = at /\ x.final = TRUE
IsHop(x, r, at) == x \in Record /\ x.id = r /\ x.at = at /\ x.final = FALSE

LEMMA Appended ==
  ASSUME NEW R, NEW s \in Seq(R), NEW x \in R, NEW t, Grown(t, s, x)
  PROVE  /\ t \in Seq(R) /\ Len(s) \in Nat /\ Len(t) = Len(s) + 1
         /\ DOMAIN s = 1..Len(s) /\ DOMAIN t = 1..(Len(s) + 1)
         /\ t[Len(s) + 1] = x /\ \A i \in 1..Len(s) : t[i] = s[i]
         /\ \A i \in DOMAIN t : i \in DOMAIN s \/ i = Len(s) + 1
         /\ Range(t) = Range(s) \cup {x}
         /\ t # <<>>
<1>1. /\ t \in Seq(R) /\ Len(s) \in Nat /\ Len(t) = Len(s) + 1
      /\ DOMAIN s = 1..Len(s) /\ DOMAIN t = 1..(Len(s) + 1)
      /\ t[Len(s) + 1] = x /\ \A i \in 1..Len(s) : t[i] = s[i]
  BY DEF Grown
<1>2. \A i \in DOMAIN t : i \in DOMAIN s \/ i = Len(s) + 1
  BY <1>1
<1>3. Range(t) = Range(s) \cup {x}
  <2>1. ASSUME NEW y \in Range(t) PROVE y \in Range(s) \cup {x}
    BY <1>1, <1>2 DEF Range
  <2>2. ASSUME NEW y \in Range(s) PROVE y \in Range(t)
    <3>1. PICK i \in DOMAIN s : s[i] = y
      BY DEF Range
    <3>2. i \in DOMAIN t /\ t[i] = y
      BY <1>1, <3>1
    <3> QED BY <3>2 DEF Range
  <2>3. x \in Range(t)
    <3>1. Len(s) + 1 \in DOMAIN t
      BY <1>1
    <3> QED BY <1>1, <3>1 DEF Range
  <2> QED BY <2>1, <2>2, <2>3
<1>4. t # <<>>
  BY <1>1
<1> QED BY <1>1, <1>2, <1>3, <1>4

(* A sequence without repetitions stays one when something new is added.   *)
LEMMA StillDistinct ==
  ASSUME NEW R, NEW s \in Seq(R), NEW x \in R, x \notin Range(s), IsInjective(s),
         NEW t, Grown(t, s, x)
  PROVE  IsInjective(t)
<1>1. /\ DOMAIN s = 1..Len(s) /\ t[Len(s) + 1] = x /\ \A i \in 1..Len(s) : t[i] = s[i]
      /\ \A i \in DOMAIN t : i \in DOMAIN s \/ i = Len(s) + 1
  BY Appended
<1>2. \A i \in DOMAIN s : s[i] # x
  BY DEF Range
<1> QED BY <1>1, <1>2 DEF IsInjective

(* The events told grow by one.                                            *)
LEMMA KeptIsRecords ==
  ASSUME NEW told \in Seq(Record), NEW S
  PROVE  Keep(told, S) \in Seq(Record)
BY KeepSays

LEMMA RecordIn ==
  ASSUME NEW x \in Record
  PROVE  /\ \A ids, F, L : x \in [id : ids, at : Nat, final : F, lost : L]
                            <=> x.id \in ids /\ x.final \in F /\ x.lost \in L
         /\ \A sink : x.lost \in SUBSET (Sinks \ {sink}) <=> sink \notin x.lost
         /\ x.lost \in SUBSET Sinks
<1>1. PICK i \in Requests, a \in Nat, f \in BOOLEAN, l \in SUBSET Sinks :
        x = [id |-> i, at |-> a, final |-> f, lost |-> l]
  BY DEF Record
<1>2. x.id = i /\ x.at = a /\ x.final = f /\ x.lost = l
  BY <1>1
<1>3. \A ids, F, L : x \in [id : ids, at : Nat, final : F, lost : L]
                     <=> i \in ids /\ f \in F /\ l \in L
  BY <1>1
<1> QED BY <1>2, <1>3

LEMMA GrowKept ==
  ASSUME NEW told \in Seq(Record), NEW x \in Record, NEW log, Grown(log, told, x), NEW S
  PROVE  /\ log \in Seq(Record)
         /\ x \in S => Keep(log, S) = Append(Keep(told, S), x)
         /\ x \notin S => Keep(log, S) = Keep(told, S)
BY KeepAppend DEF Grown

(* Which sets of events x is in.                                           *)
LEMMA InTook ==
  ASSUME NEW x \in Record, NEW sink, NEW ids, NEW final
  PROVE  x \in Took(sink, ids, final) <=> x.final = final /\ x.id \in ids /\ sink \notin x.lost
<1>1. PICK F : F = {final}
  OBVIOUS
<1>2. PICK L : L = SUBSET (Sinks \ {sink})
  OBVIOUS
<1>3. x \in [id : ids, at : Nat, final : F, lost : L]
        <=> x.id \in ids /\ x.final \in F /\ x.lost \in L
  BY RecordIn
<1>4. x.lost \in L <=> sink \notin x.lost
  BY <1>2, RecordIn
<1> QED BY <1>1, <1>2, <1>3, <1>4 DEF Took

Taking(x, sink, ids) == x.final = TRUE /\ x.id \in ids /\ sink \notin x.lost
Tracing(x) == x.final = FALSE /\ "traces" \notin x.lost

LEMMA BookGrows ==
  ASSUME NEW told \in Seq(Record), NEW x \in Record, NEW log, Grown(log, told, x),
         NEW sink, NEW ids
  PROVE  /\ Taking(x, sink, ids)
              => TookBy(sink, log, ids) = Append(TookBy(sink, told, ids), x)
         /\ ~ Taking(x, sink, ids) => TookBy(sink, log, ids) = TookBy(sink, told, ids)
<1>1. PICK S : S = Took(sink, ids, TRUE)
  OBVIOUS
<1>2. x \in S <=> Taking(x, sink, ids)
  <2>1. x \in Took(sink, ids, TRUE) <=> x.final = TRUE /\ x.id \in ids /\ sink \notin x.lost
    BY InTook
  <2> QED BY <1>1, <2>1 DEF Taking
<1>3. /\ x \in S => Keep(log, S) = Append(Keep(told, S), x)
      /\ x \notin S => Keep(log, S) = Keep(told, S)
  BY GrowKept
<1> QED BY <1>1, <1>2, <1>3 DEF TookBy

TracesOf(told) == Keep(told, Took("traces", Requests, FALSE))

LEMMA TracesGrow ==
  ASSUME NEW told \in Seq(Record), NEW x \in Record, NEW log, Grown(log, told, x)
  PROVE  /\ Tracing(x) => TracesOf(log) = Append(TracesOf(told), x)
         /\ ~ Tracing(x) => TracesOf(log) = TracesOf(told)
<1>1. PICK S : S = Took("traces", Requests, FALSE)
  OBVIOUS
<1>2. x \in S <=> Tracing(x)
  <2>1. x \in Took("traces", Requests, FALSE)
          <=> x.final = FALSE /\ x.id \in Requests /\ "traces" \notin x.lost
    BY InTook
  <2>2. x.id \in Requests
    BY DEF Record
  <2> QED BY <1>1, <2>1, <2>2 DEF Tracing
<1>3. /\ x \in S => Keep(log, S) = Append(Keep(told, S), x)
      /\ x \notin S => Keep(log, S) = Keep(told, S)
  BY GrowKept
<1> QED BY <1>1, <1>2, <1>3 DEF TracesOf

LEMMA LoggedGrows ==
  ASSUME NEW told \in Seq(Record), NEW x \in Record, NEW log, Grown(log, told, x)
  PROVE  /\ "routing" \notin x.lost => LoggedOf(log) = Append(LoggedOf(told), x)
         /\ "routing" \in x.lost => LoggedOf(log) = LoggedOf(told)
<1>1. PICK L : L = SUBSET (Sinks \ {"routing"})
  OBVIOUS
<1>2. PICK S : S = [id : Requests, at : Nat, final : BOOLEAN, lost : L]
  OBVIOUS
<1>3. x \in S <=> "routing" \notin x.lost
  <2>1. x.final \in BOOLEAN /\ x.id \in Requests
    BY DEF Record
  <2>2. x \in [id : Requests, at : Nat, final : BOOLEAN, lost : L]
          <=> x.id \in Requests /\ x.final \in BOOLEAN /\ x.lost \in L
    BY RecordIn
  <2>3. x.lost \in L <=> "routing" \notin x.lost
    BY <1>1, RecordIn
  <2> QED BY <1>2, <2>1, <2>2, <2>3
<1>4. /\ x \in S => Keep(log, S) = Append(Keep(told, S), x)
      /\ x \notin S => Keep(log, S) = Keep(told, S)
  BY GrowKept
<1> QED BY <1>1, <1>2, <1>3, <1>4 DEF LoggedOf

LEMMA GrowFinal ==
  ASSUME NEW told \in Seq(Record), NEW r \in Requests, NEW at \in Nat, NEW x,
         IsFinal(x, r, at), NEW log, Grown(log, told, x)
  PROVE  /\ x \in Record /\ log \in Seq(Record)
         /\ FinalsOf(log, Requests) = Append(FinalsOf(told, Requests), x)
         /\ Gone(log) = Gone(told) \cup {r}
<1>1. x \in Record /\ log \in Seq(Record) /\ x.id = r /\ x.final = TRUE
  BY GrowKept DEF IsFinal
<1>2. x \in [id : Requests, at : Nat, final : {TRUE}, lost : SUBSET Sinks]
  <2>1. PICK F : F = {TRUE}
    OBVIOUS
  <2>2. PICK L : L = SUBSET Sinks
    OBVIOUS
  <2>3. x \in [id : Requests, at : Nat, final : F, lost : L]
    BY <1>1, <2>1, <2>2, RecordIn
  <2> QED BY <2>1, <2>2, <2>3
<1>3. FinalsOf(log, Requests) = Append(FinalsOf(told, Requests), x)
  <2>1. PICK S : S = [id : Requests, at : Nat, final : {TRUE}, lost : SUBSET Sinks]
    OBVIOUS
  <2>2. Keep(log, S) = Append(Keep(told, S), x)
    <3>1. x \in S
      BY <1>2, <2>1
    <3>2. x \in Record
      BY <1>1
    <3> QED BY <3>1, <3>2, GrowKept
  <2> QED BY <2>1, <2>2 DEF FinalsOf
<1>4. PICK s : s = FinalsOf(told, Requests)
  OBVIOUS
<1>5. PICK t : t = FinalsOf(log, Requests)
  OBVIOUS
<1>6. s \in Seq(Record) /\ Grown(t, s, x)
  BY <1>3, <1>4, <1>5, KeptIsRecords DEF Grown, FinalsOf
<1>7. /\ DOMAIN s = 1..Len(s) /\ t[Len(s) + 1] = x /\ \A i \in 1..Len(s) : t[i] = s[i]
      /\ \A i \in DOMAIN t : i \in DOMAIN s \/ i = Len(s) + 1
      /\ DOMAIN t = 1..(Len(s) + 1) /\ Len(s) \in Nat
  BY <1>1, <1>6, Appended
<1>8. \A i \in DOMAIN s : i \in DOMAIN t
  BY <1>7
<1>9. Len(s) + 1 \in DOMAIN t
  BY <1>7
<1>10. {t[i].id : i \in DOMAIN t} = {s[i].id : i \in DOMAIN s} \cup {r}
  <2>1. ASSUME NEW y \in {t[i].id : i \in DOMAIN t}
        PROVE  y \in {s[i].id : i \in DOMAIN s} \cup {r}
    <3>1. PICK i \in DOMAIN t : y = t[i].id
      OBVIOUS
    <3> QED BY <1>1, <1>7, <3>1
  <2>2. ASSUME NEW y \in {s[i].id : i \in DOMAIN s}
        PROVE  y \in {t[i].id : i \in DOMAIN t}
    <3>1. PICK i \in DOMAIN s : y = s[i].id
      OBVIOUS
    <3> QED BY <1>7, <1>8, <3>1
  <2>3. r \in {t[i].id : i \in DOMAIN t}
    BY <1>1, <1>7, <1>9
  <2> QED BY <2>1, <2>2, <2>3
<1>11. Gone(log) = {t[i].id : i \in DOMAIN t} /\ Gone(told) = {s[i].id : i \in DOMAIN s}
  BY <1>4, <1>5 DEF Gone
<1> QED BY <1>1, <1>3, <1>10, <1>11

LEMMA GrowHop ==
  ASSUME NEW told \in Seq(Record), NEW r \in Requests, NEW at \in Nat, NEW x,
         IsHop(x, r, at), NEW log, Grown(log, told, x)
  PROVE  /\ x \in Record /\ log \in Seq(Record)
         /\ FinalsOf(log, Requests) = FinalsOf(told, Requests)
         /\ Gone(log) = Gone(told)
<1>1. x \in Record /\ log \in Seq(Record) /\ x.final = FALSE
  BY GrowKept DEF IsHop
<1>2. x \notin [id : Requests, at : Nat, final : {TRUE}, lost : SUBSET Sinks]
  <2>1. PICK F : F = {TRUE}
    OBVIOUS
  <2>2. PICK L : L = SUBSET Sinks
    OBVIOUS
  <2>3. x \notin [id : Requests, at : Nat, final : F, lost : L]
    BY <1>1, <2>1, RecordIn
  <2> QED BY <2>1, <2>2, <2>3
<1>3. FinalsOf(log, Requests) = FinalsOf(told, Requests)
  <2>1. PICK S : S = [id : Requests, at : Nat, final : {TRUE}, lost : SUBSET Sinks]
    OBVIOUS
  <2>2. Keep(log, S) = Keep(told, S)
    <3>1. x \notin S
      BY <1>2, <2>1
    <3>2. x \in Record
      BY <1>1
    <3> QED BY <3>1, <3>2, GrowKept
  <2> QED BY <2>1, <2>2 DEF FinalsOf
<1> QED BY <1>1, <1>3 DEF Gone

LEMMA TimesGrow ==
  ASSUME NEW told \in Seq(Record), NEW clock, TimesOk(told, clock), NEW x \in Record,
         x.at <= clock, x.final => x.at = clock \/ Attr[x.id].stream,
         NEW log, Grown(log, told, x)
  PROVE  TimesOk(log, clock)
<1>1. /\ DOMAIN told = 1..Len(told) /\ Len(told) \in Nat /\ log[Len(told) + 1] = x
      /\ \A i \in DOMAIN told : log[i] = told[i]
      /\ \A i \in DOMAIN log : i \in DOMAIN told \/ i = Len(told) + 1
  BY Appended
<1>2. \A i \in DOMAIN told : told[i].at <= clock
  BY DEF TimesOk
<1>3. \A i \in DOMAIN log : log[i].at <= clock
  BY <1>1, <1>2
<1>4. ASSUME NEW i \in DOMAIN log, NEW j \in DOMAIN log, i < j, log[j].final
      PROVE  log[i].at <= log[j].at \/ Attr[log[j].id].stream
  <2>1. CASE j \in DOMAIN told
    <3>1. i \in DOMAIN told
      BY <1>1, <1>4, <2>1
    <3>2. log[i] = told[i] /\ log[j] = told[j]
      BY <1>1, <2>1, <3>1
    <3> QED BY <1>4, <2>1, <3>1, <3>2 DEF TimesOk
  <2>2. CASE j = Len(told) + 1
    BY <1>1, <1>3, <1>4, <2>2
  <2> QED BY <1>1, <2>1, <2>2
<1> QED BY <1>3, <1>4 DEF TimesOk

LEMMA IdsGrow ==
  ASSUME NEW s \in Seq(Record), NEW x \in Record
  PROVE  /\ IdsOf(Append(s, x)) = Append(IdsOf(s), x.id)
         /\ LinesOf(Append(s, x)) = Append(LinesOf(s), RoutingRecord(x))
<1>1. PICK g : g = [e \in Record |-> e.id]
  OBVIOUS
<1>2. PICK h : h = [e \in Record |-> RoutingRecord(e)]
  OBVIOUS
<1>3. ASSUME NEW t \in Seq(Record)
      PROVE  IdsOf(t) = Mapped(t, g) /\ LinesOf(t) = Mapped(t, h)
  <2>1. \A i \in DOMAIN t : t[i] \in Record
    OBVIOUS
  <2> QED BY <1>1, <1>2, <2>1 DEF IdsOf, LinesOf, Mapped
<1>4. Append(s, x) \in Seq(Record) /\ g[x] = x.id /\ h[x] = RoutingRecord(x)
  BY <1>1, <1>2
<1>5. Mapped(Append(s, x), g) = Append(Mapped(s, g), g[x])
  BY MappedAppend
<1>6. Mapped(Append(s, x), h) = Append(Mapped(s, h), h[x])
  BY MappedAppend
<1> QED BY <1>3, <1>4, <1>5, <1>6

(* Every book with lines gets one from each event that its sink takes.     *)
LEMMA LinesGrow ==
  ASSUME NEW told \in Seq(Record), NEW routing, NEW traces, NEW episodes,
         LinesOk(told, routing, traces, episodes),
         NEW x \in Record, NEW log, Grown(log, told, x)
  PROVE  LinesOk(log,
                 IF "routing" \in x.lost THEN routing ELSE Append(routing, RoutingRecord(x)),
                 IF x.final \/ "traces" \in x.lost THEN traces ELSE Append(traces, x.id),
                 IF x.final /\ "mesh" \notin x.lost THEN Append(episodes, x.id) ELSE episodes)
<1>1. /\ routing = LinesOf(LoggedOf(told))
      /\ traces = IdsOf(Keep(told, Took("traces", Requests, FALSE)))
      /\ episodes = IdsOf(TookBy("mesh", told, Requests))
  BY DEF LinesOk
<1>2. x.id \in Requests /\ x.final \in BOOLEAN
  BY DEF Record
<1>3. /\ LoggedOf(told) \in Seq(Record) /\ TookBy("mesh", told, Requests) \in Seq(Record)
      /\ Keep(told, Took("traces", Requests, FALSE)) \in Seq(Record)
  BY KeptIsRecords DEF LoggedOf, TookBy
<1>7. \A s \in Seq(Record) : /\ IdsOf(Append(s, x)) = Append(IdsOf(s), x.id)
                              /\ LinesOf(Append(s, x)) = Append(LinesOf(s), RoutingRecord(x))
  BY IdsGrow
<1>4. LinesOf(LoggedOf(log)) =
        IF "routing" \in x.lost THEN routing ELSE Append(routing, RoutingRecord(x))
  <2>1. /\ "routing" \notin x.lost => LoggedOf(log) = Append(LoggedOf(told), x)
        /\ "routing" \in x.lost => LoggedOf(log) = LoggedOf(told)
    BY LoggedGrows
  <2> QED BY <1>1, <1>3, <1>7, <2>1
<1>5. IdsOf(Keep(log, Took("traces", Requests, FALSE))) =
        IF x.final \/ "traces" \in x.lost THEN traces ELSE Append(traces, x.id)
  <2>1. PICK s : s = TracesOf(told)
    OBVIOUS
  <2>2. /\ Tracing(x) => TracesOf(log) = Append(s, x)
        /\ ~ Tracing(x) => TracesOf(log) = s
    BY <2>1, TracesGrow
  <2>3. s \in Seq(Record) /\ traces = IdsOf(s)
    BY <1>1, <1>3, <2>1 DEF TracesOf
  <2>4. IdsOf(Append(s, x)) = Append(traces, x.id)
    BY <1>7, <2>3
  <2>5. IdsOf(TracesOf(log)) = IF Tracing(x) THEN Append(traces, x.id) ELSE traces
    BY <2>2, <2>3, <2>4
  <2>6. Tracing(x) <=> ~ (x.final \/ "traces" \in x.lost)
    BY <1>2 DEF Tracing
  <2> QED BY <2>5, <2>6 DEF TracesOf
<1>6. IdsOf(TookBy("mesh", log, Requests)) =
        IF x.final /\ "mesh" \notin x.lost THEN Append(episodes, x.id) ELSE episodes
  <2>1. PICK s : s = TookBy("mesh", told, Requests)
    OBVIOUS
  <2>2. /\ Taking(x, "mesh", Requests) => TookBy("mesh", log, Requests) = Append(s, x)
        /\ ~ Taking(x, "mesh", Requests) => TookBy("mesh", log, Requests) = s
    BY <2>1, BookGrows
  <2>3. s \in Seq(Record) /\ episodes = IdsOf(s)
    BY <1>1, <1>3, <2>1
  <2>4. IdsOf(Append(s, x)) = Append(episodes, x.id)
    BY <1>7, <2>3
  <2>5. IdsOf(TookBy("mesh", log, Requests)) =
          IF Taking(x, "mesh", Requests) THEN Append(episodes, x.id) ELSE episodes
    BY <2>2, <2>3, <2>4
  <2>6. Taking(x, "mesh", Requests) <=> x.final /\ "mesh" \notin x.lost
    BY <1>2 DEF Taking
  <2> QED BY <2>5, <2>6
<1> QED BY <1>4, <1>5, <1>6 DEF LinesOk
------------------------------------------------------------------------------
(* What a handled event does to the books.                                 *)
IsHandled(h, r) == h \in Handling /\ h.id = r

LEMMA LogGrows ==
  ASSUME NEW told, NEW handled, NEW queue, NEW fl, NEW runs, NEW r \in Requests,
         LogOk(told, handled, queue, {r}, fl, runs),
         fl[r].pc = "done", fl[r].completed \in Nat, r \notin Range(queue),
         NEW x, IsFinal(x, r, fl[r].completed), NEW h, IsHandled(h, r),
         NEW log, Grown(log, told, x), NEW hs, Grown(hs, handled, h)
  PROVE  LogOk(log, hs, queue, {}, fl, runs)
<1>1. PICK at : at = fl[r].completed
  OBVIOUS
<1>2. at \in Nat /\ IsFinal(x, r, at) /\ x.id = r /\ x.at = fl[r].completed
  BY <1>1 DEF IsFinal
<1>3. PICK finals : finals = FinalsOf(told, Requests)
  OBVIOUS
<1>4. PICK gone : gone = Gone(told)
  OBVIOUS
<1>5. told \in Seq(Record) /\ finals \in Seq(Record)
  BY <1>3, KeptIsRecords DEF LogOk, FinalsOf
<1>6. /\ IsFiniteSet(gone) /\ Cardinality(gone) = Len(finals)
      /\ \A i \in DOMAIN finals : finals[i].at = fl[finals[i].id].completed
      /\ \A q \in gone : fl[q].pc = "done" /\ q \notin Waiting(queue, {r})
  BY <1>3, <1>4 DEF LogOk
<1>7. /\ \A q \in Requests : fl[q].pc = "done" => q \in gone \cup Waiting(queue, {r}) \/ runs > 1
      /\ \A i \in DOMAIN handled : handled[i].id \in gone
      /\ handled \in Seq(Handling)
  BY <1>4 DEF LogOk
<1>8. PICK fs : fs = FinalsOf(log, Requests)
  OBVIOUS
<1>9. x \in Record /\ log \in Seq(Record) /\ Grown(fs, finals, x) /\ Gone(log) = gone \cup {r}
  <2>1. /\ x \in Record /\ log \in Seq(Record)
        /\ FinalsOf(log, Requests) = Append(FinalsOf(told, Requests), x)
        /\ Gone(log) = Gone(told) \cup {r}
    BY <1>2, <1>5, GrowFinal
  <2> QED BY <1>3, <1>4, <1>8, <2>1 DEF Grown
<1>10. /\ Len(finals) \in Nat /\ Len(fs) = Len(finals) + 1
       /\ fs[Len(finals) + 1] = x /\ \A i \in DOMAIN finals : fs[i] = finals[i]
       /\ \A i \in DOMAIN fs : i \in DOMAIN finals \/ i = Len(finals) + 1
  BY <1>5, <1>9, Appended
<1>11. r \in Waiting(queue, {r}) /\ r \notin gone
  BY <1>6 DEF Waiting
<1>12. IsFiniteSet(gone \cup {r}) /\ Cardinality(gone \cup {r}) = Len(fs)
  BY <1>6, <1>10, <1>11, FS_AddElement
<1>13. \A i \in DOMAIN fs : fs[i].at = fl[fs[i].id].completed
  BY <1>2, <1>6, <1>10
<1>14. Waiting(queue, {r}) = Waiting(queue, {}) \cup {r} /\ r \notin Waiting(queue, {})
  BY DEF Waiting
<1>15. \A q \in gone \cup {r} : fl[q].pc = "done" /\ q \notin Waiting(queue, {})
  BY <1>6, <1>14
<1>16. \A q \in Requests :
         fl[q].pc = "done" => q \in (gone \cup {r}) \cup Waiting(queue, {}) \/ runs > 1
  BY <1>7, <1>14
<1>17. hs \in Seq(Handling) /\ \A i \in DOMAIN hs : hs[i].id \in gone \cup {r}
  <2>1. h \in Handling /\ h.id = r
    BY DEF IsHandled
  <2>2. /\ hs \in Seq(Handling)
        /\ hs[Len(handled) + 1] = h /\ \A i \in DOMAIN handled : hs[i] = handled[i]
        /\ \A i \in DOMAIN hs : i \in DOMAIN handled \/ i = Len(handled) + 1
    BY <1>7, <2>1, Appended
  <2> QED BY <1>7, <2>1, <2>2
<1> QED BY <1>8, <1>9, <1>12, <1>13, <1>15, <1>16, <1>17 DEF LogOk

(* The rows of a session whose records grow by x.                          *)
LEMMA RowGrows ==
  ASSUME NEW rows \in Seq(Record), NEW x \in Record, NEW more, Grown(more, rows, x)
  PROVE  /\ TokensOf(rows) \in Nat
         /\ TokensOf(more) = TokensOf(rows) + Attr[x.id].tokens
         /\ more # <<>> /\ Len(more) = Len(rows) + 1 /\ more[Len(more)] = x
         /\ more[1] = IF rows = <<>> THEN x ELSE rows[1]
         /\ rows = <<>> => TokensOf(rows) = 0 /\ Len(rows) = 0
<1> DEFINE f == [i \in DOMAIN rows |-> Attr[rows[i].id].tokens]
<1> DEFINE g == [i \in DOMAIN more |-> Attr[more[i].id].tokens]
<1>1. /\ more \in Seq(Record) /\ Len(rows) \in Nat /\ Len(more) = Len(rows) + 1
      /\ DOMAIN rows = 1..Len(rows) /\ DOMAIN more = 1..(Len(rows) + 1)
      /\ more[Len(rows) + 1] = x /\ \A i \in 1..Len(rows) : more[i] = rows[i]
      /\ \A i \in DOMAIN more : i \in DOMAIN rows \/ i = Len(rows) + 1
      /\ more # <<>>
  BY Appended
<1>2. \A y \in Record : Attr[y.id].tokens \in Nat
  BY ObserversAssumption DEF Record, Requests
<1>3. f \in Seq(Nat) /\ Len(f) = Len(rows)
  <2>1. \A i \in 1..Len(rows) : rows[i] \in Record
    OBVIOUS
  <2>2. f \in [1..Len(rows) -> Nat]
    BY <1>1, <1>2, <2>1
  <2> QED BY <1>1, <2>2
<1>4. g = Append(f, Attr[x.id].tokens)
  <2>1. PICK t : Grown(t, f, Attr[x.id].tokens)
    BY DEF Grown
  <2>2. Attr[x.id].tokens \in Nat
    BY <1>2
  <2> HIDE DEF f
  <2>3. /\ t \in Seq(Nat) /\ DOMAIN t = 1..(Len(f) + 1)
        /\ t[Len(f) + 1] = Attr[x.id].tokens /\ \A i \in 1..Len(f) : t[i] = f[i]
    BY <1>3, <2>1, <2>2 DEF Grown
  <2>4. \A i \in 1..(Len(rows) + 1) : g[i] = t[i]
    <3> TAKE i \in 1..(Len(rows) + 1)
    <3>1. g[i] = Attr[more[i].id].tokens
      BY <1>1
    <3>2. CASE i = Len(rows) + 1
      BY <1>1, <1>3, <2>3, <3>1, <3>2
    <3>3. CASE i \in 1..Len(rows)
      <4>1. f[i] = Attr[rows[i].id].tokens
        BY <1>1, <3>3 DEF f
      <4> QED BY <1>1, <1>3, <2>3, <3>1, <3>3, <4>1
    <3> QED BY <1>1, <3>2, <3>3
  <2>5. t = [i \in 1..(Len(rows) + 1) |-> t[i]]
    BY <1>3, <2>3
  <2>6. g = [i \in 1..(Len(rows) + 1) |-> g[i]]
    BY <1>1
  <2> HIDE DEF g
  <2>7. g = t
    BY <2>4, <2>5, <2>6
  <2> QED BY <2>1, <2>7 DEF Grown
<1>5. TokensOf(rows) = Total(f) /\ TokensOf(more) = Total(g)
  BY DEF TokensOf
<1>6. Total(f) \in Nat /\ Total(g) = Total(f) + Attr[x.id].tokens
  <2> HIDE DEF f, g
  <2> QED BY <1>2, <1>3, <1>4, TotalAppend
<1>7. rows = <<>> => Len(rows) = 0
  OBVIOUS
<1>8. rows = <<>> => TokensOf(rows) = 0
  <2> SUFFICES ASSUME rows = <<>> PROVE Total(f) = 0
    BY <1>5
  <2>1. f = <<>>
    BY <1>3, <1>7
  <2> QED BY <2>1, TotalEmpty
<1>9. more[1] = IF rows = <<>> THEN x ELSE rows[1]
  <2>1. CASE rows = <<>>
    BY <1>1, <1>7, <2>1
  <2>2. CASE rows # <<>>
    <3>1. 1 \in 1..Len(rows)
      BY <1>1, <2>2
    <3> QED BY <1>1, <2>2, <3>1
  <2> QED BY <2>1, <2>2
<1> QED BY <1>1, <1>5, <1>6, <1>7, <1>8, <1>9

(* The table gets a row at k and keeps the others.                         *)
Put(table, old, k, row) ==
  /\ table = [s \in DOMAIN table |-> table[s]]
  /\ DOMAIN table = DOMAIN old \cup {k}
  /\ table[k] = row /\ \A s \in DOMAIN old \ {k} : table[s] = old[s]

LEMMA PutNew ==
  ASSUME NEW old, NEW k, NEW row
  PROVE  Put(WithRow(old, k, row), old, k, row)
BY DEF Put, WithRow

LEMMA SessionsGrow ==
  ASSUME NEW told \in Seq(Record), NEW sessions, SessionsOk(told, sessions),
         NEW r \in Requests, NEW f, f.completed \in Nat,
         NEW x, IsFinal(x, r, f.completed), NEW log, Grown(log, told, x)
  PROVE  SessionsOk(log, IF "sessions" \in x.lost THEN sessions
                         ELSE SessionUpsert(sessions, r, f))
<1>1. PICK k : k = Attr[r].session
  OBVIOUS
<1>2. PICK at : at = f.completed
  OBVIOUS
<1>3. PICK table : table = SessionUpsert(sessions, r, f)
  OBVIOUS
<1>4. at \in Nat /\ IsFinal(x, r, at)
  BY <1>2
<1>5. x \in Record /\ x.at = at /\ x.id = r /\ x.final = TRUE
  BY <1>4 DEF IsFinal
<1>0. \A ids : TookBy("sessions", log, ids) =
                 IF r \in ids /\ "sessions" \notin x.lost
                 THEN Append(TookBy("sessions", told, ids), x)
                 ELSE TookBy("sessions", told, ids)
  <2> TAKE ids
  <2>1. PICK s : s = TookBy("sessions", told, ids)
    OBVIOUS
  <2>2. /\ Taking(x, "sessions", ids) => TookBy("sessions", log, ids) = Append(s, x)
        /\ ~ Taking(x, "sessions", ids) => TookBy("sessions", log, ids) = s
    <3>1. x \in Record
      BY <1>5
    <3> QED BY <2>1, <3>1, BookGrows
  <2>3. Taking(x, "sessions", ids) <=> r \in ids /\ "sessions" \notin x.lost
    BY <1>5 DEF Taking
  <2> QED BY <2>1, <2>2, <2>3
<1>20. CASE "sessions" \in x.lost
  BY <1>0, <1>20 DEF SessionsOk
<1>21. SUFFICES ASSUME "sessions" \notin x.lost
                PROVE  SessionsOk(log, SessionUpsert(sessions, r, f))
  BY <1>20
<1>6. \A ids : TookBy("sessions", log, ids) =
                 IF r \in ids THEN Append(TookBy("sessions", told, ids), x)
                 ELSE TookBy("sessions", told, ids)
  BY <1>0, <1>21
<1>7. \A s : r \in OfSession(s) <=> s = k
  BY <1>1 DEF OfSession
<1>8. \A s : s # k => TookBy("sessions", log, OfSession(s)) = TookBy("sessions", told, OfSession(s))
  BY <1>6, <1>7
<1>9. PICK rows : rows = TookBy("sessions", told, OfSession(k))
  OBVIOUS
<1>10. PICK more : more = TookBy("sessions", log, OfSession(k))
  OBVIOUS
<1>11. rows \in Seq(Record) /\ Grown(more, rows, x)
  <2>1. rows \in Seq(Record)
    BY <1>9, KeptIsRecords DEF TookBy
  <2>2. more = Append(rows, x)
    BY <1>6, <1>7, <1>9, <1>10
  <2> QED BY <2>1, <2>2 DEF Grown
<1>12. /\ TokensOf(rows) \in Nat
       /\ TokensOf(more) = TokensOf(rows) + Attr[r].tokens
       /\ more # <<>> /\ Len(more) = Len(rows) + 1 /\ more[Len(more)] = x
       /\ more[1] = IF rows = <<>> THEN x ELSE rows[1]
       /\ rows = <<>> => TokensOf(rows) = 0 /\ Len(rows) = 0
  BY <1>5, <1>11, RowGrows
<1>13. /\ sessions = [s \in DOMAIN sessions |-> sessions[s]]
       /\ "none" \notin DOMAIN sessions
       /\ \A s : RowOf(sessions, s, TookBy("sessions", told, OfSession(s)))
  BY DEF SessionsOk
<1>14. RowOf(sessions, k, rows)
  BY <1>9, <1>13
<1>15. ASSUME table = sessions, k = "none"
       PROVE  SessionsOk(log, table)
  <2>1. ASSUME NEW s PROVE RowOf(table, s, TookBy("sessions", log, OfSession(s)))
    <3>1. CASE s = k
      BY <1>13, <1>15, <3>1 DEF RowOf
    <3>2. CASE s # k
      BY <1>8, <1>13, <1>15, <3>2
    <3> QED BY <3>1, <3>2
  <2> QED BY <1>13, <1>15, <2>1 DEF SessionsOk
<1>16. ASSUME k # "none", Put(table, sessions, k, SessionRow(more))
       PROVE  SessionsOk(log, table)
  <2>0. /\ table = [s \in DOMAIN table |-> table[s]]
        /\ DOMAIN table = DOMAIN sessions \cup {k}
        /\ table[k] = SessionRow(more)
        /\ \A s \in DOMAIN sessions \ {k} : table[s] = sessions[s]
    BY <1>16 DEF Put
  <2>1. ASSUME NEW s PROVE RowOf(table, s, TookBy("sessions", log, OfSession(s)))
    <3>1. CASE s = k
      BY <1>10, <1>12, <2>0, <3>1 DEF RowOf
    <3>2. CASE s # k
      <4>1. RowOf(sessions, s, TookBy("sessions", log, OfSession(s)))
        BY <1>8, <1>13, <3>2
      <4> QED BY <2>0, <3>2, <4>1 DEF RowOf
    <3> QED BY <3>1, <3>2
  <2>3. "none" \notin DOMAIN table
    BY <1>13, <1>16, <2>0
  <2> QED BY <2>0, <2>1, <2>3 DEF SessionsOk
<1>17. CASE k = "none"
  <2>1. table = sessions
    BY <1>1, <1>3, <1>17 DEF SessionUpsert
  <2> QED BY <1>3, <1>15, <1>17, <2>1
<1>18. CASE k # "none" /\ k \in DOMAIN sessions
  <2>1. rows # <<>> /\ sessions[k] = SessionRow(rows)
    BY <1>14, <1>18 DEF RowOf
  <2>2. PICK row : row = [sessions[k] EXCEPT !.last = f.completed, !.count = @ + 1,
                                             !.tokens = @ + Attr[r].tokens]
    OBVIOUS
  <2>3. table = WithRow(sessions, k, row)
    BY <1>1, <1>3, <1>18, <2>2 DEF SessionUpsert
  <2>4. PICK a : a = rows[1].at
    OBVIOUS
  <2>5. PICK b : b = rows[Len(rows)].at
    OBVIOUS
  <2>6. PICK n : n = Len(rows)
    OBVIOUS
  <2>7. PICK t : t = TokensOf(rows)
    OBVIOUS
  <2>8. sessions[k] = [first |-> a, last |-> b, count |-> n, tokens |-> t]
    BY <2>1, <2>4, <2>5, <2>6, <2>7 DEF SessionRow
  <2>9. row = [first |-> a, last |-> at, count |-> n + 1, tokens |-> t + Attr[r].tokens]
    <3>1. PICK old : old = sessions[k]
      OBVIOUS
    <3>2. PICK d : d = Attr[r].tokens
      OBVIOUS
    <3>3. row = [old EXCEPT !.last = at, !.count = @ + 1, !.tokens = @ + d]
      BY <1>2, <2>2, <3>1, <3>2
    <3>4. old = [first |-> a, last |-> b, count |-> n, tokens |-> t]
      BY <2>8, <3>1
    <3>5. row = [first |-> a, last |-> at, count |-> n + 1, tokens |-> t + d]
      BY <3>3, <3>4
    <3> QED BY <3>2, <3>5
  <2>10. /\ more[1].at = a /\ more[Len(more)].at = at /\ Len(more) = n + 1
         /\ TokensOf(more) = t + Attr[r].tokens
    BY <1>5, <1>12, <2>1, <2>4, <2>6, <2>7
  <2>11. row = SessionRow(more)
    BY <2>9, <2>10 DEF SessionRow
  <2>12. Put(table, sessions, k, SessionRow(more))
    BY <2>3, <2>11, PutNew
  <2> QED BY <1>3, <1>16, <1>18, <2>12
<1>19. CASE k # "none" /\ k \notin DOMAIN sessions
  <2>1. rows = <<>>
    BY <1>14, <1>19 DEF RowOf
  <2>2. table = WithRow(sessions, k, [first |-> f.completed, last |-> f.completed,
                                      count |-> 1, tokens |-> Attr[r].tokens])
    BY <1>1, <1>3, <1>19 DEF SessionUpsert
  <2>3. SessionRow(more) = [first |-> at, last |-> at, count |-> 1, tokens |-> Attr[r].tokens]
    <3>1. Attr[r].tokens \in Nat
      BY ObserversAssumption DEF Requests
    <3>2. TokensOf(more) = Attr[r].tokens /\ Len(more) = 1 /\ more[1] = x /\ more[Len(more)] = x
      BY <1>12, <2>1, <3>1
    <3> QED BY <1>5, <3>2 DEF SessionRow
  <2>4. table = WithRow(sessions, k, SessionRow(more))
    BY <1>2, <2>2, <2>3
  <2>5. Put(table, sessions, k, SessionRow(more))
    BY <2>4, PutNew
  <2> QED BY <1>3, <1>16, <1>19, <2>5
<1> QED BY <1>17, <1>18, <1>19

LEMMA AgentsGrow ==
  ASSUME NEW since, NEW agents, AgentsOk(since, agents),
         NEW r \in Requests, NEW f, f.completed \in Nat,
         NEW x, IsFinal(x, r, f.completed), NEW log, Grown(log, since, x)
  PROVE  AgentsOk(log, IF "agents" \in x.lost THEN agents ELSE AgentUpsert(agents, r, f))
<1>1. PICK k : k = Attr[r].agent
  OBVIOUS
<1>2. PICK at : at = f.completed
  OBVIOUS
<1>3. PICK table : table = AgentUpsert(agents, r, f)
  OBVIOUS
<1>4. at \in Nat /\ IsFinal(x, r, at)
  BY <1>2
<1>5. x \in Record /\ x.id = r /\ x.final = TRUE /\ since \in Seq(Record)
  BY <1>4 DEF IsFinal, AgentsOk
<1>0. /\ log \in Seq(Record)
      /\ \A ids : TookBy("agents", log, ids) =
                    IF r \in ids /\ "agents" \notin x.lost
                    THEN Append(TookBy("agents", since, ids), x)
                    ELSE TookBy("agents", since, ids)
  <2>1. log \in Seq(Record)
    BY <1>5, GrowKept
  <2>2. ASSUME NEW ids
        PROVE  TookBy("agents", log, ids) =
                 IF r \in ids /\ "agents" \notin x.lost
                 THEN Append(TookBy("agents", since, ids), x)
                 ELSE TookBy("agents", since, ids)
    <3>1. PICK s : s = TookBy("agents", since, ids)
      OBVIOUS
    <3>2. /\ Taking(x, "agents", ids) => TookBy("agents", log, ids) = Append(s, x)
          /\ ~ Taking(x, "agents", ids) => TookBy("agents", log, ids) = s
      <4>1. x \in Record /\ since \in Seq(Record)
        BY <1>5
      <4> QED BY <3>1, <4>1, BookGrows
    <3>3. Taking(x, "agents", ids) <=> r \in ids /\ "agents" \notin x.lost
      BY <1>5 DEF Taking
    <3> QED BY <3>1, <3>2, <3>3
  <2> QED BY <2>1, <2>2
<1>20. CASE "agents" \in x.lost
  BY <1>0, <1>20 DEF AgentsOk
<1>21. SUFFICES ASSUME "agents" \notin x.lost
                PROVE  AgentsOk(log, AgentUpsert(agents, r, f))
  BY <1>20
<1>6. \A ids : TookBy("agents", log, ids) =
                 IF r \in ids THEN Append(TookBy("agents", since, ids), x)
                 ELSE TookBy("agents", since, ids)
  BY <1>0, <1>21
<1>7. \A a : r \in OfAgent(a) <=> a = k
  BY <1>1 DEF OfAgent
<1>8. \A a : a # k => TookBy("agents", log, OfAgent(a)) = TookBy("agents", since, OfAgent(a))
  BY <1>6, <1>7
<1>9. PICK rows : rows = TookBy("agents", since, OfAgent(k))
  OBVIOUS
<1>10. PICK more : more = TookBy("agents", log, OfAgent(k))
  OBVIOUS
<1>11. rows \in Seq(Record) /\ Grown(more, rows, x)
  <2>1. rows \in Seq(Record)
    BY <1>5, <1>9, KeptIsRecords DEF TookBy
  <2>2. more = Append(rows, x)
    BY <1>6, <1>7, <1>9, <1>10
  <2> QED BY <2>1, <2>2 DEF Grown
<1>12. /\ more # <<>> /\ Len(more) = Len(rows) + 1
       /\ rows = <<>> => Len(rows) = 0
  BY <1>5, <1>11, RowGrows
<1>13. /\ agents = [a \in DOMAIN agents |-> agents[a]]
       /\ "none" \notin DOMAIN agents
       /\ \A a : AgentOf(agents, a, TookBy("agents", since, OfAgent(a)))
  BY DEF AgentsOk
<1>14. AgentOf(agents, k, rows)
  BY <1>9, <1>13
<1>15. CASE k = "none"
  <2>0. table = agents
    BY <1>1, <1>3, <1>15 DEF AgentUpsert
  <2>1. ASSUME NEW a PROVE AgentOf(table, a, TookBy("agents", log, OfAgent(a)))
    <3>1. CASE a = k
      BY <1>13, <1>15, <2>0, <3>1 DEF AgentOf
    <3>2. CASE a # k
      BY <1>8, <1>13, <2>0, <3>2
    <3> QED BY <3>1, <3>2
  <2> QED BY <1>0, <1>3, <1>13, <2>0, <2>1 DEF AgentsOk
<1>16. CASE k # "none"
  <2>1. PICK known : known = IF k \in DOMAIN agents THEN agents[k]
                             ELSE [first |-> f.started, last |-> f.completed, count |-> 0,
                                   models |-> {}]
    OBVIOUS
  <2>2. AgentRow(known) /\ known.count = Len(rows)
    <3>1. CASE k \in DOMAIN agents
      BY <1>14, <2>1, <3>1 DEF AgentOf
    <3>2. CASE k \notin DOMAIN agents
      <4>1. Len(rows) = 0
        BY <1>12, <1>14, <1>16, <3>2 DEF AgentOf
      <4> QED BY <2>1, <3>2, <4>1 DEF AgentRow
    <3> QED BY <3>1, <3>2
  <2>3. PICK row : row = [known EXCEPT !.last = f.completed, !.count = @ + 1,
                                       !.models = @ \cup {Attr[r].model}]
    OBVIOUS
  <2>4. AgentRow(row) /\ row.count = Len(rows) + 1
    BY <2>2, <2>3 DEF AgentRow
  <2>5. table = WithRow(agents, k, row)
    BY <1>1, <1>3, <1>16, <2>1, <2>3 DEF AgentUpsert
  <2>6. Put(table, agents, k, row)
    BY <2>5, PutNew
  <2>7. /\ table = [a \in DOMAIN table |-> table[a]]
        /\ DOMAIN table = DOMAIN agents \cup {k}
        /\ table[k] = row
        /\ \A a \in DOMAIN agents \ {k} : table[a] = agents[a]
    BY <2>6 DEF Put
  <2>8. ASSUME NEW a PROVE AgentOf(table, a, TookBy("agents", log, OfAgent(a)))
    <3>1. CASE a = k
      BY <1>10, <1>12, <2>4, <2>7, <3>1 DEF AgentOf
    <3>2. CASE a # k
      <4>1. AgentOf(agents, a, TookBy("agents", log, OfAgent(a)))
        BY <1>8, <1>13, <3>2
      <4> QED BY <2>7, <3>2, <4>1 DEF AgentOf
    <3> QED BY <3>1, <3>2
  <2>10. "none" \notin DOMAIN table
    BY <1>13, <1>16, <2>7
  <2> QED BY <1>0, <1>3, <2>7, <2>8, <2>10 DEF AgentsOk
<1> QED BY <1>15, <1>16
------------------------------------------------------------------------------
(* A request that is not done moves on, and is done or not.                *)
Moves(fl, next, r) ==
  /\ fl[r].pc # "done"
  /\ \A q \in Requests : q # r => next[q] = fl[q]

LEMMA FlowMoves ==
  ASSUME NEW m, NEW d, NEW g, NEW fl, NEW clock, NEW runs, NEW logging,
         Between(m, d, g, {}, fl, clock, runs, logging),
         NEW r \in Requests, NEW next, Moves(fl, next, r), FlowOk(next, clock),
         NEW P, P = IF next[r].pc = "done" THEN {r} ELSE {},
         next[r].pc = "done" => Attr[r].stream \/ next[r].completed = clock
  PROVE  /\ Between(m, d, g, P, next, clock, runs, logging)
         /\ r \notin Range(m.buffer) /\ r \notin Range(g.captured)
<1>1. PICK queue : queue = m.queue
  OBVIOUS
<1>2. PICK told : told = g.told
  OBVIOUS
<1>3. PICK gone : gone = Gone(told)
  OBVIOUS
<1>4. P \subseteq {r} /\ (next[r].pc = "done" => r \in P)
  OBVIOUS
<1>5. r \in P => next[r].pc = "done"
  OBVIOUS
<1>6. fl[r].pc # "done" /\ \A q \in Requests : q # r => next[q] = fl[q]
  BY DEF Moves
<1>7. /\ queue \in Seq(Requests) /\ IsInjective(queue)
      /\ m.busy \/ queue = <<>>
      /\ \A q \in Waiting(queue, {}) :
           fl[q].pc = "done" /\ (Attr[q].stream \/ fl[q].completed = clock)
  BY <1>1 DEF Between, QueueOk
<1>8. \A q \in Range(queue) : q \in Requests
  BY <1>7 DEF Range
<1>9. r \notin Range(queue)
  BY <1>6, <1>7 DEF Waiting
<1>10. QueueOk(queue, m.busy, P, next, clock)
  <2>1. P \subseteq Requests /\ Range(queue) \cap P = {}
    BY <1>4, <1>9
  <2>2. ASSUME NEW q \in Waiting(queue, P)
        PROVE  next[q].pc = "done" /\ (Attr[q].stream \/ next[q].completed = clock)
    <3>1. CASE q = r
      <4>1. r \in P
        BY <1>9, <3>1 DEF Waiting
      <4> QED BY <1>5, <3>1, <4>1
    <3>2. CASE q # r
      <4>1. q \in Range(queue)
        BY <1>4, <3>2 DEF Waiting
      <4>2. q \in Waiting(queue, {}) /\ next[q] = fl[q]
        BY <1>6, <1>8, <3>2, <4>1 DEF Waiting
      <4> QED BY <1>7, <4>2
    <3> QED BY <3>1, <3>2
  <2> QED BY <1>7, <2>1, <2>2 DEF QueueOk
<1>11. PICK finals : finals = FinalsOf(told, Requests)
  OBVIOUS
<1>12. LogOk(told, g.handled, queue, {}, fl, runs)
  BY <1>1, <1>2 DEF Between
<1>13. \A q \in gone : fl[q].pc = "done" /\ q \notin Waiting(queue, {})
  BY <1>3, <1>12 DEF LogOk
<1>14. r \notin gone
  BY <1>6, <1>13
<1>15. gone = {finals[i].id : i \in DOMAIN finals}
  BY <1>3, <1>11 DEF Gone
<1>16. gone \subseteq Requests
  <2>1. finals \in Seq(Record)
    BY <1>11, <1>12, KeptIsRecords DEF LogOk, FinalsOf
  <2>2. \A i \in DOMAIN finals : finals[i] \in Record
    BY <2>1
  <2> QED BY <1>15, <2>2 DEF Record
<1>17. \A q \in gone : next[q] = fl[q]
  BY <1>6, <1>14, <1>16
<1>18. LogOk(told, g.handled, queue, P, next, runs)
  <2>1. \A q \in gone : next[q].pc = "done" /\ q \notin Waiting(queue, P)
    <3> SUFFICES ASSUME NEW q \in gone
                 PROVE  next[q].pc = "done" /\ q \notin Waiting(queue, P)
      OBVIOUS
    <3>1. next[q].pc = "done" /\ q \notin Waiting(queue, {}) /\ q # r
      BY <1>13, <1>14, <1>17
    <3> QED BY <1>4, <3>1 DEF Waiting
  <2>2. \A q \in Requests : fl[q].pc = "done" => q \in gone \cup Waiting(queue, {}) \/ runs > 1
    BY <1>3, <1>12 DEF LogOk
  <2>3. \A q \in Requests : next[q].pc = "done" => q \in gone \cup Waiting(queue, P) \/ runs > 1
    <3> SUFFICES ASSUME NEW q \in Requests, next[q].pc = "done"
                 PROVE  q \in gone \cup Waiting(queue, P) \/ runs > 1
      OBVIOUS
    <3>1. CASE q = r
      BY <1>4, <3>1 DEF Waiting
    <3>2. CASE q # r
      BY <1>6, <2>2, <3>2 DEF Waiting
    <3> QED BY <3>1, <3>2
  <2>4. \A i \in DOMAIN finals : finals[i].at = fl[finals[i].id].completed
    BY <1>11, <1>12 DEF LogOk
  <2>5. \A i \in DOMAIN finals : finals[i].at = next[finals[i].id].completed
    BY <1>15, <1>17, <2>4
  <2> QED BY <1>3, <1>11, <1>12, <2>1, <2>3, <2>5 DEF LogOk
<1>19. BufferOk(m.buffer, g.captured, told, queue, {}, fl, logging)
  BY <1>1, <1>2 DEF Between
<1>20. \A i \in DOMAIN g.captured : g.captured[i] \in Requests /\ fl[g.captured[i]].pc = "done"
  BY <1>19 DEF BufferOk
<1>21. \A i \in DOMAIN m.buffer :
         m.buffer[i] \in Waiting(queue, {}) /\ fl[m.buffer[i]].success
  BY <1>19 DEF BufferOk
<1>22. r \notin Range(m.buffer)
  BY <1>9, <1>21 DEF Waiting, Range
<1>23. r \notin Range(g.captured)
  BY <1>6, <1>20 DEF Range
<1>24. BufferOk(m.buffer, g.captured, told, queue, P, next, logging)
  <2>1. \A i \in DOMAIN m.buffer :
          m.buffer[i] \in Waiting(queue, P) /\ next[m.buffer[i]].success
    <3> SUFFICES ASSUME NEW i \in DOMAIN m.buffer
                 PROVE  m.buffer[i] \in Waiting(queue, P) /\ next[m.buffer[i]].success
      OBVIOUS
    <3>1. m.buffer[i] \in Range(queue) /\ fl[m.buffer[i]].success
      BY <1>21 DEF Waiting
    <3>2. next[m.buffer[i]] = fl[m.buffer[i]]
      BY <1>6, <1>8, <1>9, <3>1
    <3> QED BY <3>1, <3>2 DEF Waiting
  <2>2. \A i \in DOMAIN g.captured : next[g.captured[i]].pc = "done"
    BY <1>6, <1>20
  <2> QED BY <1>19, <2>1, <2>2 DEF BufferOk
<1>25. /\ Shape(m, d, g) /\ SessionsOk(told, d.sessions) /\ AgentsOk(g.since, d.agents)
       /\ TimesOk(told, clock) /\ LinesOk(told, d.routing, d.traces, d.episodes)
       /\ HistoryOk(d.history, g.captured, told, clock)
  BY <1>2 DEF Between
<1>26. FlowOk(next, clock)
  OBVIOUS
<1> QED BY <1>1, <1>2, <1>10, <1>18, <1>22, <1>23, <1>24, <1>25, <1>26 DEF Between
------------------------------------------------------------------------------
(* The content of a request that is done is recorded before its event.     *)
LEMMA Captures ==
  ASSUME NEW buffer, NEW captured, NEW told, NEW queue, NEW P, NEW fl, NEW r \in Requests,
         NEW logging, logging,
         BufferOk(buffer, captured, told, queue, P, fl, logging),
         r \notin Range(buffer), r \notin Range(captured),
         r \in P, fl[r].pc = "done", fl[r].success,
         NEW more, Grown(more, captured, r)
  PROVE  BufferOk(Recorded(buffer, r), more, told, queue, P, fl, logging)
<1>1. PICK n : n = Len(captured)
  OBVIOUS
<1>2. PICK gone : gone = Gone(told)
  OBVIOUS
<1>3. /\ captured \in Seq(Requests) /\ IsInjective(captured)
      /\ buffer \in Seq(Requests) /\ Len(buffer) <= MaxEntries
  BY DEF BufferOk
<1>4. \A i \in DOMAIN captured :
        /\ fl[captured[i]].pc = "done"
        /\ captured[i] \in Range(buffer) \cup gone \/ n - i >= MaxEntries
  BY <1>1, <1>2 DEF BufferOk
<1>5. \A i \in DOMAIN buffer : buffer[i] \in Waiting(queue, P) /\ fl[buffer[i]].success
  BY DEF BufferOk
<1>6. \A i \in DOMAIN captured, j \in DOMAIN buffer :
        captured[i] = buffer[j] => Len(buffer) - j <= n - i
  BY <1>1 DEF BufferOk
<1>7. /\ more \in Seq(Requests) /\ n \in Nat /\ Len(more) = n + 1
      /\ DOMAIN captured = 1..n /\ DOMAIN more = 1..(n + 1)
      /\ more[n + 1] = r /\ \A i \in 1..n : more[i] = captured[i]
      /\ \A i \in DOMAIN more : i \in DOMAIN captured \/ i = n + 1
  BY <1>1, <1>3, Appended
<1>8. IsInjective(more)
  BY <1>3, StillDistinct
<1>9. PICK b : b = IF Len(buffer) >= MaxEntries THEN Tail(buffer) ELSE buffer
  OBVIOUS
<1>10. PICK k : k = IF Len(buffer) >= MaxEntries THEN 1 ELSE 0
  OBVIOUS
<1>11. MaxEntries \in Nat /\ MaxEntries >= 1 /\ Len(buffer) \in Nat
  BY <1>3, ContentAssumption
<1>12. /\ b \in Seq(Requests) /\ Len(b) = Len(buffer) - k /\ DOMAIN b = 1..Len(b)
       /\ Len(b) \in Nat /\ Len(b) <= MaxEntries - 1
       /\ \A i \in 1..Len(b) : b[i] = buffer[i + k] /\ i + k \in 1..Len(buffer)
  <2>1. CASE Len(buffer) >= MaxEntries
    <3>1. b = Tail(buffer) /\ k = 1 /\ buffer # <<>>
      BY <1>3, <1>9, <1>10, <1>11, <2>1
    <3>2. b \in Seq(Requests) /\ Len(b) = Len(buffer) - 1 /\ \A i \in 1..Len(b) : b[i] = buffer[i + 1]
      BY <1>3, <1>11, <3>1
    <3> QED BY <1>3, <1>11, <3>1, <3>2
  <2>2. CASE ~ (Len(buffer) >= MaxEntries)
    <3>1. b = buffer /\ k = 0
      BY <1>9, <1>10, <2>2
    <3> QED BY <1>3, <1>11, <2>2, <3>1
  <2> QED BY <2>1, <2>2
<1>13. k \in {0, 1} /\ (k = 1 => Len(buffer) = MaxEntries)
  BY <1>3, <1>10, <1>11
<1>14. PICK c : Grown(c, b, r)
  BY DEF Grown
<1>15. c = Recorded(buffer, r)
  <2>1. ~ Contains(buffer, r)
    BY <1>3 DEF Contains, Range
  <2> QED BY <1>9, <1>14, <2>1 DEF Recorded, Grown
<1>16. /\ c \in Seq(Requests) /\ Len(c) = Len(b) + 1 /\ DOMAIN c = 1..(Len(b) + 1)
       /\ c[Len(b) + 1] = r /\ \A i \in 1..Len(b) : c[i] = b[i]
       /\ \A i \in DOMAIN c : i \in DOMAIN b \/ i = Len(b) + 1
       /\ Range(c) = Range(b) \cup {r}
  BY <1>12, <1>14, Appended
<1>17. Len(c) <= MaxEntries
  BY <1>11, <1>12, <1>16
<1>18. \A i \in DOMAIN c : c[i] \in Waiting(queue, P) /\ fl[c[i]].success
  <2>1. r \in Waiting(queue, P)
    BY DEF Waiting
  <2>2. \A i \in 1..Len(b) : b[i] \in Waiting(queue, P) /\ fl[b[i]].success
    BY <1>3, <1>5, <1>12
  <2> QED BY <1>12, <1>16, <2>1, <2>2
<1>19. \A i \in DOMAIN more :
         /\ fl[more[i]].pc = "done"
         /\ more[i] \in Range(c) \cup gone \/ Len(more) - i >= MaxEntries
  <2> SUFFICES ASSUME NEW i \in DOMAIN more
               PROVE  /\ fl[more[i]].pc = "done"
                      /\ more[i] \in Range(c) \cup gone \/ Len(more) - i >= MaxEntries
    OBVIOUS
  <2>1. CASE i = n + 1
    BY <1>7, <1>16, <2>1
  <2>2. CASE i \in 1..n
    <3>1. more[i] = captured[i] /\ fl[more[i]].pc = "done" /\ Len(more) - i = (n - i) + 1
      BY <1>4, <1>7, <2>2
    <3>2. CASE captured[i] \in gone \/ n - i >= MaxEntries
      BY <1>7, <1>11, <2>2, <3>1, <3>2
    <3>3. CASE captured[i] \in Range(buffer)
      <4>1. PICK j \in DOMAIN buffer : buffer[j] = captured[i]
        BY <3>3 DEF Range
      <4>2. j \in 1..Len(buffer) /\ Len(buffer) - j <= n - i
        BY <1>3, <1>6, <1>7, <2>2, <4>1
      <4>3. CASE j > k
        <5>1. j - k \in 1..Len(b) /\ (j - k) + k = j
          BY <1>11, <1>12, <1>13, <4>2, <4>3
        <5>2. b[j - k] = captured[i]
          BY <1>12, <4>1, <5>1
        <5>3. captured[i] \in Range(b)
          BY <1>12, <5>1, <5>2 DEF Range
        <5> QED BY <1>16, <3>1, <5>3
      <4>4. CASE ~ (j > k)
        <5>1. j = 1 /\ Len(buffer) = MaxEntries
          BY <1>13, <4>2, <4>4
        <5>2. Len(more) - i >= MaxEntries
          BY <1>7, <1>11, <2>2, <3>1, <4>2, <5>1
        <5> QED BY <3>1, <5>2
      <4> QED BY <4>3, <4>4
    <3>4. captured[i] \in Range(buffer) \cup gone \/ n - i >= MaxEntries
      BY <1>4, <1>7, <2>2
    <3> QED BY <3>2, <3>3, <3>4
  <2> QED BY <1>7, <2>1, <2>2
<1>20. \A i \in DOMAIN more, j \in DOMAIN c :
         more[i] = c[j] => Len(c) - j <= Len(more) - i
  <2> SUFFICES ASSUME NEW i \in DOMAIN more, NEW j \in DOMAIN c, more[i] = c[j]
               PROVE  Len(c) - j <= Len(more) - i
    OBVIOUS
  <2>1. CASE j = Len(b) + 1
    BY <1>7, <1>12, <1>16, <2>1
  <2>2. CASE j \in 1..Len(b)
    <3>1. c[j] = buffer[j + k] /\ j + k \in 1..Len(buffer)
      BY <1>12, <1>16, <2>2
    <3>2. i # n + 1
      BY <1>3, <1>7, <3>1 DEF Range
    <3>3. i \in 1..n /\ captured[i] = buffer[j + k]
      BY <1>7, <3>1, <3>2
    <3>4. Len(buffer) - (j + k) <= n - i
      BY <1>3, <1>6, <1>7, <3>1, <3>3
    <3>5. Len(c) - j = (Len(buffer) - (j + k)) + 1
      BY <1>11, <1>12, <1>13, <1>16, <2>2
    <3> QED BY <1>7, <1>11, <3>1, <3>3, <3>4, <3>5
  <2> QED BY <1>12, <1>16, <2>1, <2>2
<1> QED BY <1>2, <1>7, <1>8, <1>15, <1>16, <1>17, <1>18, <1>19, <1>20 DEF BufferOk

(* The handler takes the content of its request, if it is still there.     *)
LEMMA Takes ==
  ASSUME NEW buffer, NEW captured, NEW told, NEW queue, NEW fl, NEW logging,
         NEW r \in Requests,
         BufferOk(buffer, captured, told, queue, {r}, fl, logging),
         NEW log, Gone(log) = Gone(told) \cup {r},
         NEW rest, rest = IF logging THEN Taken(buffer, r) ELSE buffer
  PROVE  BufferOk(rest, captured, log, queue, {}, fl, logging)
<1>1. PICK n : n = Len(captured)
  OBVIOUS
<1>2. PICK gone : gone = Gone(told)
  OBVIOUS
<1>3. /\ captured \in Seq(Requests) /\ IsInjective(captured) /\ n \in Nat
      /\ DOMAIN captured = 1..n
      /\ buffer \in Seq(Requests) /\ Len(buffer) <= MaxEntries
      /\ Len(buffer) \in Nat /\ DOMAIN buffer = 1..Len(buffer)
  BY <1>1 DEF BufferOk
<1>4. \A i \in DOMAIN captured :
        /\ fl[captured[i]].pc = "done"
        /\ captured[i] \in Range(buffer) \cup gone \/ n - i >= MaxEntries
  BY <1>1, <1>2 DEF BufferOk
<1>5. \A i \in DOMAIN buffer : buffer[i] \in Waiting(queue, {r}) /\ fl[buffer[i]].success
  BY DEF BufferOk
<1>6. \A i \in DOMAIN captured, j \in DOMAIN buffer :
        captured[i] = buffer[j] => Len(buffer) - j <= n - i
  BY <1>1 DEF BufferOk
<1>7. logging \/ (buffer = <<>> /\ captured = <<>>)
  BY DEF BufferOk
<1>8. Gone(log) = gone \cup {r}
  BY <1>2
<1>9. CASE ~ logging
  <2>1. rest = buffer /\ DOMAIN buffer = {} /\ DOMAIN captured = {}
    BY <1>1, <1>3, <1>7, <1>9
  <2> QED BY <1>3, <1>7, <2>1 DEF BufferOk
<1>10. CASE logging
  <2>1. rest = Keep(buffer, ToSet(buffer) \ {r})
    BY <1>10 DEF Taken
  <2>2. rest \in Seq(Requests)
    BY <1>3, <2>1, KeepSays
  <2>3. PICK S : S = ToSet(buffer) \ {r}
    OBVIOUS
  <2>4. PICK p : Subsequence(rest, buffer, S, p)
    BY <1>3, <2>1, <2>3, KeepSays
  <2>5. /\ p \in [1..Len(rest) -> 1..Len(buffer)]
        /\ \A i \in 1..Len(rest) : rest[i] = buffer[p[i]] /\ rest[i] \in S
        /\ \A m \in 1..Len(buffer) : buffer[m] \in S => \E i \in 1..Len(rest) : p[i] = m
    BY <2>4 DEF Subsequence
  <2>6. \A i \in 1..Len(rest) : Len(rest) - i <= Len(buffer) - p[i]
    BY <1>3, <2>2, <2>4, SubsequenceGap
  <2>7. Len(rest) \in Nat /\ DOMAIN rest = 1..Len(rest)
    BY <2>2
  <2>8. Len(rest) <= MaxEntries
    <3>1. CASE Len(rest) = 0
      BY <3>1, ContentAssumption
    <3>2. CASE Len(rest) # 0
      <4>1. 1 \in 1..Len(rest)
        BY <2>7, <3>2
      <4>2. p[1] \in 1..Len(buffer) /\ Len(rest) - 1 <= Len(buffer) - p[1]
        BY <2>5, <2>6, <4>1
      <4> QED BY <1>3, <2>7, <4>2, ContentAssumption
    <3> QED BY <3>1, <3>2
  <2>9. \A i \in DOMAIN rest : rest[i] \in Waiting(queue, {}) /\ fl[rest[i]].success
    <3> SUFFICES ASSUME NEW i \in 1..Len(rest)
                 PROVE  rest[i] \in Waiting(queue, {}) /\ fl[rest[i]].success
      BY <2>7
    <3>1. p[i] \in DOMAIN buffer /\ rest[i] = buffer[p[i]] /\ rest[i] # r
      BY <1>3, <2>3, <2>5
    <3>2. rest[i] \in Waiting(queue, {r}) /\ fl[rest[i]].success
      BY <1>5, <3>1
    <3> QED BY <3>1, <3>2 DEF Waiting
  <2>10. \A i \in DOMAIN captured :
           captured[i] \in Range(rest) \cup Gone(log) \/ n - i >= MaxEntries
    <3> SUFFICES ASSUME NEW i \in DOMAIN captured
                 PROVE  captured[i] \in Range(rest) \cup Gone(log) \/ n - i >= MaxEntries
      OBVIOUS
    <3>1. CASE captured[i] \in gone \/ n - i >= MaxEntries \/ captured[i] = r
      BY <1>8, <3>1
    <3>2. CASE captured[i] \in Range(buffer) /\ captured[i] # r
      <4>1. PICK m \in DOMAIN buffer : buffer[m] = captured[i]
        BY <3>2 DEF Range
      <4>2. buffer[m] \in S
        BY <2>3, <3>2, <4>1 DEF ToSet
      <4>3. PICK j \in 1..Len(rest) : p[j] = m
        BY <1>3, <2>5, <4>2
      <4>4. rest[j] = captured[i] /\ j \in DOMAIN rest
        BY <2>5, <2>7, <4>1, <4>3
      <4> QED BY <4>4 DEF Range
    <3> QED BY <1>4, <3>1, <3>2
  <2>11. \A i \in DOMAIN captured, j \in DOMAIN rest :
           captured[i] = rest[j] => Len(rest) - j <= n - i
    <3> SUFFICES ASSUME NEW i \in DOMAIN captured, NEW j \in 1..Len(rest),
                        captured[i] = rest[j]
                 PROVE  Len(rest) - j <= n - i
      BY <2>7
    <3>1. p[j] \in 1..Len(buffer) /\ captured[i] = buffer[p[j]]
      BY <2>5
    <3>2. Len(buffer) - p[j] <= n - i
      BY <1>3, <1>6, <3>1
    <3>3. Len(rest) - j <= Len(buffer) - p[j]
      BY <2>6
    <3>4. i \in Nat /\ j \in Nat /\ p[j] \in Nat
      BY <1>3, <3>1
    <3> QED BY <1>3, <2>7, <3>2, <3>3, <3>4
  <2> QED BY <1>1, <1>3, <1>4, <1>10, <2>2, <2>8, <2>9, <2>10, <2>11 DEF BufferOk
<1> QED BY <1>9, <1>10
------------------------------------------------------------------------------
(* The history log.                                                        *)
LEMMA HistoryCaptured ==
  ASSUME NEW history, NEW captured \in Seq(Requests), NEW told, NEW clock,
         HistoryOk(history, captured, told, clock), NEW r \in Requests,
         r \notin Gone(told), NEW more, Grown(more, captured, r)
  PROVE  HistoryOk(history, more, told, clock)
<1>1. PICK n : n = Len(captured)
  OBVIOUS
<1>2. /\ n \in Nat /\ Len(more) = n + 1 /\ DOMAIN captured = 1..n
      /\ more[n + 1] = r /\ \A i \in 1..n : more[i] = captured[i]
      /\ \A i \in DOMAIN more : i \in DOMAIN captured \/ i = n + 1
  BY <1>1, Appended
<1>3. MaxEntries \in Nat
  BY ContentAssumption
<1>4. \A i \in DOMAIN history :
        /\ history[i].id \in Gone(told)
        /\ \A j \in DOMAIN captured :
             captured[j] = history[i].id /\ history[i].content = NoContent
               => n - j >= MaxEntries
  BY <1>1 DEF HistoryOk
<1>5. \A i \in DOMAIN history : \A j \in DOMAIN more :
        more[j] = history[i].id /\ history[i].content = NoContent
          => Len(more) - j >= MaxEntries
  <2> SUFFICES ASSUME NEW i \in DOMAIN history, NEW j \in DOMAIN more,
                      more[j] = history[i].id, history[i].content = NoContent
               PROVE  Len(more) - j >= MaxEntries
    OBVIOUS
  <2>1. j \in 1..n /\ captured[j] = history[i].id
    BY <1>2, <1>4
  <2>2. n - j >= MaxEntries
    BY <1>2, <1>4, <2>1
  <2> QED BY <1>2, <1>3, <2>1, <2>2
<1> QED BY <1>5 DEF HistoryOk

(* The entry that the handler of r makes.                                  *)
Honest(e, r, captured, clock) ==
  /\ e \in Line /\ e.id = r /\ e.at <= clock
  /\ e.at = clock \/ Attr[r].stream
  /\ e.content # NoContent => e.content = r /\ e.success
  /\ \A j \in DOMAIN captured :
       captured[j] = r /\ e.content = NoContent => Len(captured) - j >= MaxEntries

LEMMA HistoryGrows ==
  ASSUME NEW history, NEW captured, NEW told, NEW clock \in Nat,
         HistoryOk(history, captured, told, clock), NEW r \in Requests,
         r \notin Gone(told), NEW log, Gone(log) = Gone(told) \cup {r},
         NEW e, Honest(e, r, captured, clock),
         NEW more, more = history \/ Grown(more, history, e)
  PROVE  HistoryOk(more, captured, log, clock)
<1>1. PICK gone : gone = Gone(told)
  OBVIOUS
<1>2. r \notin gone /\ Gone(log) = gone \cup {r}
  BY <1>1
<1>3. history \in Seq(Line)
  BY DEF HistoryOk
<1>4. \A i \in DOMAIN history :
        /\ history[i].id \in gone /\ history[i].at <= clock
        /\ history[i].content # NoContent
             => history[i].content = history[i].id /\ history[i].success
        /\ \A j \in DOMAIN captured :
             captured[j] = history[i].id /\ history[i].content = NoContent
               => Len(captured) - j >= MaxEntries
  BY <1>1 DEF HistoryOk
<1>5. \A i, j \in DOMAIN history :
        /\ history[i].id = history[j].id => i = j
        /\ i < j => history[i].at <= history[j].at \/ Attr[history[j].id].stream
  BY DEF HistoryOk
<1>6. CASE more = history
  BY <1>2, <1>3, <1>4, <1>5, <1>6 DEF HistoryOk
<1>7. CASE Grown(more, history, e)
  <2>1. PICK n : n = Len(history)
    OBVIOUS
  <2>2. e \in Line
    BY DEF Honest
  <2>3. /\ more \in Seq(Line) /\ n \in Nat
        /\ DOMAIN history = 1..n /\ DOMAIN more = 1..(n + 1)
        /\ more[n + 1] = e /\ \A i \in 1..n : more[i] = history[i]
        /\ \A i \in DOMAIN more : i \in DOMAIN history \/ i = n + 1
    BY <1>3, <1>7, <2>1, <2>2, Appended
  <2>4. /\ e.id = r /\ e.at <= clock
        /\ e.at = clock \/ Attr[r].stream
        /\ e.content # NoContent => e.content = r /\ e.success
        /\ \A j \in DOMAIN captured :
             captured[j] = r /\ e.content = NoContent => Len(captured) - j >= MaxEntries
    BY DEF Honest
  <2>5. \A i \in DOMAIN more :
          /\ more[i].id \in gone \cup {r} /\ more[i].at <= clock
          /\ more[i].content # NoContent
               => more[i].content = more[i].id /\ more[i].success
          /\ \A j \in DOMAIN captured :
               captured[j] = more[i].id /\ more[i].content = NoContent
                 => Len(captured) - j >= MaxEntries
    <3> SUFFICES ASSUME NEW i \in DOMAIN more
                 PROVE  /\ more[i].id \in gone \cup {r} /\ more[i].at <= clock
                        /\ more[i].content # NoContent
                             => more[i].content = more[i].id /\ more[i].success
                        /\ \A j \in DOMAIN captured :
                             captured[j] = more[i].id /\ more[i].content = NoContent
                               => Len(captured) - j >= MaxEntries
      OBVIOUS
    <3>1. CASE i = n + 1
      <4>1. more[i] = e
        BY <2>3, <3>1
      <4> QED BY <2>4, <4>1
    <3>2. CASE i \in DOMAIN history
      <4>1. more[i] = history[i]
        BY <2>3, <3>2
      <4> QED BY <1>4, <3>2, <4>1
    <3> QED BY <2>3, <3>1, <3>2
  <2>6. \A i, j \in DOMAIN more :
          /\ more[i].id = more[j].id => i = j
          /\ i < j => more[i].at <= more[j].at \/ Attr[more[j].id].stream
    <3> SUFFICES ASSUME NEW i \in DOMAIN more, NEW j \in DOMAIN more
                 PROVE  /\ more[i].id = more[j].id => i = j
                        /\ i < j => more[i].at <= more[j].at \/ Attr[more[j].id].stream
      OBVIOUS
    <3>1. CASE i \in DOMAIN history /\ j \in DOMAIN history
      <4>1. more[i] = history[i] /\ more[j] = history[j]
        BY <2>3, <3>1
      <4> QED BY <1>5, <3>1, <4>1
    <3>2. CASE i \in DOMAIN history /\ j = n + 1
      <4>1. more[i] = history[i] /\ more[j] = e /\ history[i].id # r /\ i # j
        BY <1>2, <1>4, <2>3, <3>2
      <4>2. history[i].at <= clock
        BY <1>4, <3>2
      <4>3. history[i].at <= e.at \/ Attr[r].stream
        BY <2>4, <4>2
      <4> QED BY <2>4, <4>1, <4>3
    <3>3. CASE i = n + 1 /\ j \in DOMAIN history
      <4>1. more[j] = history[j] /\ more[i] = e /\ history[j].id # r /\ ~ (i < j)
        BY <1>2, <1>4, <2>3, <3>3
      <4> QED BY <2>4, <4>1
    <3>4. CASE i = n + 1 /\ j = n + 1
      <4>1. ~ (i < j)
        BY <2>3, <3>4
      <4> QED BY <3>4, <4>1
    <3> QED BY <2>3, <3>1, <3>2, <3>3, <3>4
  <2> QED BY <1>2, <2>3, <2>5, <2>6 DEF HistoryOk
<1> QED BY <1>6, <1>7

(* The fields that a handled event leaves and those it changes.            *)
EntryOf(buffer, r, f, logging) ==
  Entry(r, f.completed, f.success, IF logging THEN ContentOf(buffer, r) ELSE NoContent)

Notes(r) == [id |-> r, at |-> now, boot |-> boot]

IsWorld(w, m, d, g) == w = [mem |-> m, disk |-> d, ghost |-> g]
HandledIs(h, w, r, f, failing) == h = Handled(w, r, f, failing)

FinalOf(r, f, failing) == Event(r, f.completed, TRUE, Lost(failing))

(* What the handlers of r's event do with the parts of a state.            *)
Effect(h, m, d, g, r, f, x) ==
  /\ h = [mem |-> h.mem, disk |-> h.disk, ghost |-> h.ghost]
  /\ Shape(h.mem, h.disk, h.ghost)
  /\ h.mem.queue = m.queue /\ h.mem.busy = m.busy
  /\ h.mem.buffer = IF config.logging THEN Taken(m.buffer, r) ELSE m.buffer
  /\ h.disk.history = IF "history" \in x.lost THEN d.history
                      ELSE Append(d.history, EntryOf(m.buffer, r, f, config.logging))
  /\ h.disk.sessions = IF "sessions" \in x.lost THEN d.sessions
                       ELSE SessionUpsert(d.sessions, r, f)
  /\ h.disk.agents = AgentsFile(d.agents, r, f, x.lost)
  /\ h.disk.traces = d.traces
  /\ h.disk.routing = IF "routing" \in x.lost THEN d.routing
                      ELSE Append(d.routing, RoutingRecord(x))
  /\ h.disk.episodes = IF "mesh" \in x.lost THEN d.episodes ELSE Append(d.episodes, r)
  /\ h.ghost.captured = g.captured
  /\ h.ghost.handled = Append(g.handled, Notes(r))
  /\ h.ghost.told = Append(g.told, x)
  /\ h.ghost.since = IF Tears(r, x.lost) THEN <<>> ELSE Append(g.since, x)

(* What the handlers of an event do with the alarms.                       *)
Alarms(h, m, d, g, r, types, fired, throws) ==
  /\ h.mem.samples = IF config.alerting THEN Sampled(m.samples, Sample(r)) ELSE m.samples
  /\ types = IF config.alerting THEN Analyze(h.mem.samples, Sample(r)) ELSE <<>>
  /\ fired = Fired(m.dedup, d.alerts, types, now, boot, throws)
  /\ h.mem.dedup = fired.dedup /\ h.disk.alerts = fired.alerts
  /\ h.ghost.handled = Append(g.handled, Notes(r))
  /\ h.ghost.failed = IF fired.thrown # "none"
                      THEN Append(g.failed, [id |-> r, type |-> fired.thrown, at |-> now])
                      ELSE g.failed

LEMMA HandledFields ==
  ASSUME NEW m, NEW d, NEW g, Shape(m, d, g), NEW r, NEW f, NEW failing,
         NEW w, IsWorld(w, m, d, g), NEW h, HandledIs(h, w, r, f, failing),
         NEW x, x = FinalOf(r, f, failing)
  PROVE  /\ Effect(h, m, d, g, r, f, x)
         /\ \E types, fired : Alarms(h, m, d, g, r, types, fired, "alerts" \in x.lost)
<1>1. /\ m = [y \in MemFields |-> m[y]] /\ d = [y \in DiskFields |-> d[y]]
      /\ g = [y \in GhostFields |-> g[y]]
  BY DEF Shape
<1>2. w.mem = m /\ w.disk = d /\ w.ghost = g
  BY DEF IsWorld
<1>3. PICK lost : lost = Lost(failing)
  OBVIOUS
<1>0. x = Event(r, f.completed, TRUE, lost) /\ x.lost = lost
  BY <1>3 DEF FinalOf, Event
<1> DEFINE throws == "alerts" \in lost
<1> DEFINE samples == IF config.alerting THEN Sampled(m.samples, Sample(r)) ELSE m.samples
<1> DEFINE types == IF config.alerting THEN Analyze(samples, Sample(r)) ELSE <<>>
<1> DEFINE fired == Fired(m.dedup, d.alerts, types, now, boot, throws)
<1> DEFINE failed == IF fired.thrown # "none"
                     THEN Append(g.failed, [id |-> r, type |-> fired.thrown, at |-> now])
                     ELSE g.failed
<1> DEFINE buffer == IF config.logging THEN Taken(m.buffer, r) ELSE m.buffer
<1> DEFINE history == IF "history" \in lost THEN d.history
                      ELSE Append(d.history, EntryOf(m.buffer, r, f, config.logging))
<1> DEFINE episodes == IF "mesh" \in lost THEN d.episodes ELSE Append(d.episodes, r)
<1> DEFINE books == IF "sessions" \in lost THEN d.sessions ELSE SessionUpsert(d.sessions, r, f)
<1> DEFINE agents == AgentsFile(d.agents, r, f, lost)
<1> DEFINE routing == IF "routing" \in lost THEN d.routing
                      ELSE Append(d.routing, RoutingRecord(x))
<1> DEFINE handled == Append(g.handled, Notes(r))
<1> DEFINE told == Append(g.told, x)
<1> DEFINE since == IF Tears(r, lost) THEN <<>> ELSE Append(g.since, x)
<1>16. PICK k : k = [g EXCEPT !.told = told, !.since = since]
  OBVIOUS
<1>17. k = [y \in GhostFields |-> k[y]]
  <2> HIDE DEF told, since
  <2> QED BY <1>1, <1>16 DEF GhostFields
<1>18. /\ k.told = told /\ k.since = since /\ k.captured = g.captured
       /\ k.handled = g.handled /\ k.failed = g.failed
  <2> HIDE DEF told, since
  <2> QED BY <1>1, <1>16 DEF GhostFields
<1>19. Told(g, x, Tears(r, lost)) = k
  BY <1>1, <1>16 DEF Told, GhostFields
<1>20. Handled(w, r, f, failing) =
        [mem |-> [m EXCEPT !.buffer = buffer, !.samples = samples, !.dedup = fired.dedup],
         disk |-> [d EXCEPT !.history = history, !.sessions = books, !.agents = agents,
                            !.routing = routing, !.episodes = episodes,
                            !.alerts = fired.alerts],
         ghost |-> [k EXCEPT !.handled = handled, !.failed = failed]]
  <2>1. PICK e : e = x
    OBVIOUS
  <2>2. Event(r, f.completed, TRUE, lost) = e /\ Told(w.ghost, e, Tears(r, lost)) = k
    BY <1>0, <1>2, <1>19, <2>1
  <2>3. Handled(w, r, f, failing) =
          [mem |-> [m EXCEPT !.buffer = buffer, !.samples = samples, !.dedup = fired.dedup],
           disk |-> [d EXCEPT
                       !.history = IF "history" \in lost THEN @
                                   ELSE Append(@, EntryOf(m.buffer, r, f, config.logging)),
                       !.agents = AgentsFile(@, r, f, lost),
                       !.sessions = IF "sessions" \in lost THEN @ ELSE SessionUpsert(@, r, f),
                       !.routing = IF "routing" \in lost THEN @
                                   ELSE Append(@, RoutingRecord(e)),
                       !.alerts = fired.alerts,
                       !.episodes = IF "mesh" \in lost THEN @ ELSE Append(@, r)],
           ghost |-> [k EXCEPT !.handled = Append(@, Notes(r)),
                               !.failed = IF fired.thrown # "none"
                                          THEN Append(@, [id |-> r, type |-> fired.thrown,
                                                          at |-> now])
                                          ELSE @]]
    BY <1>2, <1>3, <2>2 DEF Handled, EntryOf, Notes
  <2>4. [k EXCEPT !.handled = Append(@, Notes(r)),
                  !.failed = IF fired.thrown # "none"
                             THEN Append(@, [id |-> r, type |-> fired.thrown, at |-> now])
                             ELSE @]
          = [k EXCEPT !.handled = handled, !.failed = failed]
    BY <1>18
  <2>5. [d EXCEPT !.history = IF "history" \in lost THEN @
                              ELSE Append(@, EntryOf(m.buffer, r, f, config.logging)),
                  !.agents = AgentsFile(@, r, f, lost),
                  !.sessions = IF "sessions" \in lost THEN @ ELSE SessionUpsert(@, r, f),
                  !.routing = IF "routing" \in lost THEN @
                              ELSE Append(@, RoutingRecord(e)),
                  !.alerts = fired.alerts,
                  !.episodes = IF "mesh" \in lost THEN @ ELSE Append(@, r)]
          = [d EXCEPT !.history = history, !.sessions = books, !.agents = agents,
                      !.routing = routing, !.episodes = episodes, !.alerts = fired.alerts]
    <3>1. d = [y \in DiskFields |-> d[y]]
      BY <1>1 DEF Shape
    <3> QED BY <2>1, <3>1 DEF DiskFields
  <2> QED BY <2>3, <2>4, <2>5
<1> HIDE DEF samples, types, fired, failed, buffer, history, episodes, books, agents,
             routing, handled, told, since, throws
<1>4. PICK marked : marked = fired.dedup
  OBVIOUS
<1>5. PICK alerts : alerts = fired.alerts
  OBVIOUS
<1>6. PICK M : M = [m EXCEPT !.buffer = buffer, !.samples = samples, !.dedup = marked]
  OBVIOUS
<1>7. PICK D : D = [d EXCEPT !.history = history, !.sessions = books, !.agents = agents,
                             !.routing = routing, !.episodes = episodes, !.alerts = alerts]
  OBVIOUS
<1>8. PICK G : G = [k EXCEPT !.handled = handled, !.failed = failed]
  OBVIOUS
<1>9. /\ M = [y \in MemFields |-> M[y]]
      /\ M.buffer = buffer /\ M.queue = m.queue /\ M.busy = m.busy
      /\ M.samples = samples /\ M.dedup = marked
  BY <1>1, <1>6 DEF MemFields
<1>10. /\ D = [y \in DiskFields |-> D[y]]
       /\ D.history = history /\ D.sessions = books /\ D.agents = agents
       /\ D.routing = routing /\ D.episodes = episodes /\ D.traces = d.traces
       /\ D.alerts = alerts
  BY <1>1, <1>7 DEF DiskFields
<1>11. /\ G = [y \in GhostFields |-> G[y]]
       /\ G.handled = handled /\ G.captured = g.captured /\ G.failed = failed
       /\ G.told = told /\ G.since = since
  BY <1>8, <1>17, <1>18 DEF GhostFields
<1>12. h = [mem |-> M, disk |-> D, ghost |-> G]
  BY <1>4, <1>5, <1>6, <1>7, <1>8, <1>20 DEF HandledIs
<1>13. h.mem = M /\ h.disk = D /\ h.ghost = G /\ h = [mem |-> h.mem, disk |-> h.disk, ghost |-> h.ghost]
  BY <1>12
<1>14. Alarms(h, m, d, g, r, types, fired, throws)
  <2>1. h.mem.samples = samples
    BY <1>9, <1>13
  <2>2. types = IF config.alerting THEN Analyze(h.mem.samples, Sample(r)) ELSE <<>>
    BY <2>1 DEF types
  <2>3. fired = Fired(m.dedup, d.alerts, types, now, boot, throws)
    BY DEF fired
  <2>4. h.mem.dedup = fired.dedup /\ h.disk.alerts = fired.alerts
    BY <1>4, <1>5, <1>9, <1>10, <1>13
  <2>5. h.ghost.handled = Append(g.handled, Notes(r))
    BY <1>11, <1>13 DEF handled
  <2>6. h.ghost.failed = failed
    BY <1>11, <1>13
  <2> QED BY <2>1, <2>2, <2>3, <2>4, <2>5, <2>6 DEF Alarms, samples, failed
<1>15. Effect(h, m, d, g, r, f, x)
  BY <1>0, <1>9, <1>10, <1>11, <1>13 DEF Effect, Shape, buffer, history, episodes, books,
                                        agents, routing, handled, told, since
<1>21. throws = ("alerts" \in x.lost)
  BY <1>0 DEF throws
<1> QED BY <1>14, <1>15, <1>21

LEMMA NoAgents == AgentsOk(<<>>, Empty)
<1>1. <<>> \in Seq(Record)
  OBVIOUS
<1>2. \A S : Keep(<<>>, S) = <<>>
  BY KeepEmpty
<1>3. DOMAIN Empty = {} /\ Empty = [k \in DOMAIN Empty |-> Empty[k]]
  BY DEF Empty
<1>4. \A a : AgentOf(Empty, a, TookBy("agents", <<>>, OfAgent(a)))
  BY <1>2, <1>3 DEF AgentOf, TookBy
<1> QED BY <1>1, <1>3, <1>4 DEF AgentsOk

LEMMA HandledKeeps ==
  ASSUME NEW m, NEW d, NEW g, NEW w, IsWorld(w, m, d, g),
         NEW r \in Requests, NEW fl, boot \in Nat,
         Between(m, d, g, {r}, fl, now, boot, config.logging),
         NEW f, f.completed = fl[r].completed, f.success = fl[r].success,
         NEW failing \in SUBSET Sinks, NEW h, HandledIs(h, w, r, f, failing)
  PROVE  Between(h.mem, h.disk, h.ghost, {}, fl, now, boot, config.logging)
<1>1. PICK logging : logging = config.logging
  OBVIOUS
<1>2. PICK queue : queue = m.queue
  OBVIOUS
<1>3. PICK told : told = g.told
  OBVIOUS
<1>4. PICK log : log = h.ghost.told
  OBVIOUS
<1>8. PICK x : x = FinalOf(r, f, failing)
  OBVIOUS
<1>5. /\ Shape(m, d, g) /\ FlowOk(fl, now) /\ QueueOk(queue, m.busy, {r}, fl, now)
      /\ LogOk(told, g.handled, queue, {r}, fl, boot)
      /\ TimesOk(told, now) /\ LinesOk(told, d.routing, d.traces, d.episodes)
      /\ SessionsOk(told, d.sessions) /\ AgentsOk(g.since, d.agents)
      /\ BufferOk(m.buffer, g.captured, told, queue, {r}, fl, logging)
      /\ HistoryOk(d.history, g.captured, told, now)
  BY <1>1, <1>2, <1>3 DEF Between
<1>6. /\ Shape(h.mem, h.disk, h.ghost)
      /\ h.mem.queue = queue /\ h.mem.busy = m.busy
      /\ h.mem.buffer = IF logging THEN Taken(m.buffer, r) ELSE m.buffer
      /\ h.disk.history = IF "history" \in x.lost THEN d.history
                          ELSE Append(d.history, EntryOf(m.buffer, r, f, logging))
      /\ h.disk.sessions = IF "sessions" \in x.lost THEN d.sessions
                           ELSE SessionUpsert(d.sessions, r, f)
      /\ h.disk.agents = AgentsFile(d.agents, r, f, x.lost)
      /\ h.disk.traces = d.traces
      /\ h.disk.routing = IF "routing" \in x.lost THEN d.routing
                          ELSE Append(d.routing, RoutingRecord(x))
      /\ h.disk.episodes = IF "mesh" \in x.lost THEN d.episodes ELSE Append(d.episodes, r)
      /\ h.ghost.captured = g.captured
      /\ h.ghost.handled = Append(g.handled, Notes(r))
      /\ log = Append(told, x)
      /\ h.ghost.since = IF Tears(r, x.lost) THEN <<>> ELSE Append(g.since, x)
  <2>1. Effect(h, m, d, g, r, f, x)
    BY <1>5, <1>8, HandledFields
  <2> QED BY <1>1, <1>2, <1>3, <1>4, <2>1 DEF Effect
<1>7. PICK at : at = f.completed
  OBVIOUS
<1>9. /\ at \in Nat /\ at <= now /\ now \in Nat /\ fl[r].completed = at
      /\ fl[r].success \in BOOLEAN
  BY <1>5, <1>7 DEF FlowOk
<1>10. IsFinal(x, r, at) /\ Grown(log, told, x)
  <2>1. x = [id |-> r, at |-> at, final |-> TRUE, lost |-> Lost(failing)]
    BY <1>7, <1>8 DEF FinalOf, Event
  <2>2. Lost(failing) \in SUBSET Sinks
    BY DEF Lost, Sinks
  <2>3. PICK lost \in SUBSET Sinks : lost = Lost(failing)
    BY <2>2
  <2>4. x = [id |-> r, at |-> at, final |-> TRUE, lost |-> lost]
    BY <2>1, <2>3
  <2>5. x \in Record /\ x.id = r /\ x.at = at /\ x.final = TRUE
    BY <1>9, <2>4 DEF Record
  <2> QED BY <1>6, <2>5 DEF IsFinal, Grown
<1>20. x \in Record /\ x.id = r /\ x.at = at /\ x.final = TRUE
  BY <1>10 DEF IsFinal
<1>11. told \in Seq(Record)
  BY <1>5 DEF LogOk
<1>12. Gone(log) = Gone(told) \cup {r}
  BY <1>9, <1>10, <1>11, GrowFinal
<1>13. /\ r \notin Range(queue) /\ fl[r].pc = "done"
       /\ at = now \/ Attr[r].stream
  BY <1>5, <1>9 DEF QueueOk, Waiting
<1>14. r \notin Gone(told)
  BY <1>5 DEF LogOk, Waiting
<1>15. QueueOk(queue, m.busy, {}, fl, now)
  BY <1>5 DEF QueueOk, Waiting
<1>16. LogOk(log, h.ghost.handled, queue, {}, fl, boot)
  <2>1. now \in Nat /\ IsHandled(Notes(r), r)
    BY <1>9 DEF IsHandled, Handling, Notes
  <2>2. Grown(h.ghost.handled, g.handled, Notes(r))
    BY <1>6 DEF Grown
  <2>4. fl[r].completed \in Nat /\ IsFinal(x, r, fl[r].completed)
    BY <1>9, <1>10
  <2> QED BY <1>5, <1>10, <1>13, <2>1, <2>2, <2>4, LogGrows
<1>21. TimesOk(log, now) /\ LinesOk(log, h.disk.routing, h.disk.traces, h.disk.episodes)
  <2>1. TimesOk(log, now)
    BY <1>5, <1>9, <1>10, <1>11, <1>13, <1>20, TimesGrow
  <2>2. LinesOk(log,
                IF "routing" \in x.lost THEN d.routing ELSE Append(d.routing, RoutingRecord(x)),
                IF x.final \/ "traces" \in x.lost THEN d.traces ELSE Append(d.traces, x.id),
                IF x.final /\ "mesh" \notin x.lost THEN Append(d.episodes, x.id)
                ELSE d.episodes)
    BY <1>5, <1>10, <1>11, <1>20, LinesGrow
  <2> QED BY <1>6, <1>20, <2>1, <2>2
<1>17. SessionsOk(log, h.disk.sessions) /\ AgentsOk(h.ghost.since, h.disk.agents)
  <2>1. f.completed \in Nat /\ IsFinal(x, r, f.completed)
    BY <1>7, <1>9, <1>10
  <2>2. SessionsOk(log, h.disk.sessions)
    BY <1>5, <1>6, <1>10, <1>11, <2>1, SessionsGrow
  <2>3. CASE Tears(r, x.lost)
    <3>1. h.ghost.since = <<>> /\ h.disk.agents = Empty
      BY <1>6, <2>3 DEF AgentsFile
    <3> QED BY <2>2, <3>1, NoAgents
  <2>4. CASE ~ Tears(r, x.lost)
    <3>1. Grown(h.ghost.since, g.since, x)
      BY <1>6, <2>4 DEF Grown
    <3>2. h.disk.agents = IF "agents" \in x.lost THEN d.agents ELSE AgentUpsert(d.agents, r, f)
      BY <1>6, <2>4 DEF AgentsFile
    <3> QED BY <1>5, <2>1, <2>2, <3>1, <3>2, AgentsGrow
  <2> QED BY <2>3, <2>4
<1>18. BufferOk(h.mem.buffer, g.captured, log, queue, {}, fl, logging)
  BY <1>5, <1>6, <1>12, Takes
<1>19. HistoryOk(h.disk.history, g.captured, log, now)
  <2>1. PICK c : c = IF logging THEN ContentOf(m.buffer, r) ELSE NoContent
    OBVIOUS
  <2>2. PICK e : e = EntryOf(m.buffer, r, f, logging)
    OBVIOUS
  <2>3. PICK s : s = f.success
    OBVIOUS
  <2>4. e = [id |-> r, at |-> at, success |-> s, content |-> c]
    BY <1>7, <2>1, <2>2, <2>3 DEF EntryOf, Entry
  <2>5. s \in BOOLEAN /\ s = fl[r].success
    BY <1>9, <2>3
  <2>6. m.buffer \in Seq(Requests) /\ \A i \in DOMAIN m.buffer : fl[m.buffer[i]].success
    BY <1>5 DEF BufferOk
  <2>7. c \in {r, NoContent}
    BY <2>1 DEF ContentOf
  <2>8. r # NoContent
    BY ObserversAssumption DEF Requests
  <2>9. c # NoContent => c = r /\ s
    <3> SUFFICES ASSUME c # NoContent PROVE c = r /\ s
      OBVIOUS
    <3>1. Contains(m.buffer, r)
      BY <2>1 DEF ContentOf
    <3>2. PICK i \in 1..Len(m.buffer) : m.buffer[i] = r
      BY <3>1 DEF Contains
    <3>3. fl[r].success
      BY <2>6, <3>2
    <3> QED BY <2>5, <2>7, <3>3
  <2>10. c = NoContent => (~ logging \/ r \notin Range(m.buffer))
    <3> SUFFICES ASSUME c = NoContent, logging, r \in Range(m.buffer) PROVE FALSE
      OBVIOUS
    <3>1. Contains(m.buffer, r)
      BY <2>6 DEF Contains, Range
    <3> QED BY <2>1, <2>8, <3>1 DEF ContentOf
  <2>11. \A j \in DOMAIN g.captured :
           g.captured[j] = r /\ c = NoContent => Len(g.captured) - j >= MaxEntries
    <3> SUFFICES ASSUME NEW j \in DOMAIN g.captured, g.captured[j] = r, c = NoContent
                 PROVE  Len(g.captured) - j >= MaxEntries
      OBVIOUS
    <3>1. \/ g.captured[j] \in Range(m.buffer) \cup Gone(told)
          \/ Len(g.captured) - j >= MaxEntries
      BY <1>5 DEF BufferOk
    <3>2. CASE ~ logging
      <4>1. g.captured = <<>>
        BY <1>5, <3>2 DEF BufferOk
      <4>2. DOMAIN g.captured = {}
        BY <4>1
      <4> QED BY <4>2
    <3>3. CASE logging
      BY <1>14, <2>10, <3>1, <3>3
    <3> QED BY <3>2, <3>3
  <2>12. Honest(e, r, g.captured, now)
    <3>1. e \in Line
      BY <1>9, <2>4, <2>5, <2>7 DEF Line
    <3>2. e.id = r /\ e.at = at /\ e.success = s /\ e.content = c
      BY <2>4
    <3> QED BY <1>9, <1>13, <2>9, <2>11, <3>1, <3>2 DEF Honest
  <2>13. h.disk.history = d.history \/ Grown(h.disk.history, d.history, e)
    BY <1>6, <2>2 DEF Grown
  <2> QED BY <1>5, <1>9, <1>12, <1>14, <2>12, <2>13, HistoryGrows
<1> QED BY <1>1, <1>4, <1>5, <1>6, <1>15, <1>16, <1>17, <1>18, <1>19, <1>21 DEF Between
------------------------------------------------------------------------------
(* The queue changes, and the same events are waiting.                     *)
LEMMA Requeue ==
  ASSUME NEW m, NEW d, NEW g, NEW P, NEW fl, NEW clock, NEW runs, NEW logging,
         Between(m, d, g, P, fl, clock, runs, logging),
         NEW n, n = [x \in MemFields |-> n[x]], n.buffer = m.buffer,
         NEW Q, QueueOk(n.queue, n.busy, Q, fl, clock),
         Waiting(n.queue, Q) = Waiting(m.queue, P)
  PROVE  Between(n, d, g, Q, fl, clock, runs, logging)
<1>1. PICK queue : queue = m.queue
  OBVIOUS
<1>2. PICK rest : rest = n.queue
  OBVIOUS
<1>3. Waiting(rest, Q) = Waiting(queue, P)
  BY <1>1, <1>2
<1>4. LogOk(g.told, g.handled, rest, Q, fl, runs)
  <2>1. LogOk(g.told, g.handled, queue, P, fl, runs)
    BY <1>1 DEF Between
  <2> QED BY <1>3, <2>1 DEF LogOk
<1>5. BufferOk(n.buffer, g.captured, g.told, rest, Q, fl, logging)
  <2>1. BufferOk(m.buffer, g.captured, g.told, queue, P, fl, logging)
    BY <1>1 DEF Between
  <2> QED BY <1>3, <2>1 DEF BufferOk
<1>6. Shape(n, d, g)
  BY DEF Between, Shape
<1>7. /\ FlowOk(fl, clock) /\ SessionsOk(g.told, d.sessions)
      /\ TimesOk(g.told, clock) /\ LinesOk(g.told, d.routing, d.traces, d.episodes)
      /\ AgentsOk(g.since, d.agents) /\ HistoryOk(d.history, g.captured, g.told, clock)
  BY DEF Between
<1>8. QueueOk(rest, n.busy, Q, fl, clock)
  BY <1>2
<1> QED BY <1>2, <1>4, <1>5, <1>6, <1>7, <1>8 DEF Between

LEMMA EmittedKeeps ==
  ASSUME NEW m, NEW d, NEW g, NEW w, IsWorld(w, m, d, g),
         NEW r \in Requests, NEW fl, boot \in Nat,
         Between(m, d, g, {r}, fl, now, boot, config.logging),
         NEW f, f.completed = fl[r].completed, f.success = fl[r].success,
         NEW failing \in SUBSET Sinks, NEW h, h = Emitted(w, r, f, failing)
  PROVE  Between(h.mem, h.disk, h.ghost, {}, fl, now, boot, config.logging)
<1>1. w = [mem |-> m, disk |-> d, ghost |-> g] /\ w.mem = m
  BY DEF IsWorld
<1>2. m = [x \in MemFields |-> m[x]]
  BY DEF Between, Shape
<1>3. PICK queue : queue = m.queue
  OBVIOUS
<1>4. QueueOk(queue, m.busy, {r}, fl, now)
  BY <1>3 DEF Between
<1>5. CASE m.busy
  <2>1. PICK n : n = [m EXCEPT !.queue = Append(queue, r)]
    OBVIOUS
  <2>2. n = [x \in MemFields |-> n[x]] /\ n.buffer = m.buffer /\ n.busy = m.busy
    BY <1>2, <2>1 DEF MemFields
  <2>3. n.queue = Append(queue, r)
    BY <1>2, <2>1 DEF MemFields
  <2>4. h = [w EXCEPT !.mem = n]
    BY <1>1, <1>3, <1>5, <2>1 DEF Emitted
  <2>5. h.mem = n /\ h.disk = d /\ h.ghost = g
    BY <1>1, <2>4
  <2>6. queue \in Seq(Requests) /\ IsInjective(queue) /\ r \notin Range(queue)
    BY <1>4 DEF QueueOk
  <2>7. PICK more : Grown(more, queue, r)
    BY DEF Grown
  <2>8. more \in Seq(Requests) /\ Range(more) = Range(queue) \cup {r} /\ IsInjective(more)
    <3>1. IsInjective(more)
      BY <2>6, <2>7, StillDistinct
    <3> QED BY <2>6, <2>7, <3>1, Appended
  <2>9. Waiting(more, {}) = Waiting(queue, {r})
    BY <2>8 DEF Waiting
  <2>10. QueueOk(more, n.busy, {}, fl, now)
    <3>1. \A q \in Waiting(queue, {r}) :
            fl[q].pc = "done" /\ (Attr[q].stream \/ fl[q].completed = now)
      BY <1>4 DEF QueueOk
    <3> QED BY <1>5, <2>2, <2>8, <2>9, <3>1 DEF QueueOk
  <2>11. n.queue = more
    BY <2>3, <2>7 DEF Grown
  <2>12. Between(n, d, g, {}, fl, now, boot, config.logging)
    BY <1>3, <2>2, <2>9, <2>10, <2>11, Requeue
  <2> QED BY <2>5, <2>12
<1>6. CASE ~ m.busy
  <2>1. PICK n : n = [m EXCEPT !.busy = TRUE]
    OBVIOUS
  <2>2. n = [x \in MemFields |-> n[x]] /\ n.buffer = m.buffer /\ n.queue = queue /\ n.busy
    BY <1>2, <1>3, <2>1 DEF MemFields
  <2>3. QueueOk(n.queue, n.busy, {r}, fl, now)
    BY <1>4, <2>2 DEF QueueOk
  <2>4. Waiting(n.queue, {r}) = Waiting(m.queue, {r})
    BY <1>3, <2>2
  <2>5. Between(n, d, g, {r}, fl, now, boot, config.logging)
    BY <2>2, <2>3, <2>4, Requeue
  <2>6. PICK v : v = [w EXCEPT !.mem = n]
    OBVIOUS
  <2>7. IsWorld(v, n, d, g)
    BY <1>1, <2>6 DEF IsWorld
  <2>8. HandledIs(h, v, r, f, failing)
    BY <1>1, <1>6, <2>1, <2>6 DEF Emitted, HandledIs
  <2> QED BY <2>5, <2>7, <2>8, HandledKeeps
<1> QED BY <1>5, <1>6

LEMMA CapturedKeeps ==
  ASSUME NEW m, NEW d, NEW g, NEW w, IsWorld(w, m, d, g),
         NEW r \in Requests, NEW fl,
         Between(m, d, g, {r}, fl, now, boot, config.logging),
         r \notin Range(m.buffer), r \notin Range(g.captured), fl[r].success,
         NEW c, c = Captured(w, r)
  PROVE  /\ IsWorld(c, c.mem, c.disk, c.ghost)
         /\ Between(c.mem, c.disk, c.ghost, {r}, fl, now, boot, config.logging)
<1>1. w = [mem |-> m, disk |-> d, ghost |-> g] /\ w.mem = m /\ w.disk = d /\ w.ghost = g
  BY DEF IsWorld
<1>2. CASE ~ config.logging
  <2>1. c = w
    BY <1>2 DEF Captured
  <2>2. c.mem = m /\ c.disk = d /\ c.ghost = g
    BY <1>1, <2>1
  <2> QED BY <1>1, <2>1, <2>2 DEF IsWorld
<1>3. CASE config.logging
  <2>1. PICK n : n = [m EXCEPT !.buffer = Recorded(m.buffer, r)]
    OBVIOUS
  <2>2. PICK k : k = [g EXCEPT !.captured = Append(g.captured, r)]
    OBVIOUS
  <2>3. c = [mem |-> n, disk |-> d, ghost |-> k]
    BY <1>1, <1>3, <2>1, <2>2 DEF Captured
  <2>4. c.mem = n /\ c.disk = d /\ c.ghost = k /\ IsWorld(c, c.mem, c.disk, c.ghost)
    BY <2>3 DEF IsWorld
  <2>5. m = [x \in MemFields |-> m[x]] /\ g = [x \in GhostFields |-> g[x]]
    BY DEF Between, Shape
  <2>6. /\ n = [x \in MemFields |-> n[x]] /\ n.buffer = Recorded(m.buffer, r)
        /\ n.queue = m.queue /\ n.busy = m.busy
    BY <2>1, <2>5 DEF MemFields
  <2>7. /\ k = [x \in GhostFields |-> k[x]] /\ Grown(k.captured, g.captured, r)
        /\ k.handled = g.handled /\ k.told = g.told /\ k.since = g.since
    BY <2>2, <2>5 DEF GhostFields, Grown
  <2>8. PICK queue : queue = m.queue
    OBVIOUS
  <2>9. PICK logging : logging = config.logging
    OBVIOUS
  <2>10. /\ QueueOk(queue, m.busy, {r}, fl, now)
         /\ LogOk(g.told, g.handled, queue, {r}, fl, boot)
         /\ BufferOk(m.buffer, g.captured, g.told, queue, {r}, fl, logging)
         /\ HistoryOk(d.history, g.captured, g.told, now)
    BY <2>8, <2>9 DEF Between
  <2>11. r \in Waiting(queue, {r})
    BY DEF Waiting
  <2>12. fl[r].pc = "done"
    BY <2>10, <2>11 DEF QueueOk
  <2>13. r \notin Gone(g.told)
    BY <2>10, <2>11 DEF LogOk
  <2>14. BufferOk(Recorded(m.buffer, r), k.captured, g.told, queue, {r}, fl, logging)
    <3>1. logging
      BY <1>3, <2>9
    <3>2. r \in {r}
      OBVIOUS
    <3> QED BY <2>7, <2>10, <2>12, <3>1, <3>2, Captures
  <2>15. HistoryOk(d.history, k.captured, g.told, now)
    <3>1. g.captured \in Seq(Requests)
      BY <2>10 DEF BufferOk
    <3> QED BY <2>7, <2>10, <2>13, <3>1, HistoryCaptured
  <2>16. Shape(n, d, k)
    BY <2>6, <2>7 DEF Between, Shape
  <2>17. /\ FlowOk(fl, now) /\ SessionsOk(g.told, d.sessions) /\ AgentsOk(g.since, d.agents)
         /\ TimesOk(g.told, now) /\ LinesOk(g.told, d.routing, d.traces, d.episodes)
    BY DEF Between
  <2>18. Between(n, d, k, {r}, fl, now, boot, config.logging)
    BY <2>6, <2>7, <2>8, <2>9, <2>10, <2>14, <2>15, <2>16, <2>17 DEF Between
  <2> QED BY <2>4, <2>18
<1> QED BY <1>2, <1>3
------------------------------------------------------------------------------
(* What a prune keeps: p says where in the file the kept entries were.     *)
Prune(kept, history, clock, p) ==
  /\ kept \in Seq(Line) /\ Len(kept) <= MaxEntries
  /\ p \in [1..Len(kept) -> 1..Len(history)]
  /\ \A i \in 1..Len(kept) : kept[i] = history[p[i]] /\ kept[i].at >= clock - Retention
  /\ \A i, j \in 1..Len(kept) : i < j => p[i] < p[j]
  /\ \A m \in 1..Len(history) :
       history[m].at >= clock - Retention =>
         \/ \E i \in 1..Len(kept) : p[i] = m
         \/ Len(kept) = MaxEntries /\ \A i \in 1..Len(kept) : m < p[i]

LEMMA PruneSays ==
  ASSUME NEW history \in Seq(Line), NEW clock \in Nat
  PROVE  \E p : Prune(Pruned(history, clock), history, clock, p)
<1>1. PICK S : S = {e \in ToSet(history) : e.at >= clock - Retention}
  OBVIOUS
<1>2. PICK within : within = Keep(history, S)
  OBVIOUS
<1>3. within = Within(history, clock)
  BY <1>1, <1>2 DEF Within
<1>4. within \in Seq(Line)
  BY <1>2, KeepSays
<1>5. PICK q : Subsequence(within, history, S, q)
  BY <1>2, KeepSays
<1>6. /\ q \in [1..Len(within) -> 1..Len(history)]
      /\ \A i \in 1..Len(within) : within[i] = history[q[i]] /\ within[i] \in S
      /\ \A i, j \in 1..Len(within) : i < j => q[i] < q[j]
      /\ \A m \in 1..Len(history) : history[m] \in S => \E i \in 1..Len(within) : q[i] = m
  BY <1>5 DEF Subsequence
<1>7. \A i \in 1..Len(within) : within[i].at >= clock - Retention
  BY <1>1, <1>6
<1>8. \A m \in 1..Len(history) : history[m].at >= clock - Retention => history[m] \in S
  BY <1>1 DEF ToSet
<1>9. MaxEntries \in Nat \ {0} /\ Len(within) \in Nat
  BY <1>4, ContentAssumption
<1>10. CASE ~ (Len(within) > MaxEntries)
  <2>1. Pruned(history, clock) = within
    BY <1>3, <1>10 DEF Pruned
  <2>2. Prune(within, history, clock, q)
    BY <1>4, <1>6, <1>7, <1>8, <1>9, <1>10 DEF Prune
  <2> QED BY <2>1, <2>2
<1>11. CASE Len(within) > MaxEntries
  <2>1. PICK o : o = Len(within) - MaxEntries
    OBVIOUS
  <2>2. PICK kept : kept = SubSeq(within, o + 1, Len(within))
    OBVIOUS
  <2>3. Pruned(history, clock) = kept
    <3>1. o + 1 = Len(within) - MaxEntries + 1
      BY <1>9, <2>1
    <3> QED BY <1>3, <1>11, <2>2, <3>1 DEF Pruned
  <2>4. o \in Nat /\ o >= 1 /\ o + MaxEntries = Len(within)
    BY <1>9, <1>11, <2>1
  <2>5. kept \in Seq(Line) /\ Len(kept) = MaxEntries
    BY <1>4, <1>9, <2>2, <2>4
  <2>6. \A i \in 1..MaxEntries : kept[i] = within[i + o] /\ i + o \in 1..Len(within)
    <3>1. \A i \in 1..MaxEntries : i + o \in 1..Len(within)
      BY <1>9, <2>4
    <3>2. \A i \in 1..MaxEntries : kept[i] = within[(o + 1) + i - 1]
      BY <1>4, <1>9, <2>2, <2>4
    <3>3. \A i \in 1..MaxEntries : (o + 1) + i - 1 = i + o
      BY <1>9, <2>4
    <3> QED BY <3>1, <3>2, <3>3
  <2> DEFINE p == [i \in 1..MaxEntries |-> q[i + o]]
  <2>7. p \in [1..MaxEntries -> 1..Len(history)]
    BY <1>6, <2>6
  <2>8. \A i \in 1..MaxEntries : p[i] = q[i + o]
    OBVIOUS
  <2> HIDE DEF p
  <2>9. \A i \in 1..MaxEntries : kept[i] = history[p[i]] /\ kept[i].at >= clock - Retention
    BY SMTT(30), <1>6, <1>7, <2>6, <2>8
  <2>10. \A i, j \in 1..MaxEntries : i < j => p[i] < p[j]
    <3> SUFFICES ASSUME NEW i \in 1..MaxEntries, NEW j \in 1..MaxEntries, i < j
                 PROVE  p[i] < p[j]
      OBVIOUS
    <3>1. i + o < j + o
      BY <1>9, <2>4
    <3> QED BY <1>6, <2>6, <2>8, <3>1
  <2>11. \A m \in 1..Len(history) :
           history[m].at >= clock - Retention =>
             (\E i \in 1..MaxEntries : p[i] = m) \/ \A i \in 1..MaxEntries : m < p[i]
    <3> SUFFICES ASSUME NEW m \in 1..Len(history), history[m].at >= clock - Retention
                 PROVE  (\E i \in 1..MaxEntries : p[i] = m) \/ \A i \in 1..MaxEntries : m < p[i]
      OBVIOUS
    <3>1. PICK j \in 1..Len(within) : q[j] = m
      BY <1>6, <1>8
    <3>2. CASE j > o
      <4>1. j - o \in 1..MaxEntries /\ (j - o) + o = j
        BY <1>9, <2>4, <3>2
      <4>2. p[j - o] = m
        BY <2>8, <3>1, <4>1
      <4> QED BY <4>1, <4>2
    <3>3. CASE ~ (j > o)
      <4> SUFFICES ASSUME NEW i \in 1..MaxEntries PROVE m < p[i]
        OBVIOUS
      <4>1. j < i + o
        BY <1>9, <2>4, <3>3
      <4> QED BY <1>6, <2>6, <2>8, <3>1, <4>1
    <3> QED BY <3>2, <3>3
  <2>12. Prune(kept, history, clock, p)
    BY <1>9, <2>5, <2>7, <2>9, <2>10, <2>11 DEF Prune
  <2> QED BY <2>3, <2>12
<1> QED BY <1>10, <1>11

LEMMA PruneKeeps ==
  ASSUME NEW history, NEW captured, NEW told, NEW clock \in Nat,
         HistoryOk(history, captured, told, clock)
  PROVE  HistoryOk(Pruned(history, clock), <<>>, told, clock)
<1>1. history \in Seq(Line)
  BY DEF HistoryOk
<1>2. PICK kept : kept = Pruned(history, clock)
  OBVIOUS
<1>3. PICK p : Prune(kept, history, clock, p)
  BY <1>1, <1>2, PruneSays
<1>4. /\ kept \in Seq(Line) /\ DOMAIN kept = 1..Len(kept) /\ Len(kept) \in Nat
      /\ p \in [1..Len(kept) -> 1..Len(history)]
      /\ \A i \in 1..Len(kept) : kept[i] = history[p[i]]
      /\ \A i, j \in 1..Len(kept) : i < j => p[i] < p[j]
  BY <1>3 DEF Prune
<1>5. DOMAIN history = 1..Len(history) /\ Len(history) \in Nat
  BY <1>1
<1>6. \A i \in DOMAIN history :
        /\ history[i].id \in Gone(told) /\ history[i].at <= clock
        /\ history[i].content # NoContent
             => history[i].content = history[i].id /\ history[i].success
  BY DEF HistoryOk
<1>7. \A i, j \in DOMAIN history :
        /\ history[i].id = history[j].id => i = j
        /\ i < j => history[i].at <= history[j].at \/ Attr[history[j].id].stream
  BY DEF HistoryOk
<1>8. \A i, j \in 1..Len(kept) : p[i] = p[j] => i = j
  <2> SUFFICES ASSUME NEW i \in 1..Len(kept), NEW j \in 1..Len(kept), p[i] = p[j], i # j
               PROVE  FALSE
    OBVIOUS
  <2>1. i < j \/ j < i
    BY <1>4
  <2>2. p[i] \in Nat /\ p[j] \in Nat
    BY <1>4, <1>5
  <2>3. p[i] < p[j] \/ p[j] < p[i]
    BY <1>4, <2>1
  <2> QED BY <2>2, <2>3
<1>9. \A i \in DOMAIN kept : p[i] \in DOMAIN history /\ kept[i] = history[p[i]]
  BY <1>4, <1>5
<1>10. \A i \in DOMAIN kept :
        /\ kept[i].id \in Gone(told) /\ kept[i].at <= clock
        /\ kept[i].content # NoContent => kept[i].content = kept[i].id /\ kept[i].success
  BY <1>6, <1>9
<1>11. \A i, j \in DOMAIN kept :
        /\ kept[i].id = kept[j].id => i = j
        /\ i < j => kept[i].at <= kept[j].at \/ Attr[kept[j].id].stream
  <2> SUFFICES ASSUME NEW i \in DOMAIN kept, NEW j \in DOMAIN kept
               PROVE  /\ kept[i].id = kept[j].id => i = j
                      /\ i < j => kept[i].at <= kept[j].at \/ Attr[kept[j].id].stream
    OBVIOUS
  <2>1. /\ p[i] \in DOMAIN history /\ p[j] \in DOMAIN history
        /\ kept[i] = history[p[i]] /\ kept[j] = history[p[j]]
    BY <1>9
  <2>2. (p[i] = p[j] => i = j) /\ (i < j => p[i] < p[j])
    BY <1>4, <1>8
  <2> QED BY <1>7, <2>1, <2>2
<1>12. DOMAIN <<>> = {}
  OBVIOUS
<1>13. PICK none : none = <<>>
  OBVIOUS
<1>14. HistoryOk(kept, none, told, clock)
  <2>1. DOMAIN none = {}
    BY <1>12, <1>13
  <2> QED BY <1>4, <1>10, <1>11, <2>1 DEF HistoryOk
<1> QED BY <1>2, <1>13, <1>14
------------------------------------------------------------------------------
(* A superseded attempt is told, and handled by no sink but two.           *)
LEMMA HopKeeps ==
  ASSUME NEW m, NEW d, NEW g, NEW fl, NEW clock, NEW runs, NEW logging, NEW r \in Requests,
         Between(m, d, g, {}, fl, clock, runs, logging),
         NEW at \in Nat, at <= clock, NEW x, IsHop(x, r, at),
         NEW e, e = [x_ \in DiskFields |-> e[x_]],
         e.traces = IF "traces" \in x.lost THEN d.traces ELSE Append(d.traces, r),
         e.routing = IF "routing" \in x.lost THEN d.routing
                     ELSE Append(d.routing, RoutingRecord(x)),
         e.history = d.history, e.episodes = d.episodes,
         e.sessions = d.sessions, e.agents = d.agents,
         NEW k, k = [x_ \in GhostFields |-> k[x_]],
         Grown(k.told, g.told, x), Grown(k.since, g.since, x),
         k.captured = g.captured, k.handled = g.handled
  PROVE  Between(m, e, k, {}, fl, clock, runs, logging)
<1>1. PICK told : told = g.told
  OBVIOUS
<1>2. PICK log : log = k.told
  OBVIOUS
<1>3. /\ LogOk(told, g.handled, m.queue, {}, fl, runs) /\ TimesOk(told, clock)
      /\ LinesOk(told, d.routing, d.traces, d.episodes)
      /\ SessionsOk(told, d.sessions) /\ AgentsOk(g.since, d.agents)
      /\ BufferOk(m.buffer, g.captured, told, m.queue, {}, fl, logging)
      /\ HistoryOk(d.history, g.captured, told, clock)
      /\ FlowOk(fl, clock) /\ QueueOk(m.queue, m.busy, {}, fl, clock)
  BY <1>1 DEF Between
<1>4. Shape(m, e, k)
  BY DEF Between, Shape
<1>5. told \in Seq(Record) /\ Grown(log, told, x) /\ g.since \in Seq(Record)
  BY <1>1, <1>2, <1>3 DEF LogOk, AgentsOk
<1>6. x \in Record /\ x.id = r /\ x.at = at /\ x.final = FALSE
  BY DEF IsHop
<1>7. /\ log \in Seq(Record) /\ FinalsOf(log, Requests) = FinalsOf(told, Requests)
      /\ Gone(log) = Gone(told)
  BY <1>5, GrowHop
<1>8. LogOk(log, k.handled, m.queue, {}, fl, runs)
  <2>1. LogOk(told, k.handled, m.queue, {}, fl, runs)
    BY <1>3
  <2>2. PICK finals : finals = FinalsOf(told, Requests)
    OBVIOUS
  <2>3. PICK gone : gone = Gone(told)
    OBVIOUS
  <2>4. FinalsOf(log, Requests) = finals /\ Gone(log) = gone
    BY <1>7, <2>2, <2>3
  <2>5. /\ IsFiniteSet(gone) /\ Cardinality(gone) = Len(finals)
        /\ \A i \in DOMAIN finals : finals[i].at = fl[finals[i].id].completed
        /\ \A q \in gone : fl[q].pc = "done" /\ q \notin Waiting(m.queue, {})
        /\ \A q \in Requests :
             fl[q].pc = "done" => q \in gone \cup Waiting(m.queue, {}) \/ runs > 1
        /\ \A i \in DOMAIN k.handled : k.handled[i].id \in gone
        /\ k.handled \in Seq(Handling)
    BY <2>1, <2>2, <2>3 DEF LogOk
  <2> QED BY <1>7, <2>4, <2>5 DEF LogOk
<1>9. TimesOk(log, clock)
  BY <1>3, <1>5, <1>6, TimesGrow
<1>10. LinesOk(log, e.routing, e.traces, d.episodes)
  <2>1. LinesOk(log,
                IF "routing" \in x.lost THEN d.routing ELSE Append(d.routing, RoutingRecord(x)),
                IF x.final \/ "traces" \in x.lost THEN d.traces ELSE Append(d.traces, x.id),
                IF x.final /\ "mesh" \notin x.lost THEN Append(d.episodes, x.id)
                ELSE d.episodes)
    BY <1>3, <1>5, <1>6, LinesGrow
  <2> QED BY <1>6, <2>1
<1>11. \A ids : TookBy("sessions", log, ids) = TookBy("sessions", told, ids)
  <2> TAKE ids
  <2>1. ~ Taking(x, "sessions", ids)
    BY <1>6 DEF Taking
  <2>2. x \in Record
    BY <1>6
  <2> QED BY <1>5, <2>1, <2>2, BookGrows
<1>12. SessionsOk(log, d.sessions)
  BY <1>3, <1>11 DEF SessionsOk
<1>13. AgentsOk(k.since, d.agents)
  <2>1. \A ids : TookBy("agents", k.since, ids) = TookBy("agents", g.since, ids)
    <3> TAKE ids
    <3>1. PICK log2 : log2 = k.since
      OBVIOUS
    <3>2. PICK since : since = g.since
      OBVIOUS
    <3>3. Grown(log2, since, x) /\ since \in Seq(Record)
      BY <1>5, <3>1, <3>2
    <3>4. TookBy("agents", log2, ids) = TookBy("agents", since, ids)
      <4>1. ~ Taking(x, "agents", ids)
        BY <1>6 DEF Taking
      <4>2. x \in Record
        BY <1>6
      <4> QED BY <3>3, <4>1, <4>2, BookGrows
    <3> QED BY <3>1, <3>2, <3>4
  <2>2. k.since \in Seq(Record)
    BY <1>5, <1>6, GrowKept
  <2> QED BY <1>3, <2>1, <2>2 DEF AgentsOk
<1>14. BufferOk(m.buffer, g.captured, log, m.queue, {}, fl, logging)
  BY <1>3, <1>7 DEF BufferOk
<1>15. HistoryOk(d.history, g.captured, log, clock)
  BY <1>3, <1>7 DEF HistoryOk
<1>16. /\ e.history = d.history /\ e.episodes = d.episodes
       /\ e.sessions = d.sessions /\ e.agents = d.agents /\ k.captured = g.captured
  OBVIOUS
<1> QED BY <1>2, <1>3, <1>4, <1>8, <1>9, <1>10, <1>12, <1>13, <1>14, <1>15, <1>16 DEF Between

(* The clock moves when nothing is waiting.                                *)
LEMMA TickKeeps ==
  ASSUME NEW m, NEW d, NEW g, NEW fl, NEW clock, NEW runs, NEW logging,
         Between(m, d, g, {}, fl, clock, runs, logging), ~ m.busy,
         NEW later, later = clock + 1
  PROVE  Between(m, d, g, {}, fl, later, runs, logging)
<1>1. FlowOk(fl, clock)
  BY DEF Between
<1>2. clock \in Nat /\ later \in Nat /\ clock <= later
  BY <1>1 DEF FlowOk
<1>3. \A t \in Nat : t <= clock => t <= later
  BY <1>2
<1>4. FlowOk(fl, later)
  BY <1>1, <1>2, <1>3 DEF FlowOk
<1>5. QueueOk(m.queue, m.busy, {}, fl, clock)
  BY DEF Between
<1>6. m.queue = <<>>
  BY <1>5 DEF QueueOk
<1>7. Waiting(m.queue, {}) = {}
  <2>1. DOMAIN m.queue = {}
    BY <1>6
  <2> QED BY <2>1 DEF Waiting, Range
<1>8. QueueOk(m.queue, m.busy, {}, fl, later)
  BY <1>5, <1>7 DEF QueueOk
<1>9. HistoryOk(d.history, g.captured, g.told, clock)
  BY DEF Between
<1>10. HistoryOk(d.history, g.captured, g.told, later)
  <2>1. d.history \in Seq(Line)
    BY <1>9 DEF HistoryOk
  <2>4. \A i \in DOMAIN d.history : d.history[i] \in Line
    BY <2>1
  <2>2. \A i \in DOMAIN d.history : d.history[i].at \in Nat
    BY <2>4 DEF Line
  <2>3. \A i \in DOMAIN d.history : d.history[i].at <= later
    BY <1>3, <1>9, <2>2 DEF HistoryOk
  <2> QED BY <1>9, <2>3 DEF HistoryOk
<1>11. TimesOk(g.told, later)
  <2>1. TimesOk(g.told, clock) /\ g.told \in Seq(Record)
    BY DEF Between, LogOk
  <2>2. \A i \in DOMAIN g.told : g.told[i] \in Record
    BY <2>1
  <2>3. \A i \in DOMAIN g.told : g.told[i].at \in Nat
    BY <2>2 DEF Record
  <2>4. \A i \in DOMAIN g.told : g.told[i].at <= later
    BY <1>3, <2>1, <2>3 DEF TimesOk
  <2> QED BY <2>1, <2>4 DEF TimesOk
<1> QED BY <1>4, <1>8, <1>10, <1>11 DEF Between

(* A process ends and the next one starts.                                 *)
Dropped(fl, next) ==
  next = [r \in Requests |->
            IF fl[r].pc \in {"open", "streaming"} THEN [fl[r] EXCEPT !.pc = "lost"]
            ELSE fl[r]]

LEMMA RestartKeeps ==
  ASSUME NEW m, NEW d, NEW g, NEW fl, NEW clock, NEW runs \in Nat \ {0}, NEW logging,
         Between(m, d, g, {}, fl, clock, runs, logging),
         NEW next, Dropped(fl, next), NEW e, e = [x_ \in DiskFields |-> e[x_]],
         e.history = Pruned(d.history, clock), e.traces = d.traces, e.routing = d.routing,
         e.episodes = d.episodes, e.sessions = d.sessions, e.agents = d.agents,
         NEW k, k = [NewGhost EXCEPT !.told = g.told, !.since = g.since],
         NEW fresh, NEW again, again = runs + 1
  PROVE  Between(NewMem, e, k, {}, next, clock, again, fresh)
<1>1. /\ FlowOk(fl, clock)
      /\ LogOk(g.told, g.handled, m.queue, {}, fl, runs) /\ TimesOk(g.told, clock)
      /\ LinesOk(g.told, d.routing, d.traces, d.episodes)
      /\ SessionsOk(g.told, d.sessions) /\ AgentsOk(g.since, d.agents)
      /\ HistoryOk(d.history, g.captured, g.told, clock)
  BY DEF Between
<1>2. PICK none : none = <<>>
  OBVIOUS
<1>3. /\ none \in Seq(Requests) /\ none \in Seq(Handling) /\ DOMAIN none = {} /\ Len(none) = 0
      /\ none = <<>>
  BY <1>2
<1>4. /\ NewMem.buffer = none /\ NewMem.queue = none /\ NewMem.busy = FALSE
      /\ k.captured = none /\ k.handled = none /\ k.told = g.told /\ k.since = g.since
  BY <1>2 DEF NewMem, NewGhost
<1>5. Shape(NewMem, e, k)
  <2>1. NewMem = [x_ \in MemFields |-> NewMem[x_]]
    BY DEF NewMem, MemFields
  <2>2. k = [x_ \in GhostFields |-> k[x_]]
    BY DEF NewGhost, GhostFields
  <2> QED BY <2>1, <2>2 DEF Shape
<1>6. clock \in Nat
  BY <1>1 DEF FlowOk
<1>7. \A q \in Requests :
        /\ next[q].completed = fl[q].completed /\ next[q].success = fl[q].success
        /\ next[q].started = fl[q].started
        /\ next[q].pc \in {"lost", fl[q].pc}
        /\ next[q] = [x_ \in FlowFields |-> next[q][x_]]
  <2> SUFFICES ASSUME NEW q \in Requests
               PROVE  /\ next[q].completed = fl[q].completed /\ next[q].success = fl[q].success
                      /\ next[q].started = fl[q].started
                      /\ next[q].pc \in {"lost", fl[q].pc}
                      /\ next[q] = [x_ \in FlowFields |-> next[q][x_]]
    OBVIOUS
  <2>1. fl[q] = [x_ \in FlowFields |-> fl[q][x_]]
    BY <1>1 DEF FlowOk
  <2>2. CASE fl[q].pc \in {"open", "streaming"}
    <3>1. PICK f : f = fl[q]
      OBVIOUS
    <3>2. PICK v : v = [f EXCEPT !.pc = "lost"]
      OBVIOUS
    <3>3. next[q] = v
      BY <2>2, <3>1, <3>2 DEF Dropped
    <3>4. f = [x_ \in FlowFields |-> f[x_]]
      BY <2>1, <3>1
    <3>5. /\ v = [x_ \in FlowFields |-> v[x_]] /\ v.pc = "lost"
          /\ v.completed = f.completed /\ v.success = f.success /\ v.started = f.started
      BY <3>2, <3>4 DEF FlowFields
    <3> QED BY <3>1, <3>3, <3>5
  <2>3. CASE fl[q].pc \notin {"open", "streaming"}
    <3>1. next[q] = fl[q]
      BY <2>3 DEF Dropped
    <3> QED BY <2>1, <3>1
  <2> QED BY <2>2, <2>3
<1>8. \A q \in Requests : fl[q].pc = "done" => next[q].pc = "done"
  BY DEF Dropped
<1>9. \A q \in Requests : next[q].pc # "streaming"
  BY <1>7 DEF Dropped
<1>10. FlowOk(next, clock)
  <2>1. next = [q \in Requests |-> next[q]]
    BY DEF Dropped
  <2> QED BY <1>1, <1>7, <1>9, <2>1 DEF FlowOk
<1>11. Waiting(none, {}) = {}
  BY <1>3 DEF Waiting, Range
<1>12. IsInjective(none) /\ Range(none) \cap {} = {}
  BY <1>3 DEF IsInjective
<1>13. QueueOk(none, FALSE, {}, next, clock)
  BY <1>3, <1>11, <1>12 DEF QueueOk
<1>14. PICK finals : finals = FinalsOf(g.told, Requests)
  OBVIOUS
<1>15. Gone(g.told) = {finals[i].id : i \in DOMAIN finals}
  BY <1>14 DEF Gone
<1>16. \A i \in DOMAIN finals : finals[i].id \in Requests
  <2>1. finals \in Seq(Record)
    BY <1>1, <1>14, KeptIsRecords DEF LogOk, FinalsOf
  <2>2. \A i \in DOMAIN finals : finals[i] \in Record
    BY <2>1
  <2> QED BY <2>2 DEF Record
<1>17. LogOk(g.told, none, none, {}, next, again)
  <2>1. \A i \in DOMAIN finals : finals[i].at = next[finals[i].id].completed
    <3>1. \A i \in DOMAIN finals : finals[i].at = fl[finals[i].id].completed
      BY <1>1, <1>14 DEF LogOk
    <3> QED BY <1>7, <1>16, <3>1
  <2>2. \A q \in Gone(g.told) : next[q].pc = "done" /\ q \notin Waiting(none, {})
    <3>1. \A q \in Gone(g.told) : q \in Requests /\ fl[q].pc = "done"
      BY <1>1, <1>15, <1>16 DEF LogOk
    <3> QED BY <1>8, <1>11, <3>1
  <2>3. again > 1
    OBVIOUS
  <2>4. \A i \in DOMAIN none : none[i].id \in Gone(g.told)
    BY <1>3
  <2> QED BY <1>1, <1>3, <1>14, <2>1, <2>2, <2>3, <2>4 DEF LogOk
<1>18. BufferOk(none, none, g.told, none, {}, next, fresh)
  <2>1. Len(none) <= MaxEntries
    BY <1>3, ContentAssumption
  <2> QED BY <1>3, <1>12, <2>1 DEF BufferOk
<1>19. HistoryOk(Pruned(d.history, clock), none, g.told, clock)
  BY <1>1, <1>2, <1>6, PruneKeeps
<1>20. /\ e.history = Pruned(d.history, clock) /\ e.traces = d.traces /\ e.routing = d.routing
       /\ e.episodes = d.episodes /\ e.sessions = d.sessions /\ e.agents = d.agents
  OBVIOUS
<1> QED BY <1>1, <1>4, <1>5, <1>10, <1>13, <1>17, <1>18, <1>19, <1>20 DEF Between
------------------------------------------------------------------------------
(* The invariant holds at first, and every step keeps it.                  *)
LEMMA InitKeeps == Init => IInv
<1> SUFFICES ASSUME Init PROVE IInv
  OBVIOUS
<1>1. /\ now = 0 /\ boot = 1 /\ flow = [r \in Requests |-> NoFlow]
      /\ mem = NewMem /\ disk = NewDisk /\ ghost = NewGhost
  BY DEF Init
<1>2. PICK none : none = <<>>
  OBVIOUS
<1>3. PICK logging : logging = config.logging
  OBVIOUS
<1>4. /\ none \in Seq(Requests) /\ none \in Seq(Handling) /\ none \in Seq(Record)
      /\ none \in Seq(Line) /\ DOMAIN none = {} /\ Len(none) = 0 /\ none = <<>>
  BY <1>2
<1>5. /\ mem.buffer = none /\ mem.queue = none /\ mem.busy = FALSE
      /\ ghost.captured = none /\ ghost.handled = none
      /\ ghost.told = none /\ ghost.since = none
      /\ disk.history = none /\ disk.traces = none /\ disk.routing = none
      /\ disk.episodes = none /\ disk.sessions = Empty /\ disk.agents = Empty
  BY <1>1, <1>2 DEF NewMem, NewGhost, NewDisk
<1>6. Shape(mem, disk, ghost)
  <2>1. mem = [x_ \in MemFields |-> mem[x_]]
    BY <1>1 DEF NewMem, MemFields
  <2>2. ghost = [x_ \in GhostFields |-> ghost[x_]]
    BY <1>1 DEF NewGhost, GhostFields
  <2>3. disk = [x_ \in DiskFields |-> disk[x_]]
    BY <1>1 DEF NewDisk, DiskFields
  <2> QED BY <2>1, <2>2, <2>3 DEF Shape
<1>7. FlowOk(flow, now)
  <2>1. \A r \in Requests : flow[r] = NoFlow
    BY <1>1
  <2>2. NoFlow = [x_ \in FlowFields |-> NoFlow[x_]]
    BY DEF NoFlow, FlowFields
  <2>3. NoFlow.started = 0 /\ NoFlow.completed = 0 /\ NoFlow.success = FALSE /\ NoFlow.pc = "new"
    BY DEF NoFlow
  <2>4. flow = [r \in Requests |-> flow[r]]
    BY <1>1
  <2> HIDE DEF NoFlow
  <2>5. \A r \in Requests :
          flow[r] = [x_ \in FlowFields |-> flow[r][x_]]
    BY <2>1, <2>2
  <2>6. \A r \in Requests :
          /\ flow[r].started = 0 /\ flow[r].completed = 0
          /\ flow[r].success = FALSE /\ flow[r].pc = "new"
    BY <2>1, <2>3
  <2>7. \A r \in Requests :
          /\ flow[r].started \in Nat /\ flow[r].completed \in Nat /\ flow[r].completed <= now
          /\ flow[r].success \in BOOLEAN
          /\ flow[r].pc = "streaming" => Attr[r].stream /\ flow[r].success
    <3> TAKE r \in Requests
    <3>1. flow[r].started = 0 /\ flow[r].completed = 0 /\ now = 0
      BY <1>1, <2>6
    <3>2. flow[r].success \in BOOLEAN
      BY <2>6
    <3>3. flow[r].pc # "streaming"
      BY <2>6
    <3>4. flow[r].started \in Nat /\ flow[r].completed \in Nat /\ flow[r].completed <= now
      BY <3>1
    <3> QED BY <3>2, <3>3, <3>4
  <2>8. now \in Nat
    BY <1>1
  <2> QED BY <2>4, <2>5, <2>7, <2>8 DEF FlowOk
<1>8. Waiting(none, {}) = {}
  BY <1>4 DEF Waiting, Range
<1>9. IsInjective(none) /\ Range(none) = {}
  BY <1>4 DEF IsInjective, Range
<1>10. QueueOk(none, FALSE, {}, flow, now)
  BY <1>4, <1>8, <1>9 DEF QueueOk
<1>11. \A ids : FinalsOf(none, ids) = none
  BY <1>2, KeepEmpty DEF FinalsOf
<1>12. \A S : Keep(none, S) = none
  BY <1>2, KeepEmpty
<1>13. Gone(none) = {}
  <2>1. PICK finals : finals = FinalsOf(none, Requests)
    OBVIOUS
  <2>2. DOMAIN finals = {}
    BY <1>4, <1>11, <2>1
  <2>3. {finals[i].id : i \in DOMAIN finals} = {}
    BY <2>2
  <2> QED BY <2>1, <2>3 DEF Gone
<1>14. LogOk(none, none, none, {}, flow, boot)
  <2>1. \A r \in Requests : flow[r].pc # "done"
    BY <1>1 DEF NoFlow
  <2>2. IsFiniteSet({}) /\ Cardinality({}) = 0
    BY FS_EmptySet
  <2>3. \A i \in DOMAIN none : none[i].id \in Gone(none) /\ none[i].at = flow[none[i].id].completed
    BY <1>4
  <2> QED BY <1>4, <1>11, <1>13, <2>1, <2>2, <2>3 DEF LogOk
<1>21. TimesOk(none, now)
  BY <1>4 DEF TimesOk
<1>22. LinesOk(none, none, none, none)
  <2>1. IdsOf(<<>>) = <<>> /\ LinesOf(<<>>) = <<>>
    BY DEF IdsOf, LinesOf
  <2> QED BY <1>2, <1>12, <2>1 DEF LinesOk, LoggedOf, TookBy
<1>15. DOMAIN Empty = {} /\ Empty = [k \in DOMAIN Empty |-> Empty[k]]
  BY DEF Empty
<1>16. SessionsOk(none, Empty)
  BY <1>2, <1>12, <1>15 DEF SessionsOk, RowOf, TookBy
<1>17. AgentsOk(none, Empty)
  BY <1>2, NoAgents
<1>18. BufferOk(none, none, none, none, {}, flow, logging)
  <2>1. Len(none) <= MaxEntries
    BY <1>4, ContentAssumption
  <2> QED BY <1>4, <1>9, <2>1 DEF BufferOk
<1>19. HistoryOk(none, none, none, now)
  BY <1>4 DEF HistoryOk
<1>20. Between(mem, disk, ghost, {}, flow, now, boot, config.logging)
  BY <1>3, <1>5, <1>6, <1>7, <1>10, <1>14, <1>16, <1>17, <1>18, <1>19, <1>21, <1>22 DEF Between
<1> QED BY <1>1, <1>20 DEF IInv

(* A request completes, perhaps with a content, and its event is emitted.  *)
LEMMA Completes ==
  ASSUME IInv, NEW r \in Requests, NEW next, Moves(flow, next, r), FlowOk(next, now),
         next[r].pc = "done", Attr[r].stream \/ next[r].completed = now,
         NEW f, f.completed = next[r].completed, f.success = next[r].success,
         NEW w, w = World \/ (w = Captured(World, r) /\ next[r].success),
         NEW failing \in SUBSET Sinks, NEW h, h = Emitted(w, r, f, failing)
  PROVE  Between(h.mem, h.disk, h.ghost, {}, next, now, boot, config.logging)
<1>1. Between(mem, disk, ghost, {}, flow, now, boot, config.logging) /\ boot \in Nat
  BY DEF IInv
<1>2. PICK P : P = IF next[r].pc = "done" THEN {r} ELSE {}
  OBVIOUS
<1>3. P = {r}
  BY <1>2
<1>4. /\ Between(mem, disk, ghost, {r}, next, now, boot, config.logging)
      /\ r \notin Range(mem.buffer) /\ r \notin Range(ghost.captured)
  <2>1. next[r].pc = "done" => Attr[r].stream \/ next[r].completed = now
    OBVIOUS
  <2>2. Moves(flow, next, r) /\ FlowOk(next, now)
    OBVIOUS
  <2>3. /\ Between(mem, disk, ghost, P, next, now, boot, config.logging)
        /\ r \notin Range(mem.buffer) /\ r \notin Range(ghost.captured)
    BY <1>1, <1>2, <2>1, <2>2, FlowMoves
  <2> QED BY <1>3, <2>3
<1>5. IsWorld(World, mem, disk, ghost)
  BY DEF IsWorld, World
<1>6. f.completed = next[r].completed /\ f.success = next[r].success
  OBVIOUS
<1>7. h = Emitted(w, r, f, failing)
  OBVIOUS
<1>8. CASE w = World
  <2>1. h = Emitted(World, r, f, failing)
    BY <1>7, <1>8
  <2> QED BY <1>1, <1>4, <1>5, <1>6, <2>1, EmittedKeeps
<1>9. CASE w = Captured(World, r) /\ next[r].success
  <2>1. /\ IsWorld(w, w.mem, w.disk, w.ghost)
        /\ Between(w.mem, w.disk, w.ghost, {r}, next, now, boot, config.logging)
    BY <1>4, <1>5, <1>9, CapturedKeeps
  <2> QED BY <1>1, <1>6, <1>7, <2>1, EmittedKeeps
<1> QED BY <1>8, <1>9

(* A request at v is as it may be.                                         *)
IsFlow(v, r, clock) ==
  /\ v = [x \in FlowFields |-> v[x]]
  /\ v.started \in Nat /\ v.completed \in Nat /\ v.completed <= clock
  /\ v.success \in BOOLEAN
  /\ v.pc = "streaming" => Attr[r].stream /\ v.success

Sets(next, fl, r, v) == next = [fl EXCEPT ![r] = v]

LEMMA FlowSet ==
  ASSUME NEW fl, NEW clock, FlowOk(fl, clock), NEW r \in Requests, fl[r].pc # "done",
         NEW v, IsFlow(v, r, clock), NEW next, Sets(next, fl, r, v)
  PROVE  FlowOk(next, clock) /\ Moves(fl, next, r) /\ next[r] = v
<1>1. fl = [q \in Requests |-> fl[q]]
  BY DEF FlowOk
<1>2. next = [q \in Requests |-> next[q]]
  BY <1>1 DEF Sets
<1>3. next[r] = v
  BY <1>1 DEF Sets
<1>4. \A q \in Requests : q # r => next[q] = fl[q]
  BY <1>1 DEF Sets
<1>5. \A q \in Requests : IsFlow(fl[q], q, clock)
  BY DEF FlowOk, IsFlow
<1>6. \A q \in Requests : IsFlow(next[q], q, clock)
  BY <1>3, <1>4, <1>5
<1>7. clock \in Nat
  BY DEF FlowOk
<1>8. FlowOk(next, clock)
  BY <1>2, <1>6, <1>7 DEF FlowOk, IsFlow
<1> QED BY <1>3, <1>4, <1>8 DEF Moves

LEMMA FlowRecord ==
  ASSUME NEW fl, NEW clock, FlowOk(fl, clock), NEW r \in Requests
  PROVE  /\ IsFlow(fl[r], r, clock)
         /\ clock \in Nat /\ fl = [q \in Requests |-> fl[q]]
BY DEF FlowOk, IsFlow

(* A step that moves a request and does nothing else.                      *)
LEMMA OnlyMoves ==
  ASSUME IInv, NEW r \in Requests, flow[r].pc # "done", NEW v, IsFlow(v, r, now),
         v.pc # "done", NEW next, Sets(next, flow, r, v)
  PROVE  Between(mem, disk, ghost, {}, next, now, boot, config.logging)
<1>1. Between(mem, disk, ghost, {}, flow, now, boot, config.logging) /\ FlowOk(flow, now)
  BY DEF IInv, Between
<1>2. flow[r].pc # "done" /\ IsFlow(v, r, now) /\ Sets(next, flow, r, v)
  OBVIOUS
<1>3. FlowOk(next, now) /\ Moves(flow, next, r) /\ next[r] = v
  BY <1>1, <1>2, FlowSet
<1>4. PICK P : P = IF next[r].pc = "done" THEN {r} ELSE {}
  OBVIOUS
<1>5. P = {} /\ (next[r].pc = "done" => Attr[r].stream \/ next[r].completed = now)
  BY <1>3, <1>4
<1>6. Between(mem, disk, ghost, P, next, now, boot, config.logging)
  BY <1>1, <1>3, <1>4, <1>5, FlowMoves
<1> QED BY <1>5, <1>6

LEMMA BeginKeeps ==
  ASSUME IInv, NEW r \in Requests, Begin(r)
  PROVE  IInv'
<1>1. FlowOk(flow, now) /\ boot \in Nat \ {0}
  BY DEF IInv, Between
<1>2. PICK f : f = flow[r]
  OBVIOUS
<1>3. PICK v : v = [f EXCEPT !.pc = "open", !.started = now]
  OBVIOUS
<1>4. PICK next : next = flow'
  OBVIOUS
<1>5. IsFlow(f, r, now) /\ now \in Nat
  BY <1>1, <1>2, FlowRecord
<1>6. IsFlow(v, r, now) /\ v.pc # "done"
  BY <1>3, <1>5 DEF IsFlow, FlowFields
<1>7. flow[r].pc # "done" /\ Sets(next, flow, r, v)
  BY <1>2, <1>3, <1>4 DEF Begin, Sets
<1>8. Between(mem, disk, ghost, {}, next, now, boot, config.logging)
  BY <1>6, <1>7, OnlyMoves
<1>9. UNCHANGED <<config, now, boot, mem, disk, ghost>>
  BY DEF Begin
<1> QED BY <1>1, <1>4, <1>8, <1>9 DEF IInv

LEMMA StartStreamKeeps ==
  ASSUME IInv, NEW r \in Requests, StartStream(r)
  PROVE  IInv'
<1>1. FlowOk(flow, now) /\ boot \in Nat \ {0}
  BY DEF IInv, Between
<1>2. PICK f : f = flow[r]
  OBVIOUS
<1>3. PICK v : v = [f EXCEPT !.pc = "streaming", !.completed = now, !.success = TRUE]
  OBVIOUS
<1>4. PICK next : next = flow'
  OBVIOUS
<1>5. IsFlow(f, r, now) /\ now \in Nat
  BY <1>1, <1>2, FlowRecord
<1>6. IsFlow(v, r, now) /\ v.pc # "done"
  <2>1. Attr[r].stream
    BY DEF StartStream
  <2>2. /\ v = [x \in FlowFields |-> v[x]] /\ v.started = f.started
        /\ v.pc = "streaming" /\ v.completed = now /\ v.success = TRUE
    BY <1>3, <1>5 DEF IsFlow, FlowFields
  <2>3. v.started \in Nat /\ v.completed \in Nat /\ v.completed <= now
    BY <1>5, <2>2 DEF IsFlow
  <2> QED BY <2>1, <2>2, <2>3 DEF IsFlow
<1>7. flow[r].pc # "done" /\ Sets(next, flow, r, v)
  BY <1>2, <1>3, <1>4 DEF StartStream, Sets
<1>8. Between(mem, disk, ghost, {}, next, now, boot, config.logging)
  BY <1>6, <1>7, OnlyMoves
<1>9. UNCHANGED <<config, now, boot, mem, disk, ghost>>
  BY DEF StartStream
<1> QED BY <1>1, <1>4, <1>8, <1>9 DEF IInv

LEMMA SupersedeKeeps ==
  ASSUME IInv, NEW r \in Requests, Supersede(r)
  PROVE  IInv'
<1>1. FlowOk(flow, now) /\ boot \in Nat \ {0}
  BY DEF IInv, Between
<1>2. PICK f : f = flow[r]
  OBVIOUS
<1>3. PICK v : v = [f EXCEPT !.superseded = f.superseded + 1]
  OBVIOUS
<1>4. PICK next : next = flow'
  OBVIOUS
<1>5. IsFlow(f, r, now) /\ now \in Nat /\ flow = [q \in Requests |-> flow[q]]
  BY <1>1, <1>2, FlowRecord
<1>6. /\ flow[r].pc = "open"
      /\ flow' = [flow EXCEPT ![r].superseded = @ + 1]
      /\ UNCHANGED <<config, now, boot, mem>>
  BY DEF Supersede
<1>7. IsFlow(v, r, now) /\ v.pc # "done"
  BY <1>2, <1>3, <1>5, <1>6 DEF IsFlow, FlowFields
<1>8. Sets(next, flow, r, v)
  BY <1>2, <1>3, <1>4, <1>6 DEF Sets
<1>9. flow[r].pc # "done"
  BY <1>6
<1>10. Between(mem, disk, ghost, {}, next, now, boot, config.logging)
  BY <1>7, <1>8, <1>9, OnlyMoves
<1>11. PICK d : d = disk
  OBVIOUS
<1>12. PICK e : e = disk'
  OBVIOUS
<1>13. PICK g : g = ghost
  OBVIOUS
<1>14. PICK k : k = ghost'
  OBVIOUS
<1>15. PICK at \in f.started..now, failing \in Faults[r] :
         LET x == Event(r, at, FALSE, failing \cap {"traces", "routing"})
         IN  /\ disk' = [disk EXCEPT
                           !.traces = IF "traces" \in x.lost THEN @ ELSE Append(@, r),
                           !.routing = IF "routing" \in x.lost THEN @
                                       ELSE Append(@, RoutingRecord(x))]
             /\ ghost' = Told(ghost, x, FALSE)
  BY <1>2 DEF Supersede
<1>16. PICK x : x = Event(r, at, FALSE, failing \cap {"traces", "routing"})
  OBVIOUS
<1>17. at \in Nat /\ at <= now
  BY <1>5, <1>15 DEF IsFlow
<1>18. IsHop(x, r, at)
  <2>1. PICK lost : lost = failing \cap {"traces", "routing"}
    OBVIOUS
  <2>2. lost \in SUBSET Sinks
    BY <2>1 DEF Sinks
  <2>3. x = [id |-> r, at |-> at, final |-> FALSE, lost |-> lost]
    BY <1>16, <2>1 DEF Event
  <2> QED BY <1>17, <2>2, <2>3 DEF IsHop, Record
<1>19. PICK traces : traces = IF "traces" \in x.lost THEN d.traces ELSE Append(d.traces, r)
  OBVIOUS
<1>20. PICK log : log = IF "routing" \in x.lost THEN d.routing
                        ELSE Append(d.routing, RoutingRecord(x))
  OBVIOUS
<1>21. e = [d EXCEPT !.traces = traces, !.routing = log] /\ k = Told(g, x, FALSE)
  BY <1>11, <1>12, <1>13, <1>14, <1>15, <1>16, <1>19, <1>20
<1>22. d = [x_ \in DiskFields |-> d[x_]] /\ g = [x_ \in GhostFields |-> g[x_]]
  BY <1>11, <1>13 DEF IInv, Between, Shape
<1>23. /\ e = [x_ \in DiskFields |-> e[x_]]
       /\ e.traces = traces /\ e.routing = log /\ e.history = d.history
       /\ e.episodes = d.episodes /\ e.sessions = d.sessions /\ e.agents = d.agents
  BY <1>21, <1>22 DEF DiskFields
<1>24. /\ k = [x_ \in GhostFields |-> k[x_]]
       /\ Grown(k.told, g.told, x) /\ Grown(k.since, g.since, x)
       /\ k.captured = g.captured /\ k.handled = g.handled
  BY <1>21, <1>22 DEF GhostFields, Told, Grown
<1>25. Between(mem, e, k, {}, next, now, boot, config.logging)
  <2>1. Between(mem, d, g, {}, next, now, boot, config.logging)
    BY <1>10, <1>11, <1>13
  <2> QED BY <1>17, <1>18, <1>19, <1>20, <1>23, <1>24, <2>1, HopKeeps
<1> QED BY <1>1, <1>4, <1>6, <1>12, <1>14, <1>25 DEF IInv

LEMMA EndStreamKeeps ==
  ASSUME IInv, NEW r \in Requests, EndStream(r)
  PROVE  IInv'
<1>1. FlowOk(flow, now) /\ boot \in Nat \ {0}
  BY DEF IInv, Between
<1>2. PICK f : f = flow[r]
  OBVIOUS
<1>3. PICK v : v = [f EXCEPT !.pc = "done"]
  OBVIOUS
<1>4. PICK next : next = flow'
  OBVIOUS
<1>5. /\ f.pc = "streaming"
      /\ flow' = [flow EXCEPT ![r].pc = "done"]
      /\ UNCHANGED <<config, now, boot>>
  BY <1>2 DEF EndStream
<1>6. IsFlow(f, r, now)
  BY <1>1, <1>2, FlowRecord
<1>7. f.success /\ f.success \in BOOLEAN /\ Attr[r].stream
  BY <1>5, <1>6 DEF IsFlow
<1>8. /\ v = [x_ \in FlowFields |-> v[x_]] /\ v.pc = "done"
      /\ v.completed = f.completed /\ v.success = f.success /\ v.started = f.started
  BY <1>3, <1>6 DEF IsFlow, FlowFields
<1>9. IsFlow(v, r, now)
  BY <1>6, <1>8 DEF IsFlow
<1>10. Sets(next, flow, r, v)
  BY <1>2, <1>3, <1>4, <1>5 DEF Sets
<1>11. flow[r].pc # "done"
  BY <1>2, <1>5
<1>12. FlowOk(next, now) /\ Moves(flow, next, r) /\ next[r] = v
  BY <1>1, <1>9, <1>10, <1>11, FlowSet
<1>13. /\ next[r].pc = "done" /\ (Attr[r].stream \/ next[r].completed = now)
       /\ f.completed = next[r].completed /\ f.success = next[r].success
       /\ next[r].success
  BY <1>7, <1>8, <1>12
<1>14. PICK assembled \in BOOLEAN, failing \in Faults[r] :
         SetWorld(Emitted(IF assembled THEN Captured(World, r) ELSE World,
                          r, flow[r], failing))
  BY DEF EndStream
<1>15. PICK w : w = IF assembled THEN Captured(World, r) ELSE World
  OBVIOUS
<1>16. PICK h : h = Emitted(w, r, f, failing)
  OBVIOUS
<1>17. mem' = h.mem /\ disk' = h.disk /\ ghost' = h.ghost
  BY <1>2, <1>14, <1>15, <1>16 DEF SetWorld
<1>18. w = World \/ (w = Captured(World, r) /\ next[r].success)
  BY <1>13, <1>15
<1>19. next[r].pc = "done" /\ (Attr[r].stream \/ next[r].completed = now)
  BY <1>7, <1>8, <1>12
<1>21. failing \in SUBSET Sinks
  BY ObserversAssumption DEF Requests
<1>20. Between(h.mem, h.disk, h.ghost, {}, next, now, boot, config.logging)
  BY <1>12, <1>13, <1>16, <1>18, <1>19, <1>21, Completes
<1> QED BY <1>1, <1>4, <1>5, <1>17, <1>20 DEF IInv

LEMMA AnswerWholeKeeps ==
  ASSUME IInv, NEW r \in Requests, AnswerWhole(r)
  PROVE  IInv'
<1>1. FlowOk(flow, now) /\ boot \in Nat \ {0}
  BY DEF IInv, Between
<1>2. PICK f : f = flow[r]
  OBVIOUS
<1>3. PICK next : next = flow'
  OBVIOUS
<1>4. PICK ok \in BOOLEAN, failing \in Faults[r] :
        /\ flow' = [flow EXCEPT ![r] = [@ EXCEPT !.pc = "done", !.completed = now,
                                                 !.success = ok]]
        /\ SetWorld(Emitted(IF ok THEN Captured(World, r) ELSE World,
                            r, flow'[r], failing))
  BY DEF AnswerWhole
<1>5. flow[r].pc = "open" /\ UNCHANGED <<config, now, boot>>
  BY DEF AnswerWhole
<1>6. PICK v : v = [f EXCEPT !.pc = "done", !.completed = now, !.success = ok]
  OBVIOUS
<1>7. IsFlow(f, r, now) /\ now \in Nat
  BY <1>1, <1>2, FlowRecord
<1>8. /\ v = [x_ \in FlowFields |-> v[x_]] /\ v.pc = "done"
      /\ v.completed = now /\ v.success = ok /\ v.started = f.started
  BY <1>6, <1>7 DEF IsFlow, FlowFields
<1>9. IsFlow(v, r, now)
  <2>1. v.started \in Nat /\ v.completed \in Nat /\ v.completed <= now
    BY <1>7, <1>8 DEF IsFlow
  <2> QED BY <1>8, <2>1 DEF IsFlow
<1>10. Sets(next, flow, r, v)
  BY <1>2, <1>3, <1>4, <1>6 DEF Sets
<1>11. flow[r].pc # "done"
  BY <1>5
<1>12. FlowOk(next, now) /\ Moves(flow, next, r) /\ next[r] = v
  BY <1>1, <1>9, <1>10, <1>11, FlowSet
<1>13. /\ next[r].pc = "done" /\ (Attr[r].stream \/ next[r].completed = now)
       /\ v.completed = next[r].completed /\ v.success = next[r].success
  BY <1>8, <1>12
<1>14. PICK w : w = IF ok THEN Captured(World, r) ELSE World
  OBVIOUS
<1>15. PICK h : h = Emitted(w, r, v, failing)
  OBVIOUS
<1>16. flow'[r] = v
  BY <1>3, <1>12
<1>17. mem' = h.mem /\ disk' = h.disk /\ ghost' = h.ghost
  BY <1>4, <1>14, <1>15, <1>16 DEF SetWorld
<1>18. w = World \/ (w = Captured(World, r) /\ next[r].success)
  BY <1>8, <1>12, <1>14
<1>20. failing \in SUBSET Sinks
  BY ObserversAssumption DEF Requests
<1>19. Between(h.mem, h.disk, h.ghost, {}, next, now, boot, config.logging)
  BY <1>12, <1>13, <1>15, <1>18, <1>20, Completes
<1> QED BY <1>1, <1>3, <1>5, <1>17, <1>19 DEF IInv

LEMMA ResumeKeeps ==
  ASSUME IInv, Resume
  PROVE  IInv'
<1>1. Between(mem, disk, ghost, {}, flow, now, boot, config.logging) /\ boot \in Nat \ {0}
  BY DEF IInv
<1>2. mem.busy /\ UNCHANGED <<config, now, boot, flow>>
  BY DEF Resume
<1>3. PICK m : m = mem
  OBVIOUS
<1>4. PICK queue : queue = m.queue
  OBVIOUS
<1>5. m = [x_ \in MemFields |-> m[x_]]
  BY <1>1, <1>3 DEF Between, Shape
<1>6. QueueOk(queue, m.busy, {}, flow, now)
  BY <1>1, <1>3, <1>4 DEF Between
<1>7. Between(m, disk, ghost, {}, flow, now, boot, config.logging)
  BY <1>1, <1>3
<1>8. CASE queue = <<>>
  <2>1. PICK n : n = [m EXCEPT !.busy = FALSE]
    OBVIOUS
  <2>2. mem' = n /\ UNCHANGED <<disk, ghost>>
    BY <1>3, <1>4, <1>8, <2>1 DEF Resume
  <2>3. n = [x_ \in MemFields |-> n[x_]] /\ n.buffer = m.buffer /\ n.queue = queue /\ n.busy = FALSE
    BY <1>4, <1>5, <2>1 DEF MemFields
  <2>4. QueueOk(n.queue, n.busy, {}, flow, now)
    BY <1>6, <1>8, <2>3 DEF QueueOk
  <2>5. Waiting(n.queue, {}) = Waiting(m.queue, {})
    BY <1>4, <2>3
  <2>6. Between(n, disk, ghost, {}, flow, now, boot, config.logging)
    BY <1>7, <2>3, <2>4, <2>5, Requeue
  <2> QED BY <1>1, <1>2, <2>2, <2>6 DEF IInv
<1>9. CASE queue # <<>>
  <2>1. PICK r : r = Head(queue)
    OBVIOUS
  <2>2. PICK n : n = [m EXCEPT !.queue = Tail(queue)]
    OBVIOUS
  <2>3. n = [x_ \in MemFields |-> n[x_]] /\ n.buffer = m.buffer /\ n.queue = Tail(queue) /\ n.busy = m.busy
    BY <1>5, <2>2 DEF MemFields
  <2>4. PICK rest : rest = Tail(queue)
    OBVIOUS
  <2>5. queue \in Seq(Requests) /\ IsInjective(queue)
    BY <1>6 DEF QueueOk
  <2>6. PICK k : k = Len(rest)
    OBVIOUS
  <2>7. /\ k \in Nat /\ Len(queue) = k + 1 /\ DOMAIN queue = 1..(k + 1) /\ DOMAIN rest = 1..k
        /\ rest \in Seq(Requests) /\ r = queue[1] /\ r \in Requests
        /\ \A i \in 1..k : rest[i] = queue[i + 1]
    BY <1>9, <2>1, <2>4, <2>5, <2>6
  <2>8. \A i \in 1..k : i + 1 \in 1..(k + 1) /\ i + 1 # 1
    BY <2>7
  <2>9. 1 \in 1..(k + 1) /\ \A i \in 1..(k + 1) : i # 1 => i - 1 \in 1..k /\ (i - 1) + 1 = i
    BY <2>7
  <2>10. r \notin Range(rest)
    BY <2>5, <2>7, <2>8, <2>9 DEF Range, IsInjective
  <2>11. Range(queue) = Range(rest) \cup {r}
    <3>1. ASSUME NEW q \in Range(queue) PROVE q \in Range(rest) \cup {r}
      <4>1. PICK i \in 1..(k + 1) : queue[i] = q
        BY <2>7 DEF Range
      <4>2. CASE i = 1
        BY <2>7, <4>1, <4>2
      <4>3. CASE i # 1
        <5>1. i - 1 \in DOMAIN rest /\ rest[i - 1] = q
          BY <2>7, <2>9, <4>1, <4>3
        <5> QED BY <5>1 DEF Range
      <4> QED BY <4>2, <4>3
    <3>2. ASSUME NEW q \in Range(rest) PROVE q \in Range(queue)
      <4>1. PICK i \in 1..k : rest[i] = q
        BY <2>7 DEF Range
      <4>2. i + 1 \in DOMAIN queue /\ queue[i + 1] = q
        BY <2>7, <2>8, <4>1
      <4> QED BY <4>2 DEF Range
    <3>3. r \in Range(queue)
      BY <2>7, <2>9 DEF Range
    <3> QED BY <3>1, <3>2, <3>3
  <2>12. IsInjective(rest)
    <3> SUFFICES ASSUME NEW i \in 1..k, NEW j \in 1..k, rest[i] = rest[j] PROVE i = j
      BY <2>7 DEF IsInjective
    <3>1. queue[i + 1] = queue[j + 1]
      BY <2>7
    <3>2. i + 1 = j + 1
      BY <2>5, <2>7, <2>8, <3>1 DEF IsInjective
    <3> QED BY <2>7, <3>2
  <2>13. Waiting(rest, {r}) = Waiting(queue, {})
    BY <2>11 DEF Waiting
  <2>14. QueueOk(rest, n.busy, {r}, flow, now)
    <3>1. \A q \in Waiting(queue, {}) :
            flow[q].pc = "done" /\ (Attr[q].stream \/ flow[q].completed = now)
      BY <1>6 DEF QueueOk
    <3>2. n.busy
      BY <1>2, <1>3, <2>3
    <3> QED BY <2>7, <2>10, <2>12, <2>13, <3>1, <3>2 DEF QueueOk
  <2>15. Between(n, disk, ghost, {r}, flow, now, boot, config.logging)
    <3>1. n.queue = rest
      BY <2>3, <2>4
    <3> QED BY <1>4, <1>7, <2>3, <2>13, <2>14, <3>1, Requeue
  <2>16. PICK w : w = [World EXCEPT !.mem.queue = Tail(@)]
    OBVIOUS
  <2>17. IsWorld(w, n, disk, ghost)
    BY <1>3, <1>4, <2>2, <2>16 DEF IsWorld, World
  <2>18. PICK failing \in Faults[r] :
           SetWorld(Handled(w, r, flow[r], failing))
    BY <1>3, <1>4, <1>9, <2>1, <2>16 DEF Resume
  <2>19. PICK f : f = flow[r]
    OBVIOUS
  <2>20. PICK h : HandledIs(h, w, r, f, failing)
    BY DEF HandledIs
  <2>21. mem' = h.mem /\ disk' = h.disk /\ ghost' = h.ghost
    BY <2>18, <2>19, <2>20 DEF SetWorld, HandledIs
  <2>22. f.completed = flow[r].completed /\ f.success = flow[r].success /\ r \in Requests
    BY <2>7, <2>19
  <2>24. failing \in SUBSET Sinks
    BY <2>7, <2>18, ObserversAssumption DEF Requests
  <2>23. Between(h.mem, h.disk, h.ghost, {}, flow, now, boot, config.logging)
    BY <1>1, <2>15, <2>17, <2>20, <2>22, <2>24, HandledKeeps
  <2> QED BY <1>1, <1>2, <2>21, <2>23 DEF IInv
<1> QED BY <1>8, <1>9

LEMMA RestartStep ==
  ASSUME IInv, Restart
  PROVE  IInv'
<1>1. Between(mem, disk, ghost, {}, flow, now, boot, config.logging) /\ boot \in Nat \ {0}
  BY DEF IInv
<1>2. PICK next : next = flow'
  OBVIOUS
<1>3. PICK d : d = disk
  OBVIOUS
<1>4. PICK e : e = disk'
  OBVIOUS
<1>5. PICK fresh : fresh = config'.logging
  OBVIOUS
<1>6. PICK again : again = boot'
  OBVIOUS
<1>15. PICK k : k = ghost'
  OBVIOUS
<1>7. /\ again = boot + 1 /\ mem' = NewMem /\ now' = now
      /\ k = [NewGhost EXCEPT !.told = ghost.told, !.since = ghost.since]
      /\ Dropped(flow, next)
  BY <1>2, <1>6, <1>15 DEF Restart, Dropped
<1>8. PICK history : history = Pruned(d.history, now)
  OBVIOUS
<1>9. PICK alerts : alerts = IF config'.alerting THEN Unexpired(d.alerts, now) ELSE d.alerts
  OBVIOUS
<1>10. e = [d EXCEPT !.history = history, !.alerts = alerts]
  BY <1>3, <1>4, <1>8, <1>9 DEF Restart
<1>11. d = [x_ \in DiskFields |-> d[x_]]
  BY <1>1, <1>3 DEF Between, Shape
<1>12. /\ e = [x_ \in DiskFields |-> e[x_]]
       /\ e.history = history /\ e.traces = d.traces /\ e.routing = d.routing
       /\ e.episodes = d.episodes /\ e.sessions = d.sessions /\ e.agents = d.agents
  BY <1>10, <1>11 DEF DiskFields
<1>13. Between(NewMem, e, k, {}, next, now, again, fresh)
  <2>1. Between(mem, d, ghost, {}, flow, now, boot, config.logging)
    BY <1>1, <1>3
  <2>2. e.history = Pruned(d.history, now)
    BY <1>8, <1>12
  <2>3. PICK m : m = mem
    OBVIOUS
  <2>4. PICK g : g = ghost
    OBVIOUS
  <2>5. PICK runs : runs = boot
    OBVIOUS
  <2>6. Between(m, d, g, {}, flow, now, runs, config.logging) /\ runs \in Nat \ {0}
    BY <1>1, <2>1, <2>3, <2>4, <2>5
  <2>7. /\ k = [NewGhost EXCEPT !.told = g.told, !.since = g.since]
        /\ again = runs + 1 /\ Dropped(flow, next)
    BY <1>7, <2>4, <2>5
  <2> QED BY <1>12, <2>2, <2>6, <2>7, RestartKeeps
<1>14. boot' \in Nat \ {0}
  BY <1>1, <1>6, <1>7
<1> QED BY <1>2, <1>4, <1>5, <1>6, <1>7, <1>13, <1>14, <1>15 DEF IInv

LEMMA TickStep ==
  ASSUME IInv, Tick
  PROVE  IInv'
<1>1. PICK next : next = now'
  OBVIOUS
<1>2. next = now + 1 /\ ~ mem.busy /\ UNCHANGED <<config, boot, flow, mem, disk, ghost>>
  BY <1>1 DEF Tick
<1>3. Between(mem, disk, ghost, {}, flow, now, boot, config.logging) /\ boot \in Nat \ {0}
  BY DEF IInv
<1>4. Between(mem, disk, ghost, {}, flow, next, boot, config.logging)
  BY <1>2, <1>3, TickKeeps
<1> QED BY <1>1, <1>2, <1>3, <1>4 DEF IInv

LEMMA StepKeeps == IInv /\ [Next]_vars => IInv'
<1> SUFFICES ASSUME IInv, [Next]_vars PROVE IInv'
  OBVIOUS
<1>1. CASE UNCHANGED vars
  BY <1>1 DEF IInv, vars
<1>2. ASSUME NEW r \in Requests, Begin(r) PROVE IInv'
  BY <1>2, BeginKeeps
<1>3. ASSUME NEW r \in Requests, Supersede(r) PROVE IInv'
  BY <1>3, SupersedeKeeps
<1>4. ASSUME NEW r \in Requests, StartStream(r) PROVE IInv'
  BY <1>4, StartStreamKeeps
<1>5. ASSUME NEW r \in Requests, EndStream(r) PROVE IInv'
  BY <1>5, EndStreamKeeps
<1>6. ASSUME NEW r \in Requests, AnswerWhole(r) PROVE IInv'
  BY <1>6, AnswerWholeKeeps
<1>7. CASE Resume
  BY <1>7, ResumeKeeps
<1>8. CASE Restart
  BY <1>8, RestartStep
<1>9. CASE Tick
  BY <1>9, TickStep
<1> QED BY <1>1, <1>2, <1>3, <1>4, <1>5, <1>6, <1>7, <1>8, <1>9 DEF Next

LEMMA Invariance == Spec => []IInv
<1>1. Init => IInv
  BY InitKeeps
<1>2. IInv /\ [Next]_vars => IInv'
  BY StepKeeps
<1> QED BY <1>1, <1>2, PTL DEF Spec
------------------------------------------------------------------------------
(* The properties.                                                         *)
(* The invariant has the books agree: LogOk, SessionsOk and AgentsOk say it  *)
(* of the routing log, which Finals and Hops are taken from.               *)
(* What is in the rows that a sink stored.                                 *)
LEMMA RowsTaken ==
  ASSUME NEW told \in Seq(Record), NEW clock, TimesOk(told, clock), NEW sink, NEW ids,
         NEW rows, rows = TookBy(sink, told, ids)
  PROVE  /\ rows \in Seq(Record)
         /\ \A i \in DOMAIN rows : rows[i].id \in ids /\ rows[i] \in Record
         /\ rows # <<>> => 1 \in DOMAIN rows /\ Last(rows) = rows[Len(rows)]
         /\ \A i \in DOMAIN rows :
              rows[i].at <= rows[Len(rows)].at \/ Attr[rows[Len(rows)].id].stream
<1>1. PICK S : S = Took(sink, ids, TRUE)
  OBVIOUS
<1>2. rows = Keep(told, S)
  BY <1>1 DEF TookBy
<1>3. rows \in Seq(Record)
  BY <1>2, KeptIsRecords
<1>4. PICK p : Subsequence(rows, told, S, p)
  BY <1>2, KeepSays
<1>5. PICK n : n = Len(rows)
  OBVIOUS
<1>6. /\ n \in Nat /\ DOMAIN rows = 1..n /\ DOMAIN told = 1..Len(told)
      /\ p \in [1..n -> 1..Len(told)]
      /\ \A i \in 1..n : rows[i] = told[p[i]] /\ rows[i] \in S /\ rows[i] \in Record
      /\ \A i, j \in 1..n : i < j => p[i] < p[j]
  BY <1>3, <1>4, <1>5 DEF Subsequence
<1>7. \A y \in S : y.id \in ids /\ y.final = TRUE
  BY <1>1 DEF Took
<1>8. \A y \in Record : y.at \in Nat
  BY DEF Record
<1>9. ASSUME NEW i \in 1..n
      PROVE  rows[i].at <= rows[n].at \/ Attr[rows[n].id].stream
  <2>1. n \in 1..n /\ (i = n \/ i < n)
    BY <1>6
  <2>2. CASE i = n
    <3>1. rows[n].at \in Nat
      BY <1>6, <1>8, <2>1
    <3> QED BY <2>2, <3>1
  <2>3. CASE i < n
    <3>1. p[i] < p[n] /\ p[i] \in DOMAIN told /\ p[n] \in DOMAIN told
      BY <1>6, <2>1, <2>3
    <3>2. rows[i] = told[p[i]] /\ rows[n] = told[p[n]] /\ rows[n].final = TRUE
      BY <1>6, <1>7, <2>1
    <3> QED BY <3>1, <3>2 DEF TimesOk
  <2> QED BY <2>1, <2>2, <2>3
<1>10. rows # <<>> => 1 \in DOMAIN rows /\ Last(rows) = rows[n]
  BY <1>3, <1>5, <1>6 DEF Last
<1> QED BY <1>3, <1>5, <1>6, <1>7, <1>9, <1>10

LEMMA BooksOfInvariant ==
  ASSUME IInv
  PROVE  BooksAgree
<1>1. PICK told : told = ghost.told
  OBVIOUS
<1>2. PICK finals : finals = FinalsOf(told, Requests)
  OBVIOUS
<1>3. PICK gone : gone = Gone(told)
  OBVIOUS
<1>4. PICK since : since = ghost.since
  OBVIOUS
<1>5. /\ QueueOk(mem.queue, mem.busy, {}, flow, now)
      /\ LogOk(told, ghost.handled, mem.queue, {}, flow, boot) /\ TimesOk(told, now)
      /\ LinesOk(told, disk.routing, disk.traces, disk.episodes)
      /\ SessionsOk(told, disk.sessions) /\ AgentsOk(since, disk.agents)
  BY <1>1, <1>4 DEF IInv, Between
<1>6. told \in Seq(Record) /\ since \in Seq(Record)
  BY <1>5 DEF LogOk, AgentsOk
<1>7. gone = {finals[i].id : i \in DOMAIN finals}
  BY <1>2, <1>3 DEF Gone
<1>8. Waiting(mem.queue, {}) = Range(mem.queue)
  BY DEF Waiting
<1>9. Finals(ghost.told) = finals
  BY <1>1, <1>2 DEF Finals, FinalsOf
<1>10. Range(IdsOf(finals)) = gone /\ Cardinality(gone) = Len(finals)
  <2>1. Cardinality(gone) = Len(finals)
    BY <1>2, <1>3, <1>5 DEF LogOk
  <2>2. PICK f : f = IdsOf(finals)
    OBVIOUS
  <2>3. DOMAIN f = DOMAIN finals /\ \A i \in DOMAIN finals : f[i] = finals[i].id
    BY <2>2 DEF IdsOf
  <2>4. Range(f) = gone
    BY <1>7, <2>3 DEF Range
  <2> QED BY <2>1, <2>2, <2>4
<1>11. HandledIds \subseteq gone
  <2>1. \A i \in DOMAIN ghost.handled : ghost.handled[i].id \in gone
    BY <1>3, <1>5 DEF LogOk
  <2> QED BY <2>1 DEF HandledIds
<1>12. gone \cap Range(mem.queue) = {}
  <2>1. \A r \in gone : r \notin Waiting(mem.queue, {})
    BY <1>3, <1>5 DEF LogOk
  <2> QED BY <1>8, <2>1
<1>13. \A r \in Requests :
         flow[r].pc = "done" => r \in gone \cup Range(mem.queue) \/ boot > 1
  <2>1. \A r \in Requests :
          flow[r].pc = "done" => r \in gone \cup Waiting(mem.queue, {}) \/ boot > 1
    BY <1>3, <1>5 DEF LogOk
  <2> QED BY <1>8, <2>1
<1>14. mem.busy \/ mem.queue = <<>>
  BY <1>5 DEF QueueOk
<1>15. \A i \in DOMAIN finals : finals[i].at = flow[finals[i].id].completed
  BY <1>2, <1>5 DEF LogOk
<1>16. PICK lines : lines = Keep(ghost.told, [id : Requests, at : Nat, final : BOOLEAN,
                                              lost : SUBSET (Sinks \ {"routing"})])
  OBVIOUS
<1>17. /\ disk.routing = [i \in DOMAIN lines |-> RoutingRecord(lines[i])]
       /\ disk.traces = IdsOf(Keep(ghost.told, Took("traces", Requests, FALSE)))
       /\ disk.episodes = IdsOf(Keep(ghost.told, Took("mesh", Requests, TRUE)))
  BY <1>1, <1>5, <1>16 DEF LinesOk, LinesOf, LoggedOf, TookBy
<1>18. ASSUME NEW s
       PROVE  /\ s \in DOMAIN disk.sessions => s \in {Attr[r].session : r \in Requests} \ {"none"}
              /\ s # "none" => SessionAgrees(s)
  <2>1. PICK rows : rows = TookBy("sessions", told, OfSession(s))
    OBVIOUS
  <2>2. /\ rows \in Seq(Record)
        /\ \A i \in DOMAIN rows : rows[i].id \in OfSession(s)
        /\ rows # <<>> => 1 \in DOMAIN rows /\ Last(rows) = rows[Len(rows)]
        /\ \A i \in DOMAIN rows :
             rows[i].at <= rows[Len(rows)].at \/ Attr[rows[Len(rows)].id].stream
    BY <1>5, <1>6, <2>1, RowsTaken
  <2>3. RowOf(disk.sessions, s, rows) /\ "none" \notin DOMAIN disk.sessions
    BY <1>5, <2>1 DEF SessionsOk
  <2>4. \A r \in OfSession(s) : r \in Requests /\ Attr[r].session = s
    BY DEF OfSession
  <2>5. CASE s \in DOMAIN disk.sessions
    <3>1. rows # <<>> /\ disk.sessions[s] = SessionRow(rows)
      BY <2>3, <2>5 DEF RowOf
    <3>2. PICK b : b = Last(rows)
      OBVIOUS
    <3>3. b = rows[Len(rows)]
      BY <2>2, <3>1, <3>2
    <3>4. disk.sessions[s] = [first |-> rows[1].at, last |-> b.at, count |-> Len(rows),
                              tokens |-> TokensOf(rows)]
      BY <3>1, <3>3 DEF SessionRow
    <3>5. disk.sessions[s].last = b.at
      BY <3>4
    <3>6. \A i \in DOMAIN rows : rows[i].at <= disk.sessions[s].last \/ Attr[b.id].stream
      BY <2>2, <3>3, <3>5
    <3>7. SessionAgrees(s)
      BY <1>1, <2>1, <2>5, <3>1, <3>2, <3>4, <3>6 DEF SessionAgrees, TookBy
    <3>8. rows[1].id \in OfSession(s)
      BY <2>2, <3>1
    <3> QED BY <2>3, <2>4, <2>5, <3>7, <3>8
  <2>6. CASE s \notin DOMAIN disk.sessions
    <3>1. s # "none" => rows = <<>>
      BY <2>3, <2>6 DEF RowOf
    <3> QED BY <1>1, <2>1, <2>6, <3>1 DEF SessionAgrees, TookBy
  <2> QED BY <2>5, <2>6
<1>19. ASSUME NEW a
       PROVE  /\ a \in DOMAIN disk.agents => a \in {Attr[r].agent : r \in Requests} \ {"none"}
              /\ a # "none" => AgentAgrees(a)
  <2>1. PICK rows : rows = TookBy("agents", since, OfAgent(a))
    OBVIOUS
  <2>2. rows = Keep(since, Took("agents", OfAgent(a), TRUE))
    BY <2>1 DEF TookBy
  <2>3. AgentOf(disk.agents, a, rows) /\ "none" \notin DOMAIN disk.agents
    BY <1>5, <2>1 DEF AgentsOk
  <2>4. CASE a \in DOMAIN disk.agents
    <3>1. rows # <<>> /\ disk.agents[a].count = Len(rows)
      BY <2>3, <2>4 DEF AgentOf
    <3>2. PICK p : Subsequence(rows, since, Took("agents", OfAgent(a), TRUE), p)
      BY <1>6, <2>2, KeepSays
    <3>3. rows \in Seq(Record)
      BY <1>6, <2>2, KeptIsRecords
    <3>4. 1 \in 1..Len(rows)
      BY <3>1, <3>3
    <3>5. rows[1] \in Took("agents", OfAgent(a), TRUE)
      BY <3>2, <3>4 DEF Subsequence
    <3>6. rows[1].id \in OfAgent(a)
      BY <3>5 DEF Took
    <3>7. rows[1].id \in Requests /\ Attr[rows[1].id].agent = a
      BY <3>6 DEF OfAgent
    <3> QED BY <1>4, <2>2, <2>3, <2>4, <3>1, <3>7 DEF AgentAgrees
  <2>5. CASE a \notin DOMAIN disk.agents
    <3>1. a # "none" => rows = <<>>
      BY <2>3, <2>5 DEF AgentOf
    <3> QED BY <1>4, <2>2, <2>5, <3>1 DEF AgentAgrees
  <2> QED BY <2>4, <2>5
<1>20. PICK sessions : sessions = {Attr[r].session : r \in Requests} \ {"none"}
  OBVIOUS
<1>21. PICK agents : agents = {Attr[r].agent : r \in Requests} \ {"none"}
  OBVIOUS
<1>22. DOMAIN disk.sessions \subseteq sessions /\ \A s \in sessions : SessionAgrees(s)
  BY <1>18, <1>20
<1>23. DOMAIN disk.agents \subseteq agents /\ \A a \in agents : AgentAgrees(a)
  BY <1>19, <1>21
<1> QED
  BY <1>9, <1>10, <1>11, <1>12, <1>13, <1>14, <1>15, <1>16, <1>17, <1>20, <1>21, <1>22,
     <1>23 DEF BooksAgree

(* Every event is told to the sinks once unless its process ended first,   *)
(* and each book has what its own sink stored and nothing else, whichever  *)
(* sinks lose it and wherever in their order the process ends: rows of     *)
(* sessions, agents since their file was last torn, lines of the routing   *)
(* log, traces and episodes; a session's last_seen is behind one of its    *)
(* events only when the last was a stream's.                               *)
THEOREM BooksAlwaysAgree == Spec => []BooksAgree
<1>1. IInv => BooksAgree
  BY BooksOfInvariant
<1> QED BY <1>1, Invariance, PTL

(* A line that is shown, and where it was found.                           *)
IsShown(row, line, logging) == row = GateContent(line, logging)

LEMMA ShownRow ==
  ASSUME NEW line \in Line, NEW logging, NEW row, IsShown(row, line, logging)
  PROVE  row.id = line.id /\ (row.content # NoContent => logging)
<1>1. line.id = [line EXCEPT !.content = NoContent].id
      /\ [line EXCEPT !.content = NoContent].content = NoContent
  BY DEF Line
<1> QED BY <1>1 DEF IsShown, GateContent

(* What the dashboard reads is part of the history, so no request is in it *)
(* twice.                                                                  *)
LEMMA ReadIsDistinct ==
  ASSUME NEW captured, NEW routing, NEW clock,
         NEW history, HistoryOk(history, captured, routing, clock),
         NEW limit \in Nat
  PROVE  /\ ReadHistory(history, limit) \in Seq(Line)
         /\ \A i, j \in DOMAIN ReadHistory(history, limit) :
              ReadHistory(history, limit)[i].id = ReadHistory(history, limit)[j].id => i = j
<1>1. PICK n \in Nat : n = Len(history)
  BY DEF HistoryOk
<1>2. history \in Seq(Line) /\ DOMAIN history = 1..n
  BY <1>1 DEF HistoryOk
<1>3. \A i, j \in 1..n : history[i].id = history[j].id => i = j
  BY <1>2 DEF HistoryOk
<1>4. PICK newest : newest = Reverse(history)
  OBVIOUS
<1>5. newest = [i \in 1..n |-> history[(n - i) + 1]]
  BY <1>1, <1>4 DEF Reverse
<1>6. \A i \in 1..n : (n - i) + 1 \in 1..n
  OBVIOUS
<1>7. \A i \in 1..n : newest[i] \in Line
  BY <1>2, <1>5, <1>6
<1>8. newest \in Seq(Line) /\ Len(newest) = n
  <2>1. newest = [i \in 1..n |-> newest[i]]
    BY <1>5
  <2>2. newest \in [1..n -> Line]
    BY <1>7, <2>1
  <2>3. newest \in Seq(Line)
    BY <2>2
  <2>4. DOMAIN newest = 1..n /\ DOMAIN newest = 1..Len(newest) /\ Len(newest) \in Nat
    BY <2>1, <2>3
  <2> QED BY <2>3, <2>4
<1>9. \A i, j \in 1..n : newest[i].id = newest[j].id => i = j
  <2> SUFFICES ASSUME NEW i \in 1..n, NEW j \in 1..n, newest[i].id = newest[j].id
               PROVE  i = j
    OBVIOUS
  <2>1. (n - i) + 1 = (n - j) + 1
    BY <1>3, <1>5, <1>6
  <2> QED BY <2>1
<1>10. CASE ~ (Len(newest) > limit)
  <2>1. ReadHistory(history, limit) = newest
    BY <1>4, <1>10 DEF ReadHistory
  <2>2. DOMAIN newest = 1..n
    BY <1>5
  <2> QED BY <1>8, <1>9, <2>1, <2>2
<1>11. CASE Len(newest) > limit
  <2>1. PICK read : read = SubSeq(newest, 1, limit)
    OBVIOUS
  <2>2. ReadHistory(history, limit) = read
    BY <1>4, <1>11, <2>1 DEF ReadHistory
  <2>3. limit < n
    BY <1>8, <1>11
  <2>4. read \in Seq(Line) /\ Len(read) = limit
    BY <1>8, <2>1, <2>3
  <2>5. \A i \in 1..limit : read[i] = newest[i] /\ i \in 1..n
    BY <1>8, <2>1, <2>3
  <2>6. DOMAIN read = 1..limit
    BY <2>4
  <2> QED BY <1>9, <2>2, <2>4, <2>5, <2>6
<1> QED BY <1>10, <1>11

(* getRun finds the line of a request where it is, when it is there once.  *)
LEMMA FoundWhereItIs ==
  ASSUME NEW read \in Seq(Line), NEW i \in DOMAIN read,
         \A j \in DOMAIN read : read[i].id = read[j].id => i = j
  PROVE  SelectInSeq(read, LAMBDA e : e.id = read[i].id) = i
<1>1. DOMAIN read = 1..Len(read) /\ Len(read) \in Nat
  OBVIOUS
<1>2. {j \in 1..Len(read) : read[j].id = read[i].id} = {i}
  BY <1>1
<1>3. Min({i}) = i
  BY <1>1 DEF Min
<1> QED BY <1>2, <1>3 DEF SelectInSeq

LEMMA ShownIsFound ==
  ASSUME NEW captured, NEW routing, NEW clock,
         NEW history, HistoryOk(history, captured, routing, clock),
         NEW limit \in Nat, NEW logging, NEW shown,
         shown = ListRuns(history, logging, limit)
  PROVE  \A i \in DOMAIN shown :
           /\ shown[i].content # NoContent => logging
           /\ GetRun(history, shown[i].id, logging, limit) = <<shown[i]>>
<1>1. PICK read : read = ReadHistory(history, limit)
  OBVIOUS
<1>2. /\ read \in Seq(Line)
      /\ \A i, j \in DOMAIN read : read[i].id = read[j].id => i = j
  BY <1>1, ReadIsDistinct
<1>3. shown = [i \in DOMAIN read |-> GateContent(read[i], logging)]
  BY <1>1 DEF ListRuns
<1> SUFFICES ASSUME NEW i \in DOMAIN read
             PROVE  /\ shown[i].content # NoContent => logging
                    /\ GetRun(history, shown[i].id, logging, limit) = <<shown[i]>>
  BY <1>3
<1>4. read[i] \in Line /\ IsShown(shown[i], read[i], logging)
  BY <1>2, <1>3 DEF IsShown
<1>5. shown[i].id = read[i].id /\ (shown[i].content # NoContent => logging)
  BY <1>4, ShownRow
<1>6. SelectInSeq(read, LAMBDA e : e.id = read[i].id) = i
  BY <1>2, FoundWhereItIs
<1>7. i # 0
  BY <1>2
<1>8. GetRun(history, read[i].id, logging, limit) = <<GateContent(read[i], logging)>>
  BY <1>1, <1>6, <1>7 DEF GetRun
<1> QED BY <1>4, <1>5, <1>8 DEF IsShown

(* The invariant says of the buffer and the history what the property asks; *)
(* what the dashboard shows of them follows.                               *)
LEMMA ContentOfInvariant ==
  ASSUME IInv
  PROVE  ContentFollowsItsRequest
<1>1. PICK history : history = disk.history
  OBVIOUS
<1>2. PICK captured : captured = ghost.captured
  OBVIOUS
<1>3. PICK logging : logging = config.logging
  OBVIOUS
<1>4. /\ HistoryOk(history, captured, ghost.told, now)
      /\ BufferOk(mem.buffer, captured, ghost.told, mem.queue, {}, flow, logging)
  BY <1>1, <1>2, <1>3 DEF IInv, Between
<1>5. Range(mem.buffer) \subseteq Range(mem.queue)
  <2>1. \A i \in DOMAIN mem.buffer : mem.buffer[i] \in Waiting(mem.queue, {})
    BY <1>4 DEF BufferOk
  <2> QED BY <2>1 DEF Range, Waiting
<1>6. Len(mem.buffer) <= MaxEntries
  BY <1>4 DEF BufferOk
<1>7. \A e \in Range(history) :
        /\ e.content # NoContent => e.content = e.id /\ e.success
        /\ \A i \in DOMAIN captured :
             captured[i] = e.id /\ e.content = NoContent => Len(captured) - i >= MaxEntries
  <2> SUFFICES ASSUME NEW k \in DOMAIN history
               PROVE  /\ history[k].content # NoContent
                           => history[k].content = history[k].id /\ history[k].success
                      /\ \A i \in DOMAIN captured :
                           captured[i] = history[k].id /\ history[k].content = NoContent
                             => Len(captured) - i >= MaxEntries
    BY DEF Range
  <2> QED BY <1>4 DEF HistoryOk
<1>8. PICK shown : shown = ListRuns(history, logging, MaxEntries)
  OBVIOUS
<1>9. \A i \in DOMAIN shown :
        /\ shown[i].content # NoContent => logging
        /\ GetRun(history, shown[i].id, logging, MaxEntries) = <<shown[i]>>
  <2>1. MaxEntries \in Nat
    BY ContentAssumption
  <2> QED BY <1>4, <1>8, <2>1, ShownIsFound
<1> QED BY <1>1, <1>2, <1>3, <1>5, <1>6, <1>7, <1>8, <1>9 DEF ContentFollowsItsRequest

(* A request's content is taken into the history by the request's own      *)
(* entry, and is lost only to maxEntries later ones; nothing is shown once *)
(* content logging is off.                                                 *)
THEOREM ContentFollows == Spec => []ContentFollowsItsRequest
<1>1. IInv => ContentFollowsItsRequest
  BY ContentOfInvariant
<1> QED BY <1>1, Invariance, PTL

(* What a prune keeps, as a set.                                           *)
LEMMA PruneIsFair ==
  ASSUME NEW captured, NEW told, NEW clock \in Nat,
         NEW history, HistoryOk(history, captured, told, clock),
         NEW kept, NEW p, Prune(kept, history, clock, p)
  PROVE  /\ Range(kept) \subseteq Range(history) /\ Cardinality(Range(kept)) <= MaxEntries
         /\ \A e \in Range(kept) : e.at >= clock - Retention
         /\ \A d \in Range(history) \ Range(kept) :
              d.at >= clock - Retention
                => /\ Cardinality(Range(kept)) = MaxEntries
                   /\ \A k \in Range(kept) : d.at <= k.at \/ Attr[k.id].stream
<1>1. /\ kept \in Seq(Line) /\ Len(kept) <= MaxEntries
      /\ p \in [1..Len(kept) -> 1..Len(history)]
      /\ \A i \in 1..Len(kept) : kept[i] = history[p[i]] /\ kept[i].at >= clock - Retention
      /\ \A i, j \in 1..Len(kept) : i < j => p[i] < p[j]
  BY DEF Prune
<1>2. \A m \in 1..Len(history) :
        history[m].at >= clock - Retention =>
          \/ \E i \in 1..Len(kept) : p[i] = m
          \/ Len(kept) = MaxEntries /\ \A i \in 1..Len(kept) : m < p[i]
  BY DEF Prune
<1>3. /\ history \in Seq(Line) /\ DOMAIN history = 1..Len(history) /\ Len(history) \in Nat
      /\ DOMAIN kept = 1..Len(kept) /\ Len(kept) \in Nat /\ MaxEntries \in Nat
  BY <1>1, ContentAssumption DEF HistoryOk
<1>4. \A i, j \in 1..Len(history) :
        /\ history[i].id = history[j].id => i = j
        /\ i < j => history[i].at <= history[j].at \/ Attr[history[j].id].stream
  BY <1>3 DEF HistoryOk
<1>5. Range(kept) = {kept[i] : i \in 1..Len(kept)} /\ Range(history) = {history[i] : i \in 1..Len(history)}
  BY <1>3 DEF Range
<1>6. Range(kept) \subseteq Range(history)
  BY <1>1, <1>5
<1>7. \A e \in Range(kept) : e.at >= clock - Retention
  BY <1>1, <1>5
<1>8. Cardinality(Range(kept)) = Len(kept)
  <2>1. PICK S : S = 1..Len(kept)
    OBVIOUS
  <2>2. IsFiniteSet(S) /\ Cardinality(S) = Len(kept)
    <3>1. PICK n \in Nat : n = Len(kept)
      BY <1>3
    <3>2. IsFiniteSet(1..n) /\ Cardinality(1..n) = IF 1 > n THEN 0 ELSE n - 1 + 1
      BY FS_Interval
    <3>3. (IF 1 > n THEN 0 ELSE n - 1 + 1) = n
      OBVIOUS
    <3> QED BY SMTT(30), <2>1, <3>1, <3>2, <3>3
  <2>3. PICK T : T = Range(kept)
    OBVIOUS
  <2>4. kept \in [S -> T]
    <3>1. kept = [i \in S |-> kept[i]]
      BY <1>1, <2>1
    <3>2. \A i \in S : kept[i] \in T
      BY <1>5, <2>1, <2>3
    <3> QED BY <3>1, <3>2
  <2>5. \A a, b \in S : kept[a] = kept[b] => a = b
    <3> SUFFICES ASSUME NEW a \in S, NEW b \in S, kept[a] = kept[b], a # b PROVE FALSE
      OBVIOUS
    <3>1. p[a] = p[b]
      BY SMTT(30), <1>1, <1>4, <2>1
    <3>2. a < b \/ b < a
      BY <1>3, <2>1
    <3>3. p[a] \in Nat /\ p[b] \in Nat
      BY <1>1, <1>3, <2>1
    <3> QED BY <1>1, <2>1, <3>1, <3>2, <3>3
  <2>6. \A t \in T : \E s \in S : kept[s] = t
    BY <1>5, <2>1, <2>3
  <2>7. kept \in Bijection(S, T)
    BY <2>4, <2>5, <2>6 DEF Bijection, Injection, Surjection, IsInjective
  <2>8. ExistsBijection(S, T)
    BY <2>7 DEF ExistsBijection
  <2> QED BY <2>2, <2>3, <2>8, FS_Bijection
<1>9. ASSUME NEW d \in Range(history) \ Range(kept), d.at >= clock - Retention
      PROVE  /\ Cardinality(Range(kept)) = MaxEntries
             /\ \A k \in Range(kept) : d.at <= k.at \/ Attr[k.id].stream
  <2>1. PICK m \in 1..Len(history) : history[m] = d
    BY <1>5
  <2>2. \A i \in 1..Len(kept) : p[i] # m
    BY <1>1, <1>5, <2>1
  <2>3. Len(kept) = MaxEntries /\ \A i \in 1..Len(kept) : m < p[i]
    BY <1>2, <1>9, <2>1, <2>2
  <2>4. ASSUME NEW k \in Range(kept) PROVE d.at <= k.at \/ Attr[k.id].stream
    <3>1. PICK i \in 1..Len(kept) : k = kept[i]
      BY <1>5
    <3>2. k = history[p[i]] /\ m < p[i] /\ p[i] \in 1..Len(history)
      BY SMTT(40), <1>1, <2>3, <3>1
    <3> QED BY <1>4, <2>1, <3>2
  <2> QED BY <1>8, <2>3, <2>4
<1> QED BY <1>6, <1>1, <1>7, <1>8, <1>9

(* pruneHistory keeps no entry outside of its window, no more than         *)
(* maxEntries, and drops one within the window only for entries that       *)
(* completed later, or for a stream's.                                     *)
THEOREM PrunesKeepNewest == Spec => PruneKeepsNewest
<1> DEFINE Fair ==
      LET kept == Range(disk'.history)
      IN  /\ kept \subseteq Range(disk.history) /\ Cardinality(kept) <= MaxEntries
          /\ \A e \in kept : e.at >= now - Retention
          /\ \A d \in Range(disk.history) \ kept :
               d.at >= now - Retention
                 => /\ Cardinality(kept) = MaxEntries
                    /\ \A k \in kept : d.at <= k.at \/ Attr[k.id].stream
<1>1. ASSUME IInv, [Next]_vars, boot' # boot PROVE Fair
  <2>1. Restart
    BY <1>1 DEF Next, vars, Begin, Supersede, StartStream, EndStream, AnswerWhole, Resume, Tick
  <2>2. PICK history : history = disk.history
    OBVIOUS
  <2>3. PICK kept : kept = disk'.history
    OBVIOUS
  <2>4. Shape(mem, disk, ghost) /\ HistoryOk(history, ghost.captured, ghost.told, now) /\ now \in Nat
    BY <1>1, <2>2 DEF IInv, Between, FlowOk
  <2>5. kept = Pruned(history, now)
    BY <2>1, <2>2, <2>3, <2>4 DEF Restart, Shape, DiskFields
  <2>6. history \in Seq(Line)
    BY <2>4 DEF HistoryOk
  <2>7. PICK p : Prune(kept, history, now, p)
    BY <2>4, <2>5, <2>6, PruneSays
  <2>8. /\ Range(kept) \subseteq Range(history) /\ Cardinality(Range(kept)) <= MaxEntries
        /\ \A e \in Range(kept) : e.at >= now - Retention
        /\ \A d \in Range(history) \ Range(kept) :
             d.at >= now - Retention
               => /\ Cardinality(Range(kept)) = MaxEntries
                  /\ \A k \in Range(kept) : d.at <= k.at \/ Attr[k.id].stream
    BY <2>4, <2>7, PruneIsFair
  <2> QED BY <2>2, <2>3, <2>8
<1>2. IInv /\ [Next]_vars => [boot' # boot => Fair]_vars
  BY <1>1
<1> QED BY <1>2, Invariance, PTL DEF PruneKeepsNewest, Spec
------------------------------------------------------------------------------
(* The alarms: the samples follow the events handled, and what the alert   *)
(* manager has marked is in the history, has failed, or was pushed out.    *)

(* The newest n of a sequence: o of the oldest are left out.               *)
IsNewest(t, s, n, o) ==
  /\ o \in Nat /\ Len(t) \in Nat /\ Len(s) = Len(t) + o
  /\ Len(t) <= n /\ (o = 0 \/ Len(t) = n)
  /\ \A i \in 1..Len(t) : i + o \in 1..Len(s) /\ t[i] = s[i + o]

LEMMA NewestSays ==
  ASSUME NEW R, NEW s \in Seq(R), NEW n \in Nat \ {0}
  PROVE  Newest(s, n) \in Seq(R) /\ \E o : IsNewest(Newest(s, n), s, n, o)
<1>1. PICK l \in Nat : l = Len(s)
  OBVIOUS
<1>2. CASE l > n
  <2>1. PICK o \in Nat : o = l - n
    BY <1>2
  <2>2. o + 1 \in Nat /\ o + n = l /\ Newest(s, n) = SubSeq(s, o + 1, l)
    <3>1. o + 1 = l - n + 1
      BY <2>1
    <3> QED BY <1>1, <1>2, <2>1, <3>1 DEF Newest
  <2>3. PICK t : t = SubSeq(s, o + 1, l)
    OBVIOUS
  <2>4. t \in Seq(R) /\ Len(t) = n
    BY <1>1, <2>1, <2>2, <2>3
  <2>5. \A i \in 1..n : i + o \in 1..l /\ t[i] = s[i + o]
    <3> SUFFICES ASSUME NEW i \in 1..n PROVE i + o \in 1..l /\ t[i] = s[i + o]
      OBVIOUS
    <3>1. i + o \in 1..l
      BY <2>2
    <3>2. t[i] = s[(o + 1) + i - 1]
      BY <1>1, <2>2, <2>3
    <3>3. (o + 1) + i - 1 = i + o
      BY <2>1
    <3> QED BY <3>1, <3>2, <3>3
  <2>6. IsNewest(t, s, n, o)
    BY <1>1, <2>2, <2>4, <2>5 DEF IsNewest
  <2> QED BY <2>2, <2>3, <2>4, <2>6
<1>3. CASE ~ (l > n)
  <2>1. Newest(s, n) = SubSeq(s, 1, l)
    BY <1>1, <1>3 DEF Newest
  <2>2. SubSeq(s, 1, l) = s
    BY <1>1
  <2>3. \A i \in 1..l : i + 0 \in 1..l /\ s[i] = s[i + 0]
    OBVIOUS
  <2>4. IsNewest(s, s, n, 0)
    BY <1>1, <1>3, <2>3 DEF IsNewest
  <2> QED BY <2>1, <2>2, <2>4
<1> QED BY <1>2, <1>3

(* The kinds of anomalies, and the records that alarms leave.              *)
Kinds == {"token_explosion", "velocity_spike", "repetition", "cost_acceleration"}

Alert == [type : Kinds, at : Nat, boot : Nat]
Failure == [id : Requests, type : Kinds, at : Nat]
Samples == {[at |-> n, cost |-> Attr[r].cost, pattern |-> Pattern(r)] : n \in Nat, r \in Requests}

(* What became of the alert of type t that was let pass at a time.         *)
Accounted(t, at, alerts, failed, runs) ==
  \/ \E i \in DOMAIN alerts : alerts[i].type = t /\ alerts[i].boot = runs /\ alerts[i].at = at
  \/ \E i \in DOMAIN failed : failed[i].type = t /\ failed[i].at = at
  \/ Len(alerts) = MaxHistory /\ \A i \in DOMAIN alerts : at <= alerts[i].at

(* The marks of this process cover its alerts, and each is accounted for.  *)
AlertsOk(dedup, alerts, failed, clock, runs) ==
  /\ alerts \in Seq(Alert) /\ Len(alerts) <= MaxHistory
  /\ failed \in Seq(Failure)
  /\ \A i \in DOMAIN alerts :
       /\ alerts[i].at <= clock /\ alerts[i].boot <= runs
       /\ alerts[i].boot = runs =>
            alerts[i].type \in DOMAIN dedup /\ alerts[i].at <= dedup[alerts[i].type]
  /\ \A i, j \in DOMAIN alerts :
       i < j => /\ alerts[i].at <= alerts[j].at
                /\ alerts[i].boot = runs /\ alerts[j].boot = runs
                   /\ alerts[i].type = alerts[j].type
                     => alerts[j].at - alerts[i].at >= Cooldown
  /\ \A t \in DOMAIN dedup :
       dedup[t] \in Nat /\ dedup[t] <= clock /\ Accounted(t, dedup[t], alerts, failed, runs)

(* The samples are those of the events handled last.                       *)
Matches(samples, seen) ==
  /\ Len(samples) = Len(seen)
  /\ \A i \in DOMAIN seen : /\ samples[i].at = seen[i].at
                            /\ samples[i].pattern = Pattern(seen[i].id)

SamplesOk(samples, handled) ==
  /\ samples \in Seq(Samples) /\ handled \in Seq(Handling)
  /\ Matches(samples, Newest(handled, BufferSize))

IsFresh(at, clock) == at = clock \/ at > clock - Cooldown

Tells(alerts, failed, last, clock, runs) ==
  \/ \E i \in DOMAIN alerts : /\ alerts[i].type = "repetition" /\ alerts[i].boot = runs
                              /\ IsFresh(alerts[i].at, clock)
  \/ \E i \in DOMAIN failed : \/ failed[i].id = last.id
                              \/ failed[i].type = "repetition" /\ IsFresh(failed[i].at, clock)
  \/ Len(alerts) = MaxHistory /\ \A i \in DOMAIN alerts : IsFresh(alerts[i].at, clock)

ToldOk(alerting, alerts, failed, handled, clock, runs) ==
  alerting /\ handled # <<>> =>
    LET last == handled[Len(handled)]
    IN  last.at = clock /\ Len(Alike(handled)) >= Repetition
          => Tells(alerts, failed, last, clock, runs)

LEMMA SampledKeeps ==
  ASSUME NEW samples, NEW handled, SamplesOk(samples, handled),
         NEW at \in Nat, NEW r \in Requests, NEW runs \in Nat,
         NEW note, note = [id |-> r, at |-> at, boot |-> runs],
         NEW x, x = [at |-> at, cost |-> Attr[r].cost, pattern |-> Pattern(r)],
         NEW more, Grown(more, handled, note)
  PROVE  SamplesOk(Sampled(samples, x), more)
<1>1. BufferSize \in Nat \ {0}
  BY AnomalyAssumption
<1>2. samples \in Seq(Samples) /\ handled \in Seq(Handling)
  BY DEF SamplesOk
<1>3. x \in Samples /\ x.at = at /\ x.pattern = Pattern(r)
  BY DEF Samples
<1>4. note \in Handling /\ note.at = at /\ note.id = r
  BY DEF Handling
<1>5. PICK n \in Nat : n = Len(handled)
  BY <1>2
<1>6. /\ more \in Seq(Handling) /\ Len(more) = n + 1 /\ more[n + 1] = note
      /\ \A i \in 1..n : more[i] = handled[i]
  BY <1>2, <1>4, <1>5 DEF Grown
<1>7. PICK seen : seen = Newest(handled, BufferSize)
  OBVIOUS
<1>8. PICK next : next = Newest(more, BufferSize)
  OBVIOUS
<1>9. PICK o : IsNewest(seen, handled, BufferSize, o)
  BY <1>1, <1>2, <1>7, NewestSays
<1>10. PICK q : IsNewest(next, more, BufferSize, q)
  BY <1>1, <1>6, <1>8, NewestSays
<1>11. /\ seen \in Seq(Handling) /\ next \in Seq(Handling)
       /\ DOMAIN next = 1..Len(next) /\ Len(next) \in Nat /\ DOMAIN seen = 1..Len(seen)
  <2>1. seen \in Seq(Handling) /\ next \in Seq(Handling)
    BY <1>1, <1>2, <1>6, <1>7, <1>8, NewestSays
  <2> QED BY <2>1
<1>12. PICK k \in Nat : k = Len(samples) /\ k = Len(seen)
  BY SMTT(30), <1>2, <1>7 DEF SamplesOk, Matches
<1>13. PICK l \in Nat : l = Len(next)
  BY <1>11
<1>14. /\ \A i \in 1..k : samples[i].at = seen[i].at /\ samples[i].pattern = Pattern(seen[i].id)
       /\ \A i \in 1..k : i + o \in 1..n /\ seen[i] = handled[i + o]
       /\ o \in Nat /\ n = k + o /\ k <= BufferSize /\ (o = 0 \/ k = BufferSize)
  <2>1. \A i \in 1..k : samples[i].at = seen[i].at /\ samples[i].pattern = Pattern(seen[i].id)
    BY <1>7, <1>11, <1>12 DEF SamplesOk, Matches
  <2> QED BY <1>5, <1>9, <1>12, <2>1 DEF IsNewest
<1>15. /\ \A i \in 1..l : i + q \in 1..(n + 1) /\ next[i] = more[i + q]
       /\ q \in Nat /\ n + 1 = l + q /\ l <= BufferSize /\ (q = 0 \/ l = BufferSize)
  BY <1>6, <1>10, <1>13 DEF IsNewest
<1>16. PICK added : added = Append(samples, x)
  OBVIOUS
<1>17. /\ added \in Seq(Samples) /\ Len(added) = k + 1 /\ added[k + 1] = x
       /\ \A i \in 1..k : added[i] = samples[i]
  <2>1. PICK S : S = Samples
    OBVIOUS
  <2>2. PICK y : y = x
    OBVIOUS
  <2>3. samples \in Seq(S) /\ y \in S /\ added = Append(samples, y) /\ Len(samples) = k
    BY <1>2, <1>3, <1>12, <1>16, <2>1, <2>2
  <2>4. /\ added \in Seq(S) /\ Len(added) = k + 1 /\ added[k + 1] = y
        /\ \A i \in 1..k : added[i] = samples[i]
    BY <2>3
  <2> QED BY <2>1, <2>2, <2>4
<1>18. CASE k + 1 > BufferSize
  <2>1. k = BufferSize /\ l = k /\ q = o + 1
    BY <1>1, <1>14, <1>15, <1>18
  <2>2. PICK t : t = Tail(added)
    OBVIOUS
  <2>3. t \in Seq(Samples) /\ Len(t) = k /\ \A i \in 1..k : t[i] = added[i + 1]
    BY <1>17, <2>2
  <2>4. ASSUME NEW i \in 1..k
        PROVE  t[i].at = next[i].at /\ t[i].pattern = Pattern(next[i].id)
    <3>1. next[i] = more[i + q] /\ t[i] = added[i + 1]
      BY <1>15, <2>1, <2>3
    <3>2. CASE i = k
      <4>1. i + q = n + 1 /\ i + 1 = k + 1
        BY <1>14, <2>1, <3>2
      <4>2. next[i] = note /\ t[i] = x
        BY <1>6, <1>17, <3>1, <4>1
      <4> QED BY <1>3, <1>4, <4>2
    <3>3. CASE i # k
      <4>1. i + 1 \in 1..k /\ i + q = (i + 1) + o
        BY <1>14, <2>1, <3>3
      <4>2. (i + 1) + o \in 1..n /\ seen[i + 1] = handled[(i + 1) + o]
        BY <1>14, <4>1
      <4>3. next[i] = seen[i + 1]
        BY <1>6, <3>1, <4>1, <4>2
      <4>4. t[i] = samples[i + 1]
        BY <1>17, <3>1, <4>1
      <4> QED BY <1>14, <4>1, <4>3, <4>4
    <3> QED BY <3>2, <3>3
  <2>5. Matches(t, next)
    <3>1. DOMAIN next = 1..k
      BY <1>11, <1>13, <2>1
    <3> QED BY <1>13, <2>1, <2>3, <2>4, <3>1 DEF Matches
  <2>6. Sampled(samples, x) = t
    BY <1>16, <1>17, <1>18, <2>2 DEF Sampled
  <2> QED BY <1>6, <1>8, <2>3, <2>5, <2>6 DEF SamplesOk
<1>19. CASE ~ (k + 1 > BufferSize)
  <2>1. o = 0 /\ q = 0 /\ n = k /\ l = k + 1
    BY <1>1, <1>14, <1>15, <1>19
  <2>2. ASSUME NEW i \in 1..(k + 1)
        PROVE  added[i].at = next[i].at /\ added[i].pattern = Pattern(next[i].id)
    <3>1. next[i] = more[i]
      BY <1>15, <2>1
    <3>2. CASE i = k + 1
      BY <1>3, <1>4, <1>6, <1>17, <2>1, <3>1, <3>2
    <3>3. CASE i # k + 1
      <4>1. i \in 1..k /\ i + o = i
        BY <2>1, <3>3
      <4>2. next[i] = seen[i] /\ added[i] = samples[i]
        BY <1>6, <1>14, <1>17, <2>1, <3>1, <4>1
      <4> QED BY <1>14, <4>1, <4>2
    <3> QED BY <3>2, <3>3
  <2>3. Matches(added, next)
    <3>1. DOMAIN next = 1..(k + 1)
      BY <1>11, <1>13, <2>1
    <3> QED BY <1>13, <1>17, <2>1, <2>2, <3>1 DEF Matches
  <2>4. Sampled(samples, x) = added
    BY <1>16, <1>17, <1>19 DEF Sampled
  <2> QED BY <1>6, <1>8, <1>17, <2>3, <2>4 DEF SamplesOk
<1> QED BY <1>18, <1>19

(* A loop whose last event is the one being handled is detected.           *)
LEMMA LoopDetected ==
  ASSUME NEW samples, NEW handled, SamplesOk(samples, handled), handled # <<>>,
         NEW last, last = handled[Len(handled)], Len(Alike(handled)) >= Repetition,
         NEW sample, sample.at = last.at
  PROVE  "repetition" \in ToSet(Analyze(samples, sample))
<1>1. Repetition \in Nat \ {0} /\ BufferSize \in Nat \ {0}
  BY AnomalyAssumption
<1>2. samples \in Seq(Samples) /\ handled \in Seq(Handling)
  BY DEF SamplesOk
<1>3. PICK seen : seen = Newest(handled, BufferSize)
  OBVIOUS
<1>4. seen \in Seq(Handling)
  BY <1>1, <1>2, <1>3, NewestSays
<1>5. Matches(samples, seen)
  BY <1>3 DEF SamplesOk
<1>6. PICK p : p = Pattern(last.id)
  OBVIOUS
<1>7. PICK T : T = {h \in ToSet(seen) : h.at >= last.at - Window /\ Pattern(h.id) = p}
  OBVIOUS
<1>8. Alike(handled) = Keep(seen, T)
  BY <1>3, <1>6, <1>7 DEF Alike
<1>9. PICK A : A = {s \in ToSet(samples) : s.at >= last.at - Window}
  OBVIOUS
<1>10. PICK recent : recent = Keep(samples, A)
  OBVIOUS
<1>11. recent = Recent(samples, sample.at)
  BY <1>9, <1>10 DEF Recent
<1>12. recent \in Seq(Samples) /\ \E f : Subsequence(recent, samples, A, f)
  BY <1>2, <1>10, KeepSays
<1>13. PICK f : Subsequence(recent, samples, A, f)
  BY <1>12
<1>14. PICK B : B = {s \in ToSet(recent) : s.pattern = p}
  OBVIOUS
<1>15. PICK U : U = A \cap B
  OBVIOUS
<1>16. Keep(recent, B) = Keep(samples, U)
  <2>1. Keep(Keep(samples, A), B) = Keep(samples, A \cap B)
    BY <1>2, KeepKeep
  <2> QED BY <1>10, <1>15, <2>1
<1>17. PICK n \in Nat : n = Len(samples) /\ n = Len(seen) /\ DOMAIN samples = 1..n /\ DOMAIN seen = 1..n
  BY <1>2, <1>4, <1>5 DEF Matches
<1>18. ASSUME NEW i \in 1..n
       PROVE  samples[i] \in U <=> seen[i] \in T
  <2>1. samples[i].at = seen[i].at /\ samples[i].pattern = Pattern(seen[i].id)
    BY <1>5, <1>17 DEF Matches
  <2>2. samples[i] \in ToSet(samples) /\ seen[i] \in ToSet(seen)
    BY <1>17 DEF ToSet
  <2>3. samples[i] \in A <=> samples[i].at >= last.at - Window
    BY <1>9, <2>2
  <2>4. seen[i] \in T <=> seen[i].at >= last.at - Window /\ Pattern(seen[i].id) = p
    BY <1>7, <2>2
  <2>5. samples[i] \in A => samples[i] \in ToSet(recent)
    <3> SUFFICES ASSUME samples[i] \in A PROVE samples[i] \in ToSet(recent)
      OBVIOUS
    <3>1. PICK j \in 1..Len(recent) : f[j] = i
      BY <1>13, <1>17 DEF Subsequence
    <3>2. recent[j] = samples[i]
      BY <1>13, <3>1 DEF Subsequence
    <3>3. j \in DOMAIN recent
      BY <1>12, <3>1
    <3> QED BY <3>2, <3>3 DEF ToSet
  <2>6. samples[i] \in ToSet(recent) => (samples[i] \in B <=> samples[i].pattern = p)
    BY <1>14
  <2>7. samples[i] \in B => samples[i].pattern = p
    BY <1>14
  <2> QED BY <1>15, <2>1, <2>3, <2>4, <2>5, <2>6, <2>7
<1>19. Len(Keep(samples, U)) = Len(Keep(seen, T))
  BY <1>2, <1>4, <1>17, <1>18, KeepMatches
<1>20. PICK k : k = Keep(recent, B)
  OBVIOUS
<1>21. Len(k) >= Repetition
  BY <1>8, <1>16, <1>19, <1>20
<1>22. /\ k \in Seq(Samples) /\ Len(k) \in Nat /\ Len(k) <= Len(recent)
       /\ \E g : Subsequence(k, recent, B, g)
  <2>1. k \in Seq(Samples) /\ \E g : Subsequence(k, recent, B, g)
    BY <1>12, <1>20, KeepSays
  <2>2. Len(k) \in Nat /\ Len(k) <= Len(recent)
    BY <1>12, <1>20, KeepShorter
  <2> QED BY <2>1, <2>2
<1>23. PICK g : Subsequence(k, recent, B, g)
  BY <1>22
<1>24. \E i \in DOMAIN recent : recent[i].pattern = p
  <2>1. 1 \in 1..Len(k)
    BY <1>1, <1>21, <1>22
  <2>2. g[1] \in 1..Len(recent) /\ recent[g[1]] = k[1] /\ k[1] \in B
    BY <1>23, <2>1 DEF Subsequence
  <2>3. g[1] \in DOMAIN recent
    BY <1>12, <2>2
  <2> QED BY <1>14, <2>2, <2>3
<1>25. Repeated(recent, p) = Len(k)
  BY <1>14, <1>20 DEF Repeated
<1>26. RepetitionIn(recent)
  <2>1. PICK i \in DOMAIN recent : recent[i].pattern = p
    BY <1>24
  <2>2. Len(recent) >= Repetition
    <3>1. Len(recent) \in Nat
      BY <1>12
    <3> QED BY <1>1, <1>21, <1>22, <3>1
  <2>3. Repeated(recent, recent[i].pattern) >= Repetition
    BY <1>21, <1>25, <2>1
  <2> QED BY <2>2, <2>3 DEF RepetitionIn
<1>27. Detected("repetition", recent, sample)
  BY <1>26 DEF Detected
<1>28. PICK kind : kind = "repetition"
  OBVIOUS
<1>29. PICK W : W = {t \in ToSet(AnomalyTypes) : Detected(t, recent, sample)}
  OBVIOUS
<1>30. Analyze(samples, sample) = Keep(AnomalyTypes, W)
  BY <1>11, <1>29 DEF Analyze
<1>31. /\ AnomalyTypes \in Seq(Kinds) /\ Len(AnomalyTypes) = 4
       /\ DOMAIN AnomalyTypes = 1..4 /\ AnomalyTypes[3] = kind
  BY <1>28 DEF AnomalyTypes, Kinds
<1>32. AnomalyTypes[3] \in W
  <2>1. kind \in ToSet(AnomalyTypes)
    BY <1>31 DEF ToSet
  <2> QED BY <1>27, <1>28, <1>29, <1>31, <2>1
<1>33. PICK a : a = Keep(AnomalyTypes, W)
  OBVIOUS
<1>34. a \in Seq(Kinds) /\ \E h : Subsequence(a, AnomalyTypes, W, h)
  BY <1>31, <1>33, KeepSays
<1>35. PICK h : Subsequence(a, AnomalyTypes, W, h)
  BY <1>34
<1>36. PICK i \in 1..Len(a) : h[i] = 3
  <2>1. 3 \in 1..Len(AnomalyTypes)
    BY <1>31
  <2> QED BY <1>32, <1>35, <2>1 DEF Subsequence
<1>37. a[i] = kind /\ i \in DOMAIN a
  <2>1. a[i] = AnomalyTypes[3]
    BY <1>35, <1>36 DEF Subsequence
  <2> QED BY <1>31, <1>34, <1>36, <2>1
<1> QED BY <1>28, <1>30, <1>33, <1>37 DEF ToSet

(* A store that succeeds: the alerts of due are added and marked.          *)
LEMMA StoresKeep ==
  ASSUME NEW dedup, NEW alerts, NEW failed, NEW clock \in Nat, NEW runs \in Nat,
         AlertsOk(dedup, alerts, failed, clock, runs),
         NEW due \in Seq(Kinds),
         \A i, j \in 1..Len(due) : due[i] = due[j] => i = j,
         \A i \in 1..Len(due) : ~ Suppressed(dedup, due[i], clock),
         NEW news, news = [i \in DOMAIN due |-> [type |-> due[i], at |-> clock, boot |-> runs]],
         NEW marked, marked = Marked(dedup, ToSet(due), clock),
         NEW stored, stored = Stored(alerts, news)
  PROVE  AlertsOk(marked, stored, failed, clock, runs)
<1>1. MaxHistory \in Nat \ {0} /\ Cooldown \in Nat
  BY AnomalyAssumption
<1>2. PICK n \in Nat : n = Len(alerts) /\ DOMAIN alerts = 1..n
  BY DEF AlertsOk
<1>3. PICK k \in Nat : k = Len(due) /\ DOMAIN due = 1..k
  OBVIOUS
<1>4. alerts \in Seq(Alert) /\ n <= MaxHistory /\ failed \in Seq(Failure)
  BY <1>2 DEF AlertsOk
<1>5. \A i \in 1..n :
        /\ alerts[i].at \in Nat /\ alerts[i].boot \in Nat
        /\ alerts[i].at <= clock /\ alerts[i].boot <= runs
        /\ alerts[i].boot = runs =>
             alerts[i].type \in DOMAIN dedup /\ alerts[i].at <= dedup[alerts[i].type]
  <2>1. \A i \in 1..n : alerts[i] \in Alert
    BY <1>2, <1>4
  <2>2. \A i \in 1..n : alerts[i].at \in Nat /\ alerts[i].boot \in Nat
    BY <2>1 DEF Alert
  <2> QED BY <1>2, <2>2 DEF AlertsOk
<1>6. \A i, j \in 1..n :
        i < j => /\ alerts[i].at <= alerts[j].at
                 /\ alerts[i].boot = runs /\ alerts[j].boot = runs
                    /\ alerts[i].type = alerts[j].type
                      => alerts[j].at - alerts[i].at >= Cooldown
  BY <1>2 DEF AlertsOk
<1>7. \A t \in DOMAIN dedup :
        dedup[t] \in Nat /\ dedup[t] <= clock /\ Accounted(t, dedup[t], alerts, failed, runs)
  BY DEF AlertsOk
<1>8. /\ news \in Seq(Alert) /\ Len(news) = k
      /\ \A i \in 1..k : news[i].type = due[i] /\ news[i].at = clock /\ news[i].boot = runs
  <2>1. \A i \in 1..k : [type |-> due[i], at |-> clock, boot |-> runs] \in Alert
    BY <1>3 DEF Alert
  <2>2. PICK A : A = Alert
    OBVIOUS
  <2>3. news \in [1..k -> A]
    BY <1>3, <2>1, <2>2
  <2>4. news \in Seq(A) /\ Len(news) = k
    BY <2>3
  <2>5. \A i \in 1..k : news[i].type = due[i] /\ news[i].at = clock /\ news[i].boot = runs
    BY <1>3
  <2> QED BY <2>2, <2>4, <2>5
<1>9. PICK all : all = alerts \o news
  OBVIOUS
<1>10. /\ all \in Seq(Alert) /\ Len(all) = n + k
       /\ \A i \in 1..n : all[i] = alerts[i]
       /\ \A i \in 1..k : all[n + i] = news[i]
  <2>1. PICK A : A = Alert
    OBVIOUS
  <2>2. alerts \in Seq(A) /\ news \in Seq(A) /\ n = Len(alerts) /\ k = Len(news)
    BY <1>2, <1>4, <1>8, <2>1
  <2>3. /\ all \in Seq(A) /\ Len(all) = n + k
        /\ \A i \in 1..n : all[i] = alerts[i]
        /\ \A i \in 1..k : all[n + i] = news[i]
    BY <1>9, <2>2
  <2> QED BY <2>1, <2>3
<1>11. \A i \in (n + 1)..(n + k) : i - n \in 1..k /\ all[i] = news[i - n]
  <2> SUFFICES ASSUME NEW i \in (n + 1)..(n + k)
               PROVE  i - n \in 1..k /\ all[i] = news[i - n]
    OBVIOUS
  <2>1. i - n \in 1..k /\ n + (i - n) = i
    OBVIOUS
  <2> QED BY <1>10, <2>1
<1>12. /\ DOMAIN marked = DOMAIN dedup \cup ToSet(due)
       /\ \A t \in ToSet(due) : marked[t] = clock
       /\ \A t \in DOMAIN dedup \ ToSet(due) : marked[t] = dedup[t]
  BY DEF Marked
<1>13. \A i \in 1..k : due[i] \in ToSet(due)
  BY <1>3 DEF ToSet
<1>14. \A t \in ToSet(due) : \E i \in 1..k : due[i] = t
  BY <1>3 DEF ToSet
<1>15. \A t \in DOMAIN dedup : marked[t] \in Nat /\ dedup[t] <= marked[t] /\ t \in DOMAIN marked
  <2> SUFFICES ASSUME NEW t \in DOMAIN dedup
               PROVE  marked[t] \in Nat /\ dedup[t] <= marked[t] /\ t \in DOMAIN marked
    OBVIOUS
  <2>1. dedup[t] \in Nat /\ dedup[t] <= clock
    BY <1>7
  <2>2. t \in DOMAIN marked
    BY <1>12
  <2>3. CASE t \in ToSet(due)
    BY <1>12, <2>1, <2>2, <2>3
  <2>4. CASE t \notin ToSet(due)
    BY <1>12, <2>1, <2>2, <2>4
  <2> QED BY <2>3, <2>4
(* What holds of all, before the oldest are deleted.                       *)
<1>16. \A i \in 1..(n + k) :
         /\ all[i].at \in Nat /\ all[i].at <= clock /\ all[i].boot <= runs
         /\ all[i].boot = runs =>
              all[i].type \in DOMAIN marked /\ all[i].at <= marked[all[i].type]
  <2> SUFFICES ASSUME NEW i \in 1..(n + k)
               PROVE  /\ all[i].at \in Nat /\ all[i].at <= clock /\ all[i].boot <= runs
                      /\ all[i].boot = runs =>
                           all[i].type \in DOMAIN marked /\ all[i].at <= marked[all[i].type]
    OBVIOUS
  <2>1. CASE i \in 1..n
    <3>1. all[i] = alerts[i]
      BY <1>10, <2>1
    <3>2. all[i].at \in Nat /\ all[i].at <= clock /\ all[i].boot <= runs
      BY <1>5, <2>1, <3>1
    <3>3. ASSUME all[i].boot = runs
          PROVE  all[i].type \in DOMAIN marked /\ all[i].at <= marked[all[i].type]
      <4>1. PICK t : t = all[i].type
        OBVIOUS
      <4>2. t \in DOMAIN dedup /\ all[i].at <= dedup[t]
        BY <1>5, <2>1, <3>1, <3>3, <4>1
      <4>3. dedup[t] \in Nat /\ marked[t] \in Nat /\ dedup[t] <= marked[t] /\ t \in DOMAIN marked
        BY <1>7, <1>15, <4>2
      <4>4. all[i].at <= marked[t]
        BY <3>2, <4>2, <4>3
      <4> QED BY <4>1, <4>3, <4>4
    <3> QED BY <3>2, <3>3
  <2>2. CASE i \in (n + 1)..(n + k)
    <3>1. PICK j \in 1..k : all[i] = news[j]
      BY <1>11, <2>2
    <3>2. all[i].type = due[j] /\ all[i].at = clock /\ all[i].boot = runs
      BY <1>8, <3>1
    <3>3. all[i].type \in ToSet(due)
      BY <1>13, <3>2
    <3> QED BY <1>12, <3>2, <3>3
  <2> QED BY <2>1, <2>2
<1>17. \A i, j \in 1..(n + k) :
         i < j => /\ all[i].at <= all[j].at
                  /\ all[i].boot = runs /\ all[j].boot = runs
                     /\ all[i].type = all[j].type
                       => all[j].at - all[i].at >= Cooldown
  <2> SUFFICES ASSUME NEW i \in 1..(n + k), NEW j \in 1..(n + k), i < j
               PROVE  /\ all[i].at <= all[j].at
                      /\ all[i].boot = runs /\ all[j].boot = runs
                         /\ all[i].type = all[j].type
                           => all[j].at - all[i].at >= Cooldown
    OBVIOUS
  <2>1. CASE j \in 1..n
    <3>1. i \in 1..n
      BY <2>1
    <3>2. all[i] = alerts[i] /\ all[j] = alerts[j]
      BY <1>10, <2>1, <3>1
    <3> QED BY <1>6, <2>1, <3>1, <3>2
  <2>2. CASE i \in 1..n /\ j \in (n + 1)..(n + k)
    <3>1. PICK l \in 1..k : all[j] = news[l]
      BY <1>11, <2>2
    <3>2. all[j].type = due[l] /\ all[j].at = clock
      BY <1>8, <3>1
    <3>3. all[i] = alerts[i]
      BY <1>10, <2>2
    <3>4. all[i].at <= clock /\ all[i].at \in Nat
      BY <1>16, <2>2
    <3>5. ASSUME all[i].boot = runs, all[i].type = all[j].type
          PROVE  clock - all[i].at >= Cooldown
      <4>1. PICK t : t = due[l]
        OBVIOUS
      <4>2. all[i].type = t
        BY <3>2, <3>5, <4>1
      <4>3. t \in DOMAIN dedup /\ all[i].at <= dedup[t] /\ dedup[t] \in Nat
        BY <1>5, <1>7, <2>2, <3>3, <3>5, <4>2
      <4>4. ~ Suppressed(dedup, t, clock)
        BY <1>3, <4>1
      <4>5. ~ (clock - dedup[t] < Cooldown)
        BY <4>3, <4>4 DEF Suppressed
      <4> QED BY <1>1, <3>4, <4>3, <4>5
    <3> QED BY <3>2, <3>4, <3>5
  <2>3. CASE i \in (n + 1)..(n + k)
    <3>1. j \in (n + 1)..(n + k)
      BY <2>3
    <3>2. all[i] = news[i - n] /\ all[j] = news[j - n] /\ i - n \in 1..k /\ j - n \in 1..k
      BY <1>11, <2>3, <3>1
    <3>3. all[i].at = clock /\ all[j].at = clock
      BY <1>8, <3>2
    <3>4. all[i].type = due[i - n] /\ all[j].type = due[j - n]
      BY <1>8, <3>2
    <3>5. i - n # j - n
      OBVIOUS
    <3>6. all[i].type # all[j].type
      BY <1>3, <3>2, <3>4, <3>5
    <3> QED BY <3>3, <3>6
  <2> QED BY <2>1, <2>2, <2>3
<1>18. stored \in Seq(Alert) /\ \E o : IsNewest(stored, all, MaxHistory, o)
  BY <1>1, <1>9, <1>10, NewestSays DEF Stored
<1>19. PICK o : IsNewest(stored, all, MaxHistory, o)
  BY <1>18
<1>20. PICK l \in Nat : l = Len(stored) /\ DOMAIN stored = 1..l
  <2>1. stored \in Seq(Alert)
    BY <1>18
  <2>2. Len(stored) \in Nat /\ DOMAIN stored = 1..Len(stored)
    BY <2>1
  <2> QED BY <2>2
<1>21. /\ o \in Nat /\ n + k = l + o /\ l <= MaxHistory /\ (o = 0 \/ l = MaxHistory)
       /\ \A i \in 1..l : i + o \in 1..(n + k) /\ stored[i] = all[i + o]
  BY <1>10, <1>19, <1>20 DEF IsNewest
(* A row of all is stored, or has been deleted as older than those stored. *)
<1>22. ASSUME NEW i \in 1..(n + k)
       PROVE  \/ \E q \in 1..l : stored[q] = all[i]
              \/ l = MaxHistory /\ \A q \in 1..l : all[i].at <= stored[q].at
  <2>1. CASE i > o
    <3>1. i - o \in 1..l /\ (i - o) + o = i
      BY <1>21, <2>1
    <3> QED BY <1>21, <3>1
  <2>2. CASE ~ (i > o)
    <3>1. o # 0
      BY <2>2
    <3>2. ASSUME NEW q \in 1..l PROVE all[i].at <= stored[q].at
      <4>1. i < q + o /\ q + o \in 1..(n + k)
        BY <1>21, <2>2
      <4> QED BY <1>17, <1>21, <4>1
    <3> QED BY <1>21, <3>1, <3>2
  <2> QED BY <1>21, <2>1, <2>2
<1>23. ASSUME NEW t \in DOMAIN marked
       PROVE  /\ marked[t] \in Nat /\ marked[t] <= clock
              /\ Accounted(t, marked[t], stored, failed, runs)
  <2>1. CASE t \in ToSet(due)
    <3>1. PICK j \in 1..k : due[j] = t
      BY <1>14, <2>1
    <3>2. n + j \in 1..(n + k)
      OBVIOUS
    <3>3. all[n + j].type = t /\ all[n + j].at = clock /\ all[n + j].boot = runs
      <4>1. all[n + j] = news[j]
        BY <1>10
      <4>2. news[j].type = t /\ news[j].at = clock /\ news[j].boot = runs
        BY <1>8, <3>1
      <4> QED BY <4>1, <4>2
    <3>4. marked[t] = clock
      BY <1>12, <2>1
    <3>5. \/ \E q \in 1..l : stored[q] = all[n + j]
          \/ l = MaxHistory /\ \A q \in 1..l : clock <= stored[q].at
      BY <1>22, <3>2, <3>3
    <3>6. Accounted(t, clock, stored, failed, runs)
      BY <1>20, <3>3, <3>5 DEF Accounted
    <3> QED BY <3>4, <3>6
  <2>2. CASE t \notin ToSet(due)
    <3>1. t \in DOMAIN dedup /\ marked[t] = dedup[t]
      BY <1>12, <2>2
    <3>2. PICK at : at = dedup[t]
      OBVIOUS
    <3>3. at \in Nat /\ at <= clock /\ Accounted(t, at, alerts, failed, runs)
      BY <1>7, <3>1, <3>2
    <3>4. CASE \E i \in DOMAIN alerts :
                 alerts[i].type = t /\ alerts[i].boot = runs /\ alerts[i].at = at
      <4>1. PICK i \in 1..n : alerts[i].type = t /\ alerts[i].boot = runs /\ alerts[i].at = at
        BY <1>2, <3>4
      <4>2. i \in 1..(n + k) /\ all[i] = alerts[i]
        BY <1>10
      <4>3. \/ \E q \in 1..l : stored[q] = all[i]
            \/ l = MaxHistory /\ \A q \in 1..l : all[i].at <= stored[q].at
        BY <1>22, <4>2
      <4>4. Accounted(t, at, stored, failed, runs)
        <5>1. CASE \E q \in 1..l : stored[q] = all[i]
          BY <1>20, <4>1, <4>2, <5>1 DEF Accounted
        <5>2. CASE l = MaxHistory /\ \A q \in 1..l : all[i].at <= stored[q].at
          BY <1>20, <4>1, <4>2, <5>2 DEF Accounted
        <5> QED BY <4>3, <5>1, <5>2
      <4> QED BY <3>1, <3>2, <3>3, <4>4
    <3>5. CASE \E i \in DOMAIN failed : failed[i].type = t /\ failed[i].at = at
      BY <3>1, <3>2, <3>3, <3>5 DEF Accounted
    <3>6. CASE Len(alerts) = MaxHistory /\ \A i \in DOMAIN alerts : at <= alerts[i].at
      <4>1. l = MaxHistory
        BY <1>1, <1>2, <1>21, <3>6
      <4>2. ASSUME NEW q \in 1..l PROVE at <= stored[q].at
        <5>1. q + o \in 1..(n + k) /\ stored[q] = all[q + o]
          BY <1>21
        <5>2. CASE q + o \in 1..n
          BY <1>2, <1>10, <3>6, <5>1, <5>2
        <5>3. CASE q + o \in (n + 1)..(n + k)
          <6>1. PICK j \in 1..k : all[q + o] = news[j]
            BY <1>11, <5>3
          <6>2. stored[q].at = clock
            BY <1>8, <5>1, <6>1
          <6> QED BY <3>3, <6>2
        <5> QED BY <5>1, <5>2, <5>3
      <4> QED BY <1>20, <3>1, <3>2, <3>3, <4>1, <4>2 DEF Accounted
    <3> QED BY <3>3, <3>4, <3>5, <3>6 DEF Accounted
  <2> QED BY <2>1, <2>2
<1>24. \A i \in 1..l :
         /\ stored[i].at <= clock /\ stored[i].boot <= runs
         /\ stored[i].boot = runs =>
              stored[i].type \in DOMAIN marked /\ stored[i].at <= marked[stored[i].type]
  BY <1>16, <1>21
<1>25. \A i, j \in 1..l :
         i < j => /\ stored[i].at <= stored[j].at
                  /\ stored[i].boot = runs /\ stored[j].boot = runs
                     /\ stored[i].type = stored[j].type
                       => stored[j].at - stored[i].at >= Cooldown
  <2> SUFFICES ASSUME NEW i \in 1..l, NEW j \in 1..l, i < j
               PROVE  /\ stored[i].at <= stored[j].at
                      /\ stored[i].boot = runs /\ stored[j].boot = runs
                         /\ stored[i].type = stored[j].type
                           => stored[j].at - stored[i].at >= Cooldown
    OBVIOUS
  <2>1. i + o < j + o /\ i + o \in 1..(n + k) /\ j + o \in 1..(n + k)
    BY <1>21
  <2>2. stored[i] = all[i + o] /\ stored[j] = all[j + o]
    BY <1>21
  <2> QED BY <1>17, <2>1, <2>2
<1> QED BY ZenonT(60), <1>4, <1>18, <1>20, <1>21, <1>23, <1>24, <1>25 DEF AlertsOk

(* A store that throws: t is marked, and the failure recorded.             *)
LEMMA FailureKeeps ==
  ASSUME NEW dedup, NEW alerts, NEW failed, NEW clock \in Nat, NEW runs \in Nat,
         AlertsOk(dedup, alerts, failed, clock, runs),
         NEW t \in Kinds, NEW r \in Requests,
         NEW x, x = [id |-> r, type |-> t, at |-> clock],
         NEW more, Grown(more, failed, x),
         NEW marked, marked = Marked(dedup, {t}, clock)
  PROVE  AlertsOk(marked, alerts, more, clock, runs)
<1>1. /\ alerts \in Seq(Alert) /\ Len(alerts) <= MaxHistory /\ failed \in Seq(Failure)
      /\ \A i, j \in DOMAIN alerts :
           i < j => /\ alerts[i].at <= alerts[j].at
                    /\ alerts[i].boot = runs /\ alerts[j].boot = runs
                       /\ alerts[i].type = alerts[j].type
                         => alerts[j].at - alerts[i].at >= Cooldown
  BY DEF AlertsOk
<1>2. \A i \in DOMAIN alerts :
        /\ alerts[i].at <= clock /\ alerts[i].boot <= runs
        /\ alerts[i].boot = runs =>
             alerts[i].type \in DOMAIN dedup /\ alerts[i].at <= dedup[alerts[i].type]
  BY DEF AlertsOk
<1>3. \A u \in DOMAIN dedup :
        dedup[u] \in Nat /\ dedup[u] <= clock /\ Accounted(u, dedup[u], alerts, failed, runs)
  BY DEF AlertsOk
<1>4. PICK k \in Nat : k = Len(failed) /\ DOMAIN failed = 1..k
  BY <1>1
<1>5. x \in Failure /\ x.type = t /\ x.at = clock
  BY DEF Failure
<1>6. /\ more \in Seq(Failure) /\ DOMAIN more = 1..(k + 1) /\ more[k + 1] = x
      /\ \A i \in 1..k : more[i] = failed[i]
  <2>1. PICK F : F = Failure
    OBVIOUS
  <2>2. PICK y : y = x
    OBVIOUS
  <2>3. failed \in Seq(F) /\ y \in F /\ more = Append(failed, y)
    BY <1>1, <1>5, <2>1, <2>2 DEF Grown
  <2>4. /\ more \in Seq(F) /\ Len(more) = k + 1 /\ DOMAIN more = 1..(k + 1) /\ more[k + 1] = y
        /\ \A i \in 1..k : more[i] = failed[i]
    BY <1>4, <2>3
  <2> QED BY <2>1, <2>2, <2>4
<1>7. /\ DOMAIN marked = DOMAIN dedup \cup {t} /\ marked[t] = clock
      /\ \A u \in DOMAIN dedup : u # t => marked[u] = dedup[u]
  BY DEF Marked
<1>8. ASSUME NEW i \in DOMAIN alerts
      PROVE  /\ alerts[i].at <= clock /\ alerts[i].boot <= runs
             /\ alerts[i].boot = runs =>
                  alerts[i].type \in DOMAIN marked /\ alerts[i].at <= marked[alerts[i].type]
  <2>1. CASE alerts[i].type = t
    BY <1>2, <1>7, <2>1
  <2>2. CASE alerts[i].type # t
    BY <1>2, <1>7, <2>2
  <2> QED BY <2>1, <2>2
<1>9. ASSUME NEW u \in DOMAIN marked
      PROVE  /\ marked[u] \in Nat /\ marked[u] <= clock
             /\ Accounted(u, marked[u], alerts, more, runs)
  <2>1. CASE u = t
    <3>1. k + 1 \in DOMAIN more
      BY <1>6
    <3>2. Accounted(t, clock, alerts, more, runs)
      BY <1>5, <1>6, <3>1 DEF Accounted
    <3> QED BY <1>7, <2>1, <3>2
  <2>2. CASE u # t
    <3>1. u \in DOMAIN dedup /\ marked[u] = dedup[u]
      BY <1>7, <2>2
    <3>2. dedup[u] \in Nat /\ dedup[u] <= clock /\ Accounted(u, dedup[u], alerts, failed, runs)
      BY <1>3, <3>1
    <3>3. \A i \in DOMAIN failed : i \in DOMAIN more /\ more[i] = failed[i]
      BY <1>4, <1>6
    <3>4. Accounted(u, dedup[u], alerts, more, runs)
      BY <3>2, <3>3 DEF Accounted
    <3> QED BY <3>1, <3>2, <3>4
  <2> QED BY <2>1, <2>2
<1> QED BY <1>1, <1>6, <1>8, <1>9 DEF AlertsOk

(* The set of what is kept, and that nothing is kept twice.                *)
LEMMA KeepSet ==
  ASSUME NEW R, NEW s \in Seq(R), NEW S
  PROVE  ToSet(Keep(s, S)) = ToSet(s) \cap S
<1>1. PICK k : k = Keep(s, S)
  OBVIOUS
<1>2. k \in Seq(R) /\ \E p : Subsequence(k, s, S, p)
  BY <1>1, KeepSays
<1>3. PICK p : Subsequence(k, s, S, p)
  BY <1>2
<1>4. k \in Seq(R)
  BY <1>2
<1>5. DOMAIN k = 1..Len(k) /\ DOMAIN s = 1..Len(s)
  BY <1>4
<1>6. ASSUME NEW x \in ToSet(k) PROVE x \in ToSet(s) \cap S
  <2>1. PICK i \in 1..Len(k) : k[i] = x
    BY <1>5 DEF ToSet
  <2>2. p[i] \in 1..Len(s) /\ x = s[p[i]] /\ x \in S
    BY <1>3, <2>1 DEF Subsequence
  <2> QED BY <1>5, <2>2 DEF ToSet
<1>7. ASSUME NEW x \in ToSet(s), x \in S PROVE x \in ToSet(k)
  <2>1. PICK m \in 1..Len(s) : s[m] = x
    BY <1>5 DEF ToSet
  <2>2. PICK i \in 1..Len(k) : p[i] = m
    BY <1>3, <1>7, <2>1 DEF Subsequence
  <2>3. k[i] = x
    BY <1>3, <2>1, <2>2 DEF Subsequence
  <2> QED BY <1>5, <2>3 DEF ToSet
<1> QED BY <1>1, <1>6, <1>7

LEMMA AnalyzeSays ==
  ASSUME NEW samples, NEW sample
  PROVE  Analyze(samples, sample) \in Seq(Kinds) /\ IsDistinct(Analyze(samples, sample))
<1>1. PICK W : W = {t \in ToSet(AnomalyTypes) :
                      Detected(t, Recent(samples, sample.at), sample)}
  OBVIOUS
<1>2. Analyze(samples, sample) = Keep(AnomalyTypes, W)
  BY <1>1 DEF Analyze
<1>3. AnomalyTypes \in Seq(Kinds)
  BY DEF AnomalyTypes, Kinds
<1>4. IsDistinct(AnomalyTypes)
  <2>1. Len(AnomalyTypes) = 4
    BY DEF AnomalyTypes
  <2>2. \A i, j \in 1..4 : AnomalyTypes[i] = AnomalyTypes[j] => i = j
    BY DEF AnomalyTypes
  <2> QED BY <2>1, <2>2 DEF IsDistinct
<1>5. Keep(AnomalyTypes, W) \in Seq(Kinds)
  BY <1>3, KeepSays
<1>6. IsDistinct(Keep(AnomalyTypes, W))
  BY <1>3, <1>4, KeepDistinct
<1> QED BY <1>2, <1>5, <1>6

LEMMA AccountedTells ==
  ASSUME NEW dedup, NEW alerts, NEW failed, NEW clock \in Nat, NEW runs, NEW last,
         AlertsOk(dedup, alerts, failed, clock, runs),
         "repetition" \in DOMAIN dedup, IsFresh(dedup["repetition"], clock)
  PROVE  Tells(alerts, failed, last, clock, runs)
<1>1. PICK t : t = "repetition"
  OBVIOUS
<1>2. PICK at : at = dedup[t]
  OBVIOUS
<1>3. at \in Nat /\ IsFresh(at, clock) /\ Accounted(t, at, alerts, failed, runs)
  BY <1>1, <1>2 DEF AlertsOk
<1>4. CASE \E i \in DOMAIN alerts :
             alerts[i].type = t /\ alerts[i].boot = runs /\ alerts[i].at = at
  BY <1>1, <1>3, <1>4 DEF Tells
<1>5. CASE \E i \in DOMAIN failed : failed[i].type = t /\ failed[i].at = at
  BY <1>1, <1>3, <1>5 DEF Tells
<1>6. CASE Len(alerts) = MaxHistory /\ \A i \in DOMAIN alerts : at <= alerts[i].at
  <2>1. ASSUME NEW i \in DOMAIN alerts PROVE IsFresh(alerts[i].at, clock)
    <3>1. PICK x : x = alerts[i].at
      OBVIOUS
    <3>2. x \in Nat /\ x <= clock
      <4>1. alerts \in Seq(Alert) /\ alerts[i].at <= clock
        BY DEF AlertsOk
      <4>2. alerts[i] \in Alert
        BY <4>1
      <4> QED BY <3>1, <4>1, <4>2 DEF Alert
    <3>3. at <= x
      BY <1>6, <3>1
    <3>4. Cooldown \in Nat
      BY AnomalyAssumption
    <3>5. IsFresh(x, clock)
      BY <1>3, <3>2, <3>3, <3>4 DEF IsFresh
    <3> QED BY <3>1, <3>5
  <2> QED BY <1>6, <2>1 DEF Tells
<1> QED BY <1>3, <1>4, <1>5, <1>6 DEF Accounted

(* The invariant of the alarms.                                            *)
NotedOk(handled, clock) ==
  handled \in Seq(Handling) /\ \A i \in DOMAIN handled : handled[i].at <= clock

AlarmsOk(m, d, g, clock, runs, alerting) ==
  /\ NotedOk(g.handled, clock)
  /\ AlertsOk(m.dedup, d.alerts, g.failed, clock, runs)
  /\ alerting => SamplesOk(m.samples, g.handled)
  /\ ToldOk(alerting, d.alerts, g.failed, g.handled, clock, runs)

LEMMA LastGrown ==
  ASSUME NEW R, NEW s \in Seq(R), NEW x \in R, NEW t, Grown(t, s, x)
  PROVE  Len(t) \in Nat /\ t # <<>> /\ t[Len(t)] = x
BY DEF Grown

LEMMA HandledAlarms ==
  ASSUME NEW m, NEW d, NEW g, Shape(m, d, g), NEW r \in Requests,
         NEW f, NEW failing, NEW w, IsWorld(w, m, d, g),
         now \in Nat, boot \in Nat, AlarmsOk(m, d, g, now, boot, config.alerting),
         NEW h, HandledIs(h, w, r, f, failing)
  PROVE  AlarmsOk(h.mem, h.disk, h.ghost, now, boot, config.alerting)
<1>0. PICK e : e = FinalOf(r, f, failing)
  OBVIOUS
<1>1. PICK types, fired, throws : Alarms(h, m, d, g, r, types, fired, throws)
  BY <1>0, HandledFields
<1>2. PICK dedup : dedup = m.dedup
  OBVIOUS
<1>3. PICK alerts : alerts = d.alerts
  OBVIOUS
<1>4. PICK failed : failed = g.failed
  OBVIOUS
<1>5. PICK handled : handled = g.handled
  OBVIOUS
<1>6. AlertsOk(dedup, alerts, failed, now, boot)
  BY <1>2, <1>3, <1>4 DEF AlarmsOk
<1>7. PICK marked : marked = h.mem.dedup
  OBVIOUS
<1>8. PICK stored : stored = h.disk.alerts
  OBVIOUS
<1>9. PICK fails : fails = h.ghost.failed
  OBVIOUS
<1>10. PICK more : more = h.ghost.handled
  OBVIOUS
<1>11. PICK samples : samples = h.mem.samples
  OBVIOUS
<1>12. PICK note : note = Notes(r)
  OBVIOUS
<1>13. Grown(more, handled, note) /\ note = [id |-> r, at |-> now, boot |-> boot]
  BY <1>1, <1>5, <1>10, <1>12 DEF Alarms, Grown, Notes
<1>26. NotedOk(more, now)
  <2>1. handled \in Seq(Handling) /\ \A i \in DOMAIN handled : handled[i].at <= now
    BY <1>5 DEF AlarmsOk, NotedOk
  <2>2. note \in Handling /\ note.at = now
    BY <1>13 DEF Handling
  <2>3. PICK n \in Nat : n = Len(handled) /\ DOMAIN handled = 1..n
    BY <2>1
  <2>4. /\ more \in Seq(Handling) /\ DOMAIN more = 1..(n + 1) /\ more[n + 1] = note
        /\ \A i \in 1..n : more[i] = handled[i]
    <3>1. PICK H : H = Handling
      OBVIOUS
    <3>2. PICK x : x = note
      OBVIOUS
    <3>3. handled \in Seq(H) /\ x \in H /\ more = Append(handled, x)
      BY <1>13, <2>1, <2>2, <3>1, <3>2 DEF Grown
    <3>4. /\ more \in Seq(H) /\ Len(more) = n + 1 /\ DOMAIN more = 1..(n + 1)
          /\ more[n + 1] = x /\ \A i \in 1..n : more[i] = handled[i]
      BY <2>3, <3>3
    <3> QED BY <3>1, <3>2, <3>4
  <2>5. ASSUME NEW i \in 1..(n + 1) PROVE more[i].at <= now
    <3>1. CASE i = n + 1
      BY <2>2, <2>4, <3>1
    <3>2. CASE i \in 1..n
      BY <2>1, <2>3, <2>4, <3>2
    <3> QED BY <3>1, <3>2
  <2> QED BY <2>4, <2>5 DEF NotedOk
<1>14. config.alerting => SamplesOk(samples, more)
  <2> SUFFICES ASSUME config.alerting PROVE SamplesOk(samples, more)
    OBVIOUS
  <2>1. PICK x : x = Sample(r)
    OBVIOUS
  <2>2. x = [at |-> now, cost |-> Attr[r].cost, pattern |-> Pattern(r)]
    BY <2>1 DEF Sample
  <2>3. samples = Sampled(m.samples, x)
    BY <1>1, <1>11, <2>1 DEF Alarms
  <2>4. SamplesOk(m.samples, handled)
    BY <1>5 DEF AlarmsOk
  <2> QED BY <1>13, <2>2, <2>3, <2>4, SampledKeeps
<1>15. types = IF config.alerting THEN Analyze(samples, Sample(r)) ELSE <<>>
  BY <1>1, <1>11 DEF Alarms
<1>16. types \in Seq(Kinds) /\ IsDistinct(types)
  <2>1. CASE config.alerting
    BY <1>15, <2>1, AnalyzeSays
  <2>2. CASE ~ config.alerting
    <3>1. types = <<>>
      BY <1>15, <2>2
    <3>2. types \in Seq(Kinds) /\ Len(types) = 0
      BY <3>1
    <3> QED BY <3>2 DEF IsDistinct
  <2> QED BY <2>1, <2>2
<1>17. PICK D : D = {t \in ToSet(types) : ~ Suppressed(dedup, t, now)}
  OBVIOUS
<1>18. PICK due : due = Keep(types, D)
  OBVIOUS
<1>19. due \in Seq(Kinds) /\ IsDistinct(due) /\ ToSet(due) = D
  <2>1. due \in Seq(Kinds)
    BY <1>16, <1>18, KeepSays
  <2>2. IsDistinct(due)
    BY <1>16, <1>18, KeepDistinct
  <2>3. ToSet(due) = ToSet(types) \cap D
    BY <1>16, <1>18, KeepSet
  <2> QED BY <1>17, <2>1, <2>2, <2>3
<1>20. PICK news : news = [i \in DOMAIN due |-> [type |-> due[i], at |-> now, boot |-> boot]]
  OBVIOUS
<1>21. fired = [dedup  |-> Marked(dedup, IF throws /\ due # <<>> THEN {due[1]} ELSE ToSet(due), now),
                thrown |-> IF throws /\ due # <<>> THEN due[1] ELSE "none",
                alerts |-> IF throws /\ due # <<>> THEN alerts ELSE Stored(alerts, news)]
  <2>1. fired = Fired(dedup, alerts, types, now, boot, throws)
    BY <1>1, <1>2, <1>3 DEF Alarms
  <2> QED BY <1>17, <1>18, <1>20, <2>1 DEF Fired
<1>22. /\ marked = fired.dedup /\ stored = fired.alerts
       /\ fails = IF fired.thrown # "none"
                  THEN Append(failed, [id |-> r, type |-> fired.thrown, at |-> now])
                  ELSE failed
  BY <1>1, <1>4, <1>7, <1>8, <1>9 DEF Alarms
<1>23. \A i \in 1..Len(due) : due[i] \in D /\ ~ Suppressed(dedup, due[i], now)
  <2>1. DOMAIN due = 1..Len(due)
    BY <1>19
  <2>2. \A i \in 1..Len(due) : due[i] \in D
    BY <1>19, <2>1 DEF ToSet
  <2> QED BY <1>17, <2>2
<1>24. CASE throws /\ due # <<>>
  <2>1. PICK t : t = due[1]
    OBVIOUS
  <2>2. t \in Kinds
    BY <1>19, <1>24, <2>1
  <2>3. t # "none"
    BY <2>2 DEF Kinds
  <2>4. PICK x : x = [id |-> r, type |-> t, at |-> now]
    OBVIOUS
  <2>5. fired.dedup = Marked(dedup, {t}, now) /\ fired.thrown = t /\ fired.alerts = alerts
    BY <1>21, <1>24, <2>1
  <2>6. marked = Marked(dedup, {t}, now) /\ stored = alerts /\ Grown(fails, failed, x)
    BY <1>22, <2>3, <2>4, <2>5 DEF Grown
  <2>7. AlertsOk(marked, stored, fails, now, boot)
    BY <1>6, <2>2, <2>4, <2>6, FailureKeeps
  <2>8. Tells(stored, fails, note, now, boot)
    <3>1. failed \in Seq(Failure)
      BY <1>6 DEF AlertsOk
    <3>2. fails = Append(failed, x)
      BY <2>6 DEF Grown
    <3>3. PICK k \in Nat : k = Len(failed)
      BY <3>1
    <3>4. k + 1 \in DOMAIN fails /\ fails[k + 1] = x
      <4>1. PICK F : F = Failure
        OBVIOUS
      <4>2. failed \in Seq(F)
        BY <3>1, <4>1
      <4> QED BY <3>2, <3>3, <4>2
    <3>5. x.id = r /\ note.id = r
      BY <1>13, <2>4
    <3> QED BY <3>4, <3>5 DEF Tells
  <2>9. config.alerting => more[Len(more)] = note
    <3> SUFFICES ASSUME config.alerting PROVE more[Len(more)] = note
      OBVIOUS
    <3>1. handled \in Seq(Handling)
      BY <1>5 DEF AlarmsOk, NotedOk
    <3>2. note \in Handling
      BY <1>13 DEF Handling
    <3> QED BY <1>13, <3>1, <3>2, LastGrown
  <2>10. ToldOk(config.alerting, stored, fails, more, now, boot)
    BY <2>8, <2>9 DEF ToldOk
  <2> QED BY <1>7, <1>8, <1>9, <1>10, <1>11, <1>14, <1>26, <2>7, <2>10 DEF AlarmsOk
<1>25. CASE ~ (throws /\ due # <<>>)
  <2>1. /\ fired.dedup = Marked(dedup, ToSet(due), now) /\ fired.thrown = "none"
        /\ fired.alerts = Stored(alerts, news)
    BY <1>21, <1>25
  <2>2. marked = Marked(dedup, ToSet(due), now) /\ stored = Stored(alerts, news) /\ fails = failed
    BY <1>22, <2>1
  <2>3. AlertsOk(marked, stored, fails, now, boot)
    <3>1. \A i, j \in 1..Len(due) : due[i] = due[j] => i = j
      BY <1>19 DEF IsDistinct
    <3>2. due \in Seq(Kinds)
      BY <1>19
    <3>3. \A i \in 1..Len(due) : ~ Suppressed(dedup, due[i], now)
      BY <1>23
    <3> QED BY <1>6, <1>20, <2>2, <3>1, <3>2, <3>3, StoresKeep
  <2>4. ASSUME config.alerting, more # <<>>, more[Len(more)].at = now,
               Len(Alike(more)) >= Repetition
        PROVE  Tells(stored, fails, more[Len(more)], now, boot)
    <3>1. PICK last : last = more[Len(more)]
      OBVIOUS
    <3>2. PICK x : x = Sample(r)
      OBVIOUS
    <3>3. x.at = last.at
      BY <2>4, <3>1, <3>2 DEF Sample
    <3>4. PICK t : t = "repetition"
      OBVIOUS
    <3>5. SamplesOk(samples, more)
      BY <1>14, <2>4
    <3>6. t \in ToSet(types)
      <4>1. "repetition" \in ToSet(Analyze(samples, x))
        BY <2>4, <3>1, <3>3, <3>5, LoopDetected
      <4> QED BY <1>15, <2>4, <3>2, <3>4, <4>1
    <3>7. /\ DOMAIN marked = DOMAIN dedup \cup D
          /\ \A u \in DOMAIN dedup \cup D : marked[u] = IF u \in D THEN now ELSE dedup[u]
      BY <1>19, <2>2 DEF Marked
    <3>8. t \in DOMAIN marked /\ IsFresh(marked[t], now)
      <4>1. CASE Suppressed(dedup, t, now)
        <5>1. t \in DOMAIN dedup /\ now - dedup[t] < Cooldown
          BY <4>1 DEF Suppressed
        <5>2. t \notin D
          BY <1>17, <4>1
        <5>3. marked[t] = dedup[t] /\ t \in DOMAIN marked
          BY <3>7, <5>1, <5>2
        <5>4. dedup[t] \in Nat /\ Cooldown \in Nat
          BY <1>6, <5>1, AnomalyAssumption DEF AlertsOk
        <5>5. dedup[t] > now - Cooldown
          BY <5>1, <5>4
        <5> QED BY <5>3, <5>5 DEF IsFresh
      <4>2. CASE ~ Suppressed(dedup, t, now)
        <5>1. t \in D
          BY <1>17, <3>6, <4>2
        <5>2. marked[t] = now /\ t \in DOMAIN marked
          BY <3>7, <5>1
        <5> QED BY <5>2 DEF IsFresh
      <4> QED BY <4>1, <4>2
    <3>9. Tells(stored, fails, last, now, boot)
      BY <2>3, <3>4, <3>8, AccountedTells
    <3> QED BY <3>1, <3>9
  <2>5. ToldOk(config.alerting, stored, fails, more, now, boot)
    BY <2>4 DEF ToldOk
  <2> QED BY <1>7, <1>8, <1>9, <1>10, <1>11, <1>14, <1>26, <2>3, <2>5 DEF AlarmsOk
<1> QED BY <1>24, <1>25

(* What the alarms do not depend on may change.                            *)
LEMMA SameAlarms ==
  ASSUME NEW m, NEW d, NEW g, NEW clock, NEW runs, NEW alerting,
         AlarmsOk(m, d, g, clock, runs, alerting),
         NEW n, n.samples = m.samples, n.dedup = m.dedup,
         NEW e, e.alerts = d.alerts,
         NEW k, k.handled = g.handled, k.failed = g.failed
  PROVE  AlarmsOk(n, e, k, clock, runs, alerting)
<1>1. /\ AlertsOk(m.dedup, d.alerts, g.failed, clock, runs)
      /\ alerting => SamplesOk(m.samples, g.handled)
      /\ ToldOk(alerting, d.alerts, g.failed, g.handled, clock, runs)
      /\ NotedOk(g.handled, clock)
  BY DEF AlarmsOk
<1>2. NotedOk(k.handled, clock)
  BY <1>1
<1>3. AlertsOk(n.dedup, e.alerts, k.failed, clock, runs)
  BY <1>1
<1>4. alerting => SamplesOk(n.samples, k.handled)
  BY <1>1
<1>5. ToldOk(alerting, e.alerts, k.failed, k.handled, clock, runs)
  BY <1>1
<1> QED BY <1>2, <1>3, <1>4, <1>5 DEF AlarmsOk

LEMMA EmittedAlarms ==
  ASSUME NEW m, NEW d, NEW g, Shape(m, d, g), NEW r \in Requests,
         NEW f, NEW failing, NEW w, IsWorld(w, m, d, g),
         now \in Nat, boot \in Nat, AlarmsOk(m, d, g, now, boot, config.alerting),
         NEW h, h = Emitted(w, r, f, failing)
  PROVE  AlarmsOk(h.mem, h.disk, h.ghost, now, boot, config.alerting)
<1>1. w = [mem |-> m, disk |-> d, ghost |-> g] /\ w.mem = m /\ w.disk = d /\ w.ghost = g
  BY DEF IsWorld
<1>2. m = [x \in MemFields |-> m[x]]
  BY DEF Shape
<1>3. CASE m.busy
  <2>1. PICK queue : queue = Append(m.queue, r)
    OBVIOUS
  <2>2. PICK n : n = [m EXCEPT !.queue = queue]
    OBVIOUS
  <2>3. h = [w EXCEPT !.mem = n]
    BY <1>1, <1>3, <2>1, <2>2 DEF Emitted
  <2>4. h.mem = n /\ h.disk = d /\ h.ghost = g
    BY <1>1, <2>3
  <2>5. n.samples = m.samples /\ n.dedup = m.dedup
    BY <1>2, <2>2 DEF MemFields
  <2>6. AlarmsOk(n, d, g, now, boot, config.alerting)
    BY <2>5, SameAlarms
  <2> QED BY <2>4, <2>6
<1>4. CASE ~ m.busy
  <2>1. PICK n : n = [m EXCEPT !.busy = TRUE]
    OBVIOUS
  <2>2. /\ n = [x \in MemFields |-> n[x]]
        /\ n.samples = m.samples /\ n.dedup = m.dedup
    BY <1>2, <2>1 DEF MemFields
  <2>3. AlarmsOk(n, d, g, now, boot, config.alerting)
    BY <2>2, SameAlarms
  <2>4. PICK v : v = [w EXCEPT !.mem = n]
    OBVIOUS
  <2>5. IsWorld(v, n, d, g)
    BY <1>1, <2>4 DEF IsWorld
  <2>6. Shape(n, d, g)
    BY <2>2 DEF Shape
  <2>7. HandledIs(h, v, r, f, failing)
    BY <1>1, <1>4, <2>1, <2>4 DEF Emitted, HandledIs
  <2> QED BY <2>3, <2>5, <2>6, <2>7, HandledAlarms
<1> QED BY <1>3, <1>4

LEMMA CapturedAlarms ==
  ASSUME NEW m, NEW d, NEW g, Shape(m, d, g), NEW r, NEW w, IsWorld(w, m, d, g),
         now \in Nat, boot \in Nat, AlarmsOk(m, d, g, now, boot, config.alerting),
         NEW c, c = Captured(w, r)
  PROVE  /\ IsWorld(c, c.mem, c.disk, c.ghost) /\ Shape(c.mem, c.disk, c.ghost)
         /\ AlarmsOk(c.mem, c.disk, c.ghost, now, boot, config.alerting)
<1>1. w = [mem |-> m, disk |-> d, ghost |-> g] /\ w.mem = m /\ w.disk = d /\ w.ghost = g
  BY DEF IsWorld
<1>2. CASE ~ config.logging
  <2>1. c = w
    BY <1>2 DEF Captured
  <2>2. c.mem = m /\ c.disk = d /\ c.ghost = g
    BY <1>1, <2>1
  <2> QED BY <1>1, <2>1, <2>2 DEF IsWorld
<1>3. CASE config.logging
  <2>1. PICK n : n = [m EXCEPT !.buffer = Recorded(m.buffer, r)]
    OBVIOUS
  <2>2. PICK k : k = [g EXCEPT !.captured = Append(g.captured, r)]
    OBVIOUS
  <2>3. c = [mem |-> n, disk |-> d, ghost |-> k]
    BY <1>1, <1>3, <2>1, <2>2 DEF Captured
  <2>4. c.mem = n /\ c.disk = d /\ c.ghost = k /\ IsWorld(c, c.mem, c.disk, c.ghost)
    BY <2>3 DEF IsWorld
  <2>5. /\ m = [x \in MemFields |-> m[x]] /\ g = [x \in GhostFields |-> g[x]]
        /\ d = [x \in DiskFields |-> d[x]]
    BY DEF Shape
  <2>6. n = [x \in MemFields |-> n[x]] /\ n.samples = m.samples /\ n.dedup = m.dedup
    BY <2>1, <2>5 DEF MemFields
  <2>7. k = [x \in GhostFields |-> k[x]] /\ k.handled = g.handled /\ k.failed = g.failed
    BY <2>2, <2>5 DEF GhostFields
  <2>8. Shape(n, d, k)
    BY <2>5, <2>6, <2>7 DEF Shape
  <2>9. AlarmsOk(n, d, k, now, boot, config.alerting)
    BY <2>6, <2>7, SameAlarms
  <2> QED BY <2>4, <2>8, <2>9
<1> QED BY <1>2, <1>3

AInv == AlarmsOk(mem, disk, ghost, now, boot, config.alerting)

(* The facts of the other invariant that the alarms need.                  *)
LEMMA ShapeOfInvariant ==
  ASSUME IInv
  PROVE  Shape(mem, disk, ghost) /\ now \in Nat /\ boot \in Nat \ {0}
<1>1. Between(mem, disk, ghost, {}, flow, now, boot, config.logging) /\ boot \in Nat \ {0}
  BY DEF IInv
<1>2. Shape(mem, disk, ghost) /\ FlowOk(flow, now)
  BY <1>1 DEF Between
<1> QED BY <1>1, <1>2 DEF FlowOk

LEMMA EmptySamples ==
  ASSUME NEW none, none = <<>>
  PROVE  SamplesOk(none, none)
<1>1. none \in Seq(Samples) /\ none \in Seq(Handling) /\ Len(none) = 0
  OBVIOUS
<1>2. BufferSize \in Nat \ {0}
  BY AnomalyAssumption
<1>3. PICK t : t = Newest(none, BufferSize)
  OBVIOUS
<1>4. t \in Seq(Handling) /\ \E o : IsNewest(t, none, BufferSize, o)
  BY <1>1, <1>2, <1>3, NewestSays
<1>5. t \in Seq(Handling)
  BY <1>4
<1>6. Len(t) = 0
  <2>1. PICK o : IsNewest(t, none, BufferSize, o)
    BY <1>4
  <2> QED BY <1>1, <2>1 DEF IsNewest
<1>7. DOMAIN t = {}
  <2>1. DOMAIN t = 1..Len(t)
    BY <1>5
  <2> QED BY <1>6, <2>1
<1> QED BY <1>1, <1>3, <1>6, <1>7 DEF SamplesOk, Matches

LEMMA InitAlarms == Init => AInv
<1> SUFFICES ASSUME Init PROVE AInv
  OBVIOUS
<1>1. PICK none : none = <<>>
  OBVIOUS
<1>2. PICK empty : empty = Empty
  OBVIOUS
<1>3. DOMAIN empty = {}
  BY <1>2 DEF Empty
<1>4. /\ mem.samples = none /\ mem.dedup = empty /\ disk.alerts = none
      /\ ghost.handled = none /\ ghost.failed = none
  BY <1>1, <1>2 DEF Init, NewMem, NewDisk, NewGhost
<1>5. /\ none \in Seq(Alert) /\ none \in Seq(Failure) /\ none \in Seq(Samples)
      /\ none \in Seq(Handling) /\ DOMAIN none = {} /\ Len(none) = 0
  BY <1>1
<1>6. MaxHistory \in Nat \ {0} /\ BufferSize \in Nat \ {0}
  BY AnomalyAssumption
<1>7. AlertsOk(empty, none, none, now, boot)
  BY <1>3, <1>5, <1>6 DEF AlertsOk
<1>8. SamplesOk(none, none)
  BY <1>1, <1>5, EmptySamples
<1>9. ToldOk(config.alerting, none, none, none, now, boot)
  BY <1>1 DEF ToldOk
<1>10. NotedOk(none, now)
  BY <1>5 DEF NotedOk
<1> QED BY <1>4, <1>7, <1>8, <1>9, <1>10 DEF AInv, AlarmsOk

LEMMA RestartAlarms ==
  ASSUME IInv, AInv, Restart
  PROVE  AInv'
<1>1. Shape(mem, disk, ghost) /\ now \in Nat /\ boot \in Nat \ {0}
  BY ShapeOfInvariant
<1>2. PICK alerts : alerts = disk.alerts
  OBVIOUS
<1>3. PICK kept : kept = disk'.alerts
  OBVIOUS
<1>4. AlertsOk(mem.dedup, alerts, ghost.failed, now, boot)
  BY <1>2 DEF AInv, AlarmsOk
<1>5. alerts \in Seq(Alert) /\ Len(alerts) <= MaxHistory
  BY <1>4 DEF AlertsOk
<1>6. kept = alerts \/ \E S : kept = Keep(alerts, S)
  <2>1. PICK d : d = disk
    OBVIOUS
  <2>2. PICK history : history = Pruned(d.history, now)
    OBVIOUS
  <2>3. PICK rest : rest = IF config'.alerting THEN Unexpired(d.alerts, now) ELSE d.alerts
    OBVIOUS
  <2>4. disk' = [d EXCEPT !.history = history, !.alerts = rest]
    BY <2>1, <2>2, <2>3 DEF Restart
  <2>5. d = [x_ \in DiskFields |-> d[x_]]
    BY <1>1, <2>1 DEF Shape
  <2>6. kept = rest
    BY <1>3, <2>4, <2>5 DEF DiskFields
  <2> QED BY <1>2, <2>1, <2>3, <2>6 DEF Unexpired
<1>7. \E p : /\ kept \in Seq(Alert) /\ Len(kept) <= MaxHistory
             /\ p \in [1..Len(kept) -> 1..Len(alerts)]
             /\ \A i \in 1..Len(kept) : kept[i] = alerts[p[i]]
             /\ \A i, j \in 1..Len(kept) : i < j => p[i] < p[j]
  <2>1. CASE kept = alerts
    <3>1. PICK p : p = [i \in 1..Len(alerts) |-> i]
      OBVIOUS
    <3>2. /\ p \in [1..Len(kept) -> 1..Len(alerts)]
          /\ \A i \in 1..Len(kept) : kept[i] = alerts[p[i]]
          /\ \A i, j \in 1..Len(kept) : i < j => p[i] < p[j]
      BY <2>1, <3>1
    <3> QED BY <1>5, <2>1, <3>2
  <2>2. CASE \E S : kept = Keep(alerts, S)
    <3>1. PICK S : kept = Keep(alerts, S)
      BY <2>2
    <3>2. kept \in Seq(Alert) /\ \E p : Subsequence(kept, alerts, S, p)
      BY <1>5, <3>1, KeepSays
    <3>3. PICK p : Subsequence(kept, alerts, S, p)
      BY <3>2
    <3>4. Len(kept) \in Nat /\ Len(kept) <= Len(alerts)
      BY <1>5, <3>1, KeepShorter
    <3>5. Len(kept) <= MaxHistory
      <4>1. Len(alerts) \in Nat /\ MaxHistory \in Nat
        BY <1>5, AnomalyAssumption
      <4> QED BY <1>5, <3>4, <4>1
    <3> QED BY <3>2, <3>3, <3>5 DEF Subsequence
  <2> QED BY <1>6, <2>1, <2>2
<1>8. PICK p : /\ kept \in Seq(Alert) /\ Len(kept) <= MaxHistory
               /\ p \in [1..Len(kept) -> 1..Len(alerts)]
               /\ \A i \in 1..Len(kept) : kept[i] = alerts[p[i]]
               /\ \A i, j \in 1..Len(kept) : i < j => p[i] < p[j]
  BY <1>7
<1>9. PICK again : again = boot + 1
  OBVIOUS
<1>10. kept \in Seq(Alert)
  BY <1>8
<1>11. DOMAIN kept = 1..Len(kept) /\ DOMAIN alerts = 1..Len(alerts)
  BY <1>5, <1>10
<1>12. ASSUME NEW i \in DOMAIN kept
       PROVE  kept[i].at <= now /\ kept[i].boot <= again /\ kept[i].boot # again
  <2>1. p[i] \in DOMAIN alerts /\ kept[i] = alerts[p[i]]
    BY <1>8, <1>11
  <2>2. kept[i].at <= now /\ kept[i].boot <= boot
    BY <1>4, <2>1 DEF AlertsOk
  <2>3. kept[i] \in Alert
    BY <1>10
  <2>4. kept[i].boot \in Nat
    BY <2>3 DEF Alert
  <2> QED BY <1>1, <1>9, <2>2, <2>4
<1>13. ASSUME NEW i \in DOMAIN kept, NEW j \in DOMAIN kept, i < j
       PROVE  kept[i].at <= kept[j].at
  <2>1. p[i] \in DOMAIN alerts /\ kept[i] = alerts[p[i]] /\ p[j] \in DOMAIN alerts /\ kept[j] = alerts[p[j]]
    BY <1>8, <1>11
  <2>2. p[i] < p[j]
    BY <1>8, <1>11, <1>13
  <2> QED BY <1>4, <2>1, <2>2 DEF AlertsOk
<1>14. PICK none : none = <<>>
  OBVIOUS
<1>15. PICK empty : empty = Empty
  OBVIOUS
<1>16. DOMAIN empty = {}
  BY <1>15 DEF Empty
<1>17. /\ mem'.samples = none /\ mem'.dedup = empty
       /\ ghost'.handled = none /\ ghost'.failed = none /\ boot' = again /\ now' = now
  BY <1>9, <1>14, <1>15 DEF Restart, NewMem, NewGhost
<1>18. AlertsOk(empty, kept, none, now, again)
  <2>1. none \in Seq(Failure)
    BY <1>14
  <2> QED BY <1>8, <1>12, <1>13, <1>16, <2>1 DEF AlertsOk
<1>19. SamplesOk(none, none)
  BY <1>14, EmptySamples
<1>20. PICK on : on = config'.alerting
  OBVIOUS
<1>21. ToldOk(on, kept, none, none, now, again)
  BY <1>14 DEF ToldOk
<1>22. NotedOk(none, now)
  BY <1>14 DEF NotedOk
<1> QED BY <1>3, <1>17, <1>18, <1>19, <1>20, <1>21, <1>22 DEF AInv, AlarmsOk

LEMMA TickAlarms ==
  ASSUME IInv, AInv, Tick
  PROVE  AInv'
<1>1. now \in Nat
  BY ShapeOfInvariant
<1>2. PICK next : next = now + 1
  OBVIOUS
<1>3. now' = next /\ UNCHANGED <<config, boot, flow, mem, disk, ghost>>
  BY <1>2 DEF Tick
<1>4. PICK dedup : dedup = mem.dedup
  OBVIOUS
<1>5. PICK alerts : alerts = disk.alerts
  OBVIOUS
<1>6. PICK failed : failed = ghost.failed
  OBVIOUS
<1>7. AlertsOk(dedup, alerts, failed, now, boot)
  BY <1>4, <1>5, <1>6 DEF AInv, AlarmsOk
<1>8. AlertsOk(dedup, alerts, failed, next, boot)
  <2>1. alerts \in Seq(Alert)
    BY <1>7 DEF AlertsOk
  <2>2. \A i \in DOMAIN alerts : alerts[i].at \in Nat
    <3>1. \A i \in DOMAIN alerts : alerts[i] \in Alert
      BY <2>1
    <3> QED BY <3>1 DEF Alert
  <2>3. \A i \in DOMAIN alerts : alerts[i].at <= next
    <3> SUFFICES ASSUME NEW i \in DOMAIN alerts PROVE alerts[i].at <= next
      OBVIOUS
    <3>1. alerts[i].at <= now /\ alerts[i].at \in Nat
      BY <1>7, <2>2 DEF AlertsOk
    <3> QED BY <1>1, <1>2, <3>1
  <2>4. \A t \in DOMAIN dedup : dedup[t] <= next
    <3> SUFFICES ASSUME NEW t \in DOMAIN dedup PROVE dedup[t] <= next
      OBVIOUS
    <3>1. dedup[t] \in Nat /\ dedup[t] <= now
      BY <1>7 DEF AlertsOk
    <3> QED BY <1>1, <1>2, <3>1
  <2> QED BY <1>7, <2>3, <2>4 DEF AlertsOk
<1>9. PICK handled : handled = ghost.handled
  OBVIOUS
<1>10. ToldOk(config.alerting, alerts, failed, handled, next, boot)
  <2> SUFFICES ASSUME config.alerting, handled # <<>>, handled[Len(handled)].at = next
               PROVE  FALSE
    BY DEF ToldOk
  <2>1. handled \in Seq(Handling) /\ \A i \in DOMAIN handled : handled[i].at <= now
    BY <1>9 DEF AInv, AlarmsOk, NotedOk
  <2>2. Len(handled) \in DOMAIN handled
    BY <2>1
  <2>3. next <= now
    BY <2>1, <2>2
  <2> QED BY <1>1, <1>2, <2>3
<1>11. config.alerting => SamplesOk(mem.samples, handled)
  BY <1>9 DEF AInv, AlarmsOk
<1>12. NotedOk(handled, next)
  <2>1. handled \in Seq(Handling) /\ \A i \in DOMAIN handled : handled[i].at <= now
    BY <1>9 DEF AInv, AlarmsOk, NotedOk
  <2>2. ASSUME NEW i \in DOMAIN handled PROVE handled[i].at <= next
    <3>1. handled[i].at <= now /\ handled[i] \in Handling
      BY <2>1
    <3>2. handled[i].at \in Nat
      BY <3>1 DEF Handling
    <3> QED BY <1>1, <1>2, <3>1, <3>2
  <2> QED BY <2>1, <2>2 DEF NotedOk
<1> QED BY <1>3, <1>4, <1>5, <1>6, <1>8, <1>9, <1>10, <1>11, <1>12 DEF AInv, AlarmsOk

(* A completed request: its content, if captured, and its event.           *)
LEMMA CompletesAlarms ==
  ASSUME IInv, AInv, NEW r \in Requests, NEW f, NEW failing,
         NEW w, w = World \/ w = Captured(World, r),
         NEW h, h = Emitted(w, r, f, failing)
  PROVE  AlarmsOk(h.mem, h.disk, h.ghost, now, boot, config.alerting)
<1>1. Shape(mem, disk, ghost) /\ now \in Nat /\ boot \in Nat
  BY ShapeOfInvariant
<1>2. AlarmsOk(mem, disk, ghost, now, boot, config.alerting)
  BY DEF AInv
<1>3. PICK v : v = World
  OBVIOUS
<1>4. IsWorld(v, mem, disk, ghost)
  BY <1>3 DEF IsWorld, World
<1>5. CASE w = World
  <2>1. IsWorld(w, mem, disk, ghost)
    BY <1>3, <1>4, <1>5
  <2> QED BY <1>1, <1>2, <2>1, EmittedAlarms
<1>6. CASE w = Captured(World, r)
  <2>1. w = Captured(v, r)
    BY <1>3, <1>6
  <2>2. /\ IsWorld(w, w.mem, w.disk, w.ghost) /\ Shape(w.mem, w.disk, w.ghost)
        /\ AlarmsOk(w.mem, w.disk, w.ghost, now, boot, config.alerting)
    BY <1>1, <1>2, <1>4, <2>1, CapturedAlarms
  <2> QED BY <1>1, <2>2, EmittedAlarms
<1> QED BY <1>5, <1>6

LEMMA EndStreamAlarms ==
  ASSUME IInv, AInv, NEW r \in Requests, EndStream(r)
  PROVE  AInv'
<1>1. PICK assembled \in BOOLEAN, failing \in Faults[r] :
        SetWorld(Emitted(IF assembled THEN Captured(World, r) ELSE World,
                         r, flow[r], failing))
  BY DEF EndStream
<1>2. PICK w : w = IF assembled THEN Captured(World, r) ELSE World
  OBVIOUS
<1>3. PICK f : f = flow[r]
  OBVIOUS
<1>4. PICK h : h = Emitted(w, r, f, failing)
  OBVIOUS
<1>5. mem' = h.mem /\ disk' = h.disk /\ ghost' = h.ghost
  BY <1>1, <1>2, <1>3, <1>4 DEF SetWorld
<1>6. w = World \/ w = Captured(World, r)
  BY <1>2
<1>7. AlarmsOk(h.mem, h.disk, h.ghost, now, boot, config.alerting)
  BY <1>4, <1>6, CompletesAlarms
<1>8. UNCHANGED <<config, now, boot>>
  BY DEF EndStream
<1> QED BY <1>5, <1>7, <1>8 DEF AInv

LEMMA AnswerWholeAlarms ==
  ASSUME IInv, AInv, NEW r \in Requests, AnswerWhole(r)
  PROVE  AInv'
<1>1. PICK ok \in BOOLEAN, failing \in Faults[r] :
        SetWorld(Emitted(IF ok THEN Captured(World, r) ELSE World,
                         r, flow'[r], failing))
  BY DEF AnswerWhole
<1>2. PICK w : w = IF ok THEN Captured(World, r) ELSE World
  OBVIOUS
<1>3. PICK f : f = flow'[r]
  OBVIOUS
<1>4. PICK h : h = Emitted(w, r, f, failing)
  OBVIOUS
<1>5. mem' = h.mem /\ disk' = h.disk /\ ghost' = h.ghost
  BY <1>1, <1>2, <1>3, <1>4 DEF SetWorld
<1>6. w = World \/ w = Captured(World, r)
  BY <1>2
<1>7. AlarmsOk(h.mem, h.disk, h.ghost, now, boot, config.alerting)
  BY <1>4, <1>6, CompletesAlarms
<1>8. UNCHANGED <<config, now, boot>>
  BY DEF AnswerWhole
<1> QED BY <1>5, <1>7, <1>8 DEF AInv

LEMMA ResumeAlarms ==
  ASSUME IInv, AInv, Resume
  PROVE  AInv'
<1>1. Shape(mem, disk, ghost) /\ now \in Nat /\ boot \in Nat
  BY ShapeOfInvariant
<1>2. UNCHANGED <<config, now, boot, flow>>
  BY DEF Resume
<1>3. PICK m : m = mem
  OBVIOUS
<1>4. PICK queue : queue = m.queue
  OBVIOUS
<1>5. m = [x_ \in MemFields |-> m[x_]]
  BY <1>1, <1>3 DEF Shape
<1>6. AlarmsOk(m, disk, ghost, now, boot, config.alerting)
  BY <1>3 DEF AInv
<1>7. CASE queue = <<>>
  <2>1. PICK n : n = [m EXCEPT !.busy = FALSE]
    OBVIOUS
  <2>2. mem' = n /\ UNCHANGED <<disk, ghost>>
    BY <1>3, <1>4, <1>7, <2>1 DEF Resume
  <2>3. n.samples = m.samples /\ n.dedup = m.dedup
    BY <1>5, <2>1 DEF MemFields
  <2>4. AlarmsOk(n, disk, ghost, now, boot, config.alerting)
    BY <1>6, <2>3, SameAlarms
  <2> QED BY <1>2, <2>2, <2>4 DEF AInv
<1>8. CASE queue # <<>>
  <2>1. PICK r : r = Head(queue)
    OBVIOUS
  <2>2. PICK n : n = [m EXCEPT !.queue = Tail(queue)]
    OBVIOUS
  <2>3. n = [x_ \in MemFields |-> n[x_]] /\ n.samples = m.samples /\ n.dedup = m.dedup
    BY <1>5, <2>2 DEF MemFields
  <2>4. AlarmsOk(n, disk, ghost, now, boot, config.alerting)
    BY <1>6, <2>3, SameAlarms
  <2>5. r \in Requests
    <3>1. QueueOk(queue, mem.busy, {}, flow, now)
      BY <1>3, <1>4 DEF IInv, Between
    <3>2. queue \in Seq(Requests)
      BY <3>1 DEF QueueOk
    <3> QED BY <1>8, <2>1, <3>2
  <2>6. PICK w : w = [World EXCEPT !.mem.queue = Tail(@)]
    OBVIOUS
  <2>7. IsWorld(w, n, disk, ghost)
    BY <1>3, <1>4, <2>2, <2>6 DEF IsWorld, World
  <2>8. PICK failing \in Faults[r] :
          SetWorld(Handled(w, r, flow[r], failing))
    BY <1>3, <1>4, <1>8, <2>1, <2>6 DEF Resume
  <2>9. PICK f : f = flow[r]
    OBVIOUS
  <2>10. PICK h : HandledIs(h, w, r, f, failing)
    BY DEF HandledIs
  <2>11. mem' = h.mem /\ disk' = h.disk /\ ghost' = h.ghost
    BY <2>8, <2>9, <2>10 DEF SetWorld, HandledIs
  <2>12. Shape(n, disk, ghost)
    BY <1>1, <2>3 DEF Shape
  <2>13. AlarmsOk(h.mem, h.disk, h.ghost, now, boot, config.alerting)
    BY <1>1, <2>4, <2>5, <2>7, <2>10, <2>12, HandledAlarms
  <2> QED BY <1>2, <2>11, <2>13 DEF AInv
<1> QED BY <1>7, <1>8

LEMMA SupersedeAlarms ==
  ASSUME IInv, AInv, NEW r \in Requests, Supersede(r)
  PROVE  AInv'
<1>1. Shape(mem, disk, ghost)
  BY ShapeOfInvariant
<1>2. PICK d : d = disk
  OBVIOUS
<1>3. PICK g : g = ghost
  OBVIOUS
<1>4. PICK x, traces, routing :
        /\ disk' = [d EXCEPT !.traces = traces, !.routing = routing]
        /\ ghost' = Told(g, x, FALSE)
  <2>1. PICK at \in flow[r].started..now, failing \in Faults[r] :
          LET x == Event(r, at, FALSE, failing \cap {"traces", "routing"})
          IN  /\ disk' = [disk EXCEPT
                            !.traces = IF "traces" \in x.lost THEN @ ELSE Append(@, r),
                            !.routing = IF "routing" \in x.lost THEN @
                                        ELSE Append(@, RoutingRecord(x))]
              /\ ghost' = Told(ghost, x, FALSE)
    BY DEF Supersede
  <2>2. PICK x : x = Event(r, at, FALSE, failing \cap {"traces", "routing"})
    OBVIOUS
  <2>3. PICK traces : traces = IF "traces" \in x.lost THEN d.traces ELSE Append(d.traces, r)
    OBVIOUS
  <2>4. PICK routing : routing = IF "routing" \in x.lost THEN d.routing
                                 ELSE Append(d.routing, RoutingRecord(x))
    OBVIOUS
  <2> QED BY <1>2, <1>3, <2>1, <2>2, <2>3, <2>4
<1>5. UNCHANGED <<config, now, boot, mem>>
  BY DEF Supersede
<1>6. PICK e : e = disk'
  OBVIOUS
<1>7. PICK k : k = ghost'
  OBVIOUS
<1>8. d = [x_ \in DiskFields |-> d[x_]] /\ g = [x_ \in GhostFields |-> g[x_]]
  BY <1>1, <1>2, <1>3 DEF Shape
<1>9. e.alerts = d.alerts
  BY <1>4, <1>6, <1>8 DEF DiskFields
<1>10. k.handled = g.handled /\ k.failed = g.failed
  BY <1>4, <1>7, <1>8 DEF GhostFields, Told
<1>11. AlarmsOk(mem, d, g, now, boot, config.alerting)
  BY <1>2, <1>3 DEF AInv
<1>12. AlarmsOk(mem, e, k, now, boot, config.alerting)
  BY <1>9, <1>10, <1>11, SameAlarms
<1> QED BY <1>5, <1>6, <1>7, <1>12 DEF AInv

LEMMA AlarmsKeep == IInv /\ AInv /\ [Next]_vars => AInv'
<1> SUFFICES ASSUME IInv, AInv, [Next]_vars PROVE AInv'
  OBVIOUS
<1>1. CASE UNCHANGED vars
  BY <1>1 DEF AInv, vars
<1>2. ASSUME NEW r \in Requests, Begin(r) PROVE AInv'
  <2>1. UNCHANGED <<config, now, boot, mem, disk, ghost>>
    BY <1>2 DEF Begin
  <2> QED BY <2>1 DEF AInv
<1>3. ASSUME NEW r \in Requests, Supersede(r) PROVE AInv'
  BY <1>3, SupersedeAlarms
<1>4. ASSUME NEW r \in Requests, StartStream(r) PROVE AInv'
  <2>1. UNCHANGED <<config, now, boot, mem, disk, ghost>>
    BY <1>4 DEF StartStream
  <2> QED BY <2>1 DEF AInv
<1>5. ASSUME NEW r \in Requests, EndStream(r) PROVE AInv'
  BY <1>5, EndStreamAlarms
<1>6. ASSUME NEW r \in Requests, AnswerWhole(r) PROVE AInv'
  BY <1>6, AnswerWholeAlarms
<1>7. CASE Resume
  BY <1>7, ResumeAlarms
<1>8. CASE Restart
  BY <1>8, RestartAlarms
<1>9. CASE Tick
  BY <1>9, TickAlarms
<1> QED BY <1>1, <1>2, <1>3, <1>4, <1>5, <1>6, <1>7, <1>8, <1>9 DEF Next

LEMMA ToldOfInvariant ==
  ASSUME AInv
  PROVE  LoopIsTold
<1>1. PICK alerts : alerts = disk.alerts
  OBVIOUS
<1>2. PICK failed : failed = ghost.failed
  OBVIOUS
<1>3. PICK handled : handled = ghost.handled
  OBVIOUS
<1>4. AlertsOk(mem.dedup, alerts, failed, now, boot)
  BY <1>1, <1>2 DEF AInv, AlarmsOk
<1>5. ToldOk(config.alerting, alerts, failed, handled, now, boot)
  BY <1>1, <1>2, <1>3 DEF AInv, AlarmsOk
<1>6. AlertsApart(alerts)
  BY <1>4 DEF AlertsOk, AlertsApart
<1>7. ASSUME config.alerting, handled # <<>>, handled[Len(handled)].at = now,
             Len(Alike(handled)) >= Repetition
      PROVE  ToldOf(alerts, failed, handled[Len(handled)])
  <2>1. PICK last : last = handled[Len(handled)]
    OBVIOUS
  <2>2. Tells(alerts, failed, last, now, boot)
    BY <1>5, <1>7, <2>1 DEF ToldOk
  <2>3. \A at : IsFresh(at, now) <=> Fresh(at)
    BY DEF IsFresh, Fresh
  <2>4. ToldOf(alerts, failed, last)
    BY <2>2, <2>3 DEF Tells, ToldOf
  <2> QED BY <2>1, <2>4
<1> QED BY <1>1, <1>2, <1>3, <1>6, <1>7 DEF LoopIsTold

(* The alert manager marks a type before it stores the alert, and opening  *)
(* the database deletes old alerts: alerts of one type are a cooldown      *)
(* apart, and a loop in the detector's buffer is told within it, unless    *)
(* the store failed or newer alerts pushed the telling out.                *)
THEOREM LoopsAreTold == Spec => []LoopIsTold
<1>1. Init => AInv
  BY InitAlarms
<1>2. IInv /\ AInv /\ [Next]_vars => AInv'
  BY AlarmsKeep
<1>3. AInv => LoopIsTold
  BY ToldOfInvariant
<1> QED BY <1>1, <1>2, <1>3, Invariance, PTL DEF Spec
===============================================================================
