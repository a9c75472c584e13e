# TLA+ development of aiProviderProxy

The program is a local HTTP gateway: it accepts requests in three protocols
(Anthropic Messages, OpenAI Chat Completions, OpenAI Responses), plans a route,
calls a provider, translates the answer back, and reports every attempt as a
*usage event* to in-process sinks and, durably, to an ingest server called
Tokemetry.  All of it runs on one Node.js thread.  What makes it hard is not
data races but everything that happens *between two awaits of one handler*:
other requests, an interval, a client that disconnects, a shutdown, the end of
the process.

The modules here are written from `src/src/**` (paths below are relative to
`src/src/`).  `PROJECT.json` maps each definition to the lines it stands for.

1. [Inventory](#1-inventory)
2. [Modules and their correspondence to the code](#2-modules)
3. [Runs, bounds and mutants](#3-runs)
4. [Fairness](#4-fairness)
5. [What the code and its documentation disagree about](#5-findings)
6. [Proofs](#6-proofs)
7. [What is only model-checked, and what is not modelled](#7-limits)
8. [Plan](#8-plan)

---------------------------------------------------------------------------

## 1. Inventory

### 1.1 The durable export path

| part | state | operations | correct when |
| --- | --- | --- | --- |
| **Outbox** `integrations/tokemetry/outbox.ts` | SQLite table `outbox_events`: id, event, state, attempts, next_attempt_at, last_error | `enqueue`, `claimBatch` (a SELECT, marks nothing), `markExported`, `markFailed`, `markDead` (UPDATEs by id, whatever the state), `close` | a row is exported only if the server has it; settled rows stay settled; nothing is lost in a kill |
| **Batcher** `integrations/tokemetry/batcher.ts` | none across flushes | `flushOnce`: claim, POST, then by status: mark exported, split the batch into single records, bury the offender, or retire by attempts | poison is isolated; a retry budget is a budget; every event settles |
| **Pump and shutdown** `runtime/composition.ts`, `cli/cli.ts` | `flushing` guard, interval, `stopped` | interval tick, `stop()`: close the listener, clear the interval, drain the sinks, flush once more, close the databases | at most one flush of the pump at a time; shutdown loses nothing |

Hard: a kill between the server's 2xx and the UPDATE; a kill between the
transactions of `retireByAttempts`; an answer lost after the server stored the
batch; refusals in the middle of a split; `stop()` while a flush is in flight.

### 1.2 Events inside the process

| part | state | operations | correct when |
| --- | --- | --- | --- |
| **Sinks** `lifecycle/event-sinks.ts` | a map from name to queue, `processing`, counters | `register` (replaces a sink of the same name), `unregister`, three `emit*`, the worker of a sink, `drain` | no lost wake-up, every event accounted for once, in order, newest kept on overflow, a slow sink isolated |
| **Request lifecycle** `lifecycle/*.ts` | the attempts of a logical request | start, complete, build an event | every attempt is reported once |
| **Content buffer and history log** `gateway/content-buffer.ts`, `ops/trackers/history-sink.ts`, `ops/content-log/retention.ts` | bounded map from request to content, lost with the process; a JSONL file | `record` (evicts the oldest), `take` (once), append, `pruneHistory` (at start) | the entry of a request has that request's content or none; pruning keeps the newest |
| **Trackers, mesh** `ops/trackers/*`, `ops/mesh/*` | one table or file each | an upsert or a row per event | each book has exactly what its own sink stored, whatever the others lost |
| **Alerts, anomalies** `ops/alerts/*`, `ops/anomaly/*` | dedup map and sliding buffer in memory, table of alerts | analyze, fire, deduplicate, store, prune | one alert of a type per cooldown, and a loop of requests is told |
| **Dashboard** `ops/dashboard/*` | none | views of the files and tables | no content is shown once content logging is off |

### 1.3 The request path

| part | state | operations | correct when |
| --- | --- | --- | --- |
| **POST /v1/messages** `gateway/server.ts` (`handleMessages`) | per request: queue of hops, account cursor, attempts; shared: the breaker | plan, downgrade, cache, budget, tool policy, dispatch; same-model retry, account rotation, fallback; final error or answer | only transient failures are superseded, candidates are exhausted, every request is answered and reported, a denied tool is never sent, what was said arrives |
| **Other surfaces** `gateway/server.ts` (`handleChat`, `handleResponses`, `handleCountTokens`, `handleEstimate`) | none, a rate limiter for estimates | one attempt without retry; tool policy on the first two; no budget check, no cache | as above |
| **Cooldown breaker** `routing/cooldown.ts` | failures in a sliding window and `cooledUntil` per provider | `recordFailure`, `recordSuccess`, `isAvailable` | it trips only on a provider's own transient failures |
| **Retry, fallback, routing** `routing/*.ts` | none | pure decisions: names, complexity, cascade, cross-provider, policy | a fallback can serve the request; no candidate is asked twice; a pinned model stays |
| **Budget** `ops/budget/*` | table of spend; caches of the current day's and hour's sum | `check`, `recordSpend`, `getStatus`, roll-over, restart | every cent counted once; blocked exactly at the ceiling |
| **Response cache** `ops/cache/cache.ts` | table, hit counters | key, `get` with TTL, `set`, evict | an answer is served only to an equal, deterministic request, within its time; eviction goes by age |
| **Streams** `gateway/stream-pipeline.ts`, `gateway/sse.ts`, `protocols/*/stream-*.ts` | open block, pending frame, usage so far | decode, translate, encode, complete once | well-formed client stream whatever the upstream does; usage reported once |
| **Tool authorization** `tools/authorization.ts` | none | filter or reject tools | a tool of a denied name never reaches an upstream, an allowed one always does |
| **Protocols and adapters** `protocols/*`, `providers/*` | none | validate, translate a request, translate an answer, classify errors | nothing said, called or returned is lost between two protocols, but for what the other cannot carry |
| **Anthropic token pool** `providers/anthropic/token-pool.ts` | per token: windows, failures, cooldown | select, record | never constructed by the composition |

### 1.4 The rest

Configuration, the tables of models, the service templates, the fixture
recorder, the usage-event mapper and the exporter's health are loaders, tables,
views and tools: data is rewritten, but there is no state that two steps could
disagree about.  They are listed in `PROJECT.json` with the reason each is left
out.

### 1.5 Interactions

```
 client --> Gateway --(plan, policy)--> routing --> breaker <-- every concurrent request
              |  |--(key)----> ResponseCache (answers without an upstream)
              |  |--(tools)--> ToolPolicy (strips or rejects)
              |  \--(check)--> BudgetLedger <--(recordSpend)-- budget sink
              |                                                   ^
              | transport                                         | emit*
              v                                                   |
          provider      attempt/request events --> Sinks (one worker each)
             |                     \        \--> history <--(take)-- content buffer
             |                      \        \--> sessions, agents, traces, routing,
             \--(record)--> content   \            mesh, anomaly detector --> alerts
                            buffer     \
                                    --> Outbox (same turn) --> pump --> Tokemetry
 stop(): close listener -> clear pump -> drain sinks -> final flush -> close databases
```

An event goes to the sinks first and is committed to the outbox in the same turn
(`server.ts:857-864`), and a content is recorded before its event is emitted.
The breaker is the only state that concurrent requests of the attempt loop
share; the ledger is shared by its check (before a request) and its sink (after
it), the cache by its lookup (before a request awaits anything) and its store
(after its upstream answered).

---------------------------------------------------------------------------

## 2. Modules

| module | models | how it is used |
| --- | --- | --- |
| `UsageDelivery` | what the export path promises, with no batches, retries or processes | abstract specification |
| `TokemetryExport` | outbox, batcher, pump, shutdown, kills, server and network | implements `UsageDelivery` |
| `EventSinks` | the registry of sinks | on its own |
| `AttemptLoop` | `handleMessages` for several requests and the shared breaker | on its own |
| `BudgetLedger` | the ledger with the gateway's check and the sink's spend | on its own |
| `StreamPipeline` | one streamed response: the pipelines and `writeResponse` | composes the next four |
| `UpstreamEvents` | the decoders of upstream frames | operators |
| `AnthropicStream`, `ResponsesStream`, `ChatStream` | the translator and the encoder of a client protocol | operators on their states |
| `ClientTranscript` | a reference reading of the three client protocols | operators |
| `GatewaySurfaces` | four POST surfaces from the parsed body to the answer and its event | composes the next five |
| `RoutePlanning` | names, classifier, planner, cross-provider mapping, agent policy | operators |
| `ToolPolicy` | which tools may reach an upstream | operators |
| `RequestTranslation`, `AnswerTranslation` | bodies and whole answers between five protocols | operators |
| `ResponseCache` | key, lookup, store, eviction | operators on the table |
| `Observers` | the gateway's own sinks over several requests and processes | composes the next two |
| `ContentLog` | content buffer, history, retention, what the dashboard shows of them | operators |
| `Filters` | `Array.prototype.filter` and `flat`, and sums, as functions that can be proved about | used by `ToolPolicy`, `ContentLog`, `Anomalies`, `Observers`, `UpstreamEvents`, `ClientTranscript` |
| `Anomalies` | detector window and rules, alert deduplication and history | operators |
| `MC*` | instances for TLC | one per component |
| `*Proofs` | theorems | see section 6 |

Each module holds, next to a definition, the mutated forms of it that the
mutants of `PROJECT.json` use; they are marked `Mutant:` and are not part of
any specification.

Where a module has a proof of its type invariant (`TypeCorrect`,
`SinksTypeCorrect`, `BudgetTypeCorrect`, `LoopTypeCorrect`) no run repeats it.

### TokemetryExport

* `rows` is the table; a row's id is its index, since AUTOINCREMENT ids follow
  insertion and `purgeExported` is never called.  `due` abstracts
  `next_attempt_at <= now`: it becomes false in `markFailed` and true again at
  any later moment (`BackoffElapses`).
* `flush["pump"]` and `flush["final"]` are the two callers of `flushOnce`, each
  with the POST in flight (`wire`, `posted`), the rest of a split batch
  (`rest`), and which of its rows had one attempt left *when claimed* (`last`),
  since `retireByAttempts` goes by the claimed record and not by the table.
* A flush awaits its POST and nothing else.  So the code from an answer to the
  next POST is one action (`MarkExported`, `MarkPoison`, `SplitBatch`,
  `RetireByAttempts`, each with `NextPost`), and a claim with its POST another
  (`PumpTick`, `FinalFlush`).
* SQLite transactions survive a kill, the process's memory does not.  The one
  handler that commits several transactions has a kill of its own between them
  (`KillMidRetire`).
* The server accepts or rejects a batch as a whole; a refusal is everything
  that counts as retryable, whether or not the server stored the batch before
  its answer was lost.
* `PumpSpec` is the process that is only ever killed; `Spec` adds `stop()`.
  The difference matters: several properties hold of the first alone
  (section 5).

### EventSinks

* One record per sink for its `SinkState`; an event is the number of its
  emission.
* The worker gives up control only at `await job()`.  So `Emit` covers the
  enqueueing and, for an idle sink, the worker's run up to its first await, and
  `JobSettles` covers the `finally` of a job and the run up to the next.  A
  handler that throws synchronously never reaches the await: `Process(r, q, k)`
  runs over the first `k` jobs that do.  A sink without a handler for an event
  is not dispatched to.
* `Register` replaces the sink of its name; the old one's worker goes on, but
  `drain()` does not look at it.
* `offered` and `begun` are history variables.

### AttemptLoop

* A hop is a provider, an account number, the retries it has used and the
  trigger that explains it; models, headers and bodies are left out.  Failures
  are the five classes the loop tells apart, plus `cancelled`.
* A step is what a request does between two awaits.  After a failure the code
  sleeps (backoff) and *then* reports the superseded attempt and goes on:
  `CallFails` ends at the sleep, `NextHop` is what follows.  `Loop` is the head
  of the `while`: skip cooling providers, then dispatch, or end on the last
  hop.
* The breaker is one record per provider; its time is abstracted by
  `FailureExpires` and `CooldownElapses`.
* `Abort` is the client's disconnect, and `late` marks attempts started after
  it: a fetch with an aborted signal is refused at once.
* Gates before the dispatch (cache hit, budget, tool policy) are outcomes of
  `Start`; routing is any route of `Routes`.  `GatewaySurfaces` has what decides
  them.

### BudgetLedger

* The table is represented by its two sums per day and per hour; `win` is the
  four cache fields.  Time is the hour, `DayOf` its calendar.
* `Rolled` is `ensureWindows`, `Refreshed` is the constructor's
  `refreshWindows`, `HalfRolled` an `ensureWindows` whose SELECT throws after
  the key has moved.
* `Arrive` is the downgrade decision, which reads the caches as they are,
  followed by `check()`, which rolls them: one turn of the event loop.
  `ArriveUnchecked` is the chat and responses surfaces, which spend without a
  check.  `Record` is the answer and the sink's `recordSpend`; its two failing
  forms stop where the statement throws.
* A SELECT that throws inside the check leaves `handle()`; `listen()` drops the
  rejection, so the process ends (`HandlerThrows`).  `Kill` and `Restart` are
  the process's; a restart reads the caches from the table.
* `spentDay`, `spentHour`, `freeDay`, `freeHour` are history variables: what the
  answered requests cost, whatever was recorded.
* The model is restricted to a budget with `onBreach: "block"`: the only setting
  under which a breach stops a request, but not the default, which is
  `"downgrade"` (`budget.ts:81`, `schema.ts:186-188`).  A request that the cache
  answers never reaches the check, so it is not an arrival.

### StreamPipeline and its parts

* A stream is one generator and one writer on one thread.  They wait in two
  places, `reader.read()` and `drained()`: `pc` is `"reading"` or `"draining"`
  there, and only there can the client disconnect.  Everything between is
  `"running"`: `Translate` (one decoded event: first the accumulator, then
  `push`), `Write` (one canonical event is encoded *when the writer asks for
  it*), `AskUpstream`, `CloseOff` (`end()`), `Return`.
* The four ends of a stream all pass the pipeline's `finally` (`Complete`):
  `Return`, a body that breaks or was aborted (`ReadFails`, which skips
  `end()`), a writer that leaves its loop (`Leave`), an encoder that throws
  (`Throw`).
* `todo` are the decoded events of a frame, `pending` the canonical events that
  are not encoded yet, `completions` the arguments of `onComplete`.
* A translator and an encoder are records; `Implied`/`Pushed` are what `push`
  returns and what it changes, `Legal`/`Encoded`/`Record` whether `encode`
  throws, what it changes and what the client gets.
* Text is its presence, a tool call its index.  A fragment of arguments carries
  the call it was sent for, so that the model sees where it ends up.  Usage is
  the set of fields stated.  The cap on captured text counts deltas.
* A verbatim stream is observed and passed on: a chunk is the frame it
  completes.  The last frame that no blank line terminates is released by the
  splitter's `flush` (`ReadEnds`).
* `ClientTranscript` is written from the grammars in the encoders' heading
  comments, not from their guards: it rebuilds parts and text from the records,
  so a numbering, nesting or snapshot error of the encoder shows.

### GatewaySurfaces and its parts

* A model name is `[space, id]`, the space being what the code tests of it with
  a prefix rule.  A body is one record for all protocols (`Blank` has every
  field); its turns are messages or input items, and a text is a sequence of
  atoms, so that joining texts is concatenating them and a lost, doubled or
  reordered text shows.  Tool arguments are texts too; `NotJson` are those that
  do not parse, and where a protocol wants a value these become `EmptyObject`
  (`Arguments`).  An image that a translation cannot take, because its source has
  no `data` (Messages) or it has no URL (Responses), is a part of another kind,
  `image_ref`, which a translation drops and a body that is passed on keeps.
* A tool is its name, `""` if it has none.  `RequestedNames` skips those, as
  `requestedToolNames` and `requestedChatToolNames` do: they pass when every
  named tool is allowed, and are stripped together with a denied one.
* `Receive` is a handler up to its first await, in the code's order: parse and
  refuse, plan and apply the policy, downgrade, look into the cache, check the
  budget, authorize the tools, reject hosted tools, translate and dispatch.  The
  budget's two verdicts are any Booleans, since `BudgetLedger` has what decides
  them.
* Then a request is `"waiting"` for an upstream: `FallBack` goes to the next hop
  (Messages only), `Fail` reports the last failure, `AnswerWhole` and
  `AnswerStreamed` render an answer, and `AnswerCount` counts.  Retries, accounts
  and cooldowns on the way are `AttemptLoop`'s, the bytes of a stream
  `StreamPipeline`'s: here a relayed stream has a status and its event, and no
  reply as a whole (`AnswerStreamed`, `EndStream`).
* Whether an answer is read as a stream follows from what the adapter asked for
  (`Asked`), and not from what the client wants: this is where the buffered
  protocols go wrong (section 5).
* `table` is the cache's SQLite table and `now` its clock; the key has the
  fields `computeCacheKey` has, so a stream and a whole answer share one.
* `NothingLostInTranslation` and `AnswerIsWhole` name what is lost: `AsSent`,
  `AsTold` and `ImagesFor` are the arguments, ids and images that a route does
  not carry, and `Unread` the routes whose answer cannot be read.  The second
  property is about answers whose body is whole, also where a stream is made up
  from it; how relayed fragments arrive is `StreamPipeline`'s, and goes wrong in
  one case (section 5, finding 2).
* `DeniedNeverSent` states the policy with quantifiers over packs and overrides,
  without the order of rules in `authorization.ts`; `NothingLostInTranslation`
  and `AnswerIsWhole` read words, calls and results out of any protocol's body
  (`Words`, `Exchange`, `AnswerWords`), and do not use the translators.

### Observers and its parts

* `flow` is where each request is, `mem` what a process loses when it ends
  (content buffer, sample buffer, deduplication map, the sinks' queue), `disk`
  the files and tables, `ghost` history: what this process captured and handled,
  and every event that was ever told to the sinks.
* All of these sinks have synchronous handlers, so the workers of `EventSinks`
  pass through one burst of microtasks together, and one queue stands for all: an
  event emitted within the burst waits (`Resume`), any other is handled at once
  (`Emitted`).  The clock moves only between bursts.
* In a burst the sinks write one after the other, and the failure of one is its
  own (`event-sinks.ts:155-168`).  So an event is handled with the set of the
  sinks that do not store it, one of the sets in `Faults`.  The books have no
  other reader inside the burst, so the order of the writes is not observable;
  what is, is which of them happened.  A sink that throws (no space, a locked
  database) is a set of one; a kill in the middle of a burst is the set of the
  sinks whose turn had not come, followed by `Restart`.
* One append or one upsert is one call, and whole or absent.  `agents.json` alone
  is rewritten in place: `"torn"` stands for a write that emptied the file and
  did not fill it, which `read()` takes for an empty registry (`AgentsFile`).
* `AnswerWhole` and `EndStream` record the content first and emit then, as
  `captureContent` and the event builder are called; a stream's completion time
  is that of its headers (`StartStream`), so the history is *not* ordered by it.
* `Restart` ends the process between two steps, with whatever was under way,
  prunes the history and, when the alerts are on, opens their database, which
  deletes those that have expired; the new process may have another
  configuration.
* The budget's sink is one more writer of the burst; what it may lose is in
  `BudgetLedger`.

---------------------------------------------------------------------------

## 3. Runs

Runs that must pass:

| run | question | bounds |
| --- | --- | --- |
| `tokemetry_runtime` | Is the export path right with poison, refusals, a kill or a shutdown, and does every event settle? | 3 events, one poison, batches of 2, 2 attempts, 7 refusals, 1 exit |
| `tokemetry_pump` | Does the pump implement `UsageDelivery`? | the same with 3 attempts, 4 refusals |
| `event_sinks` | Lost wake-ups, order, accounting, isolation, `drain()` | 3 sinks (two of one name), queues of 2, 4 events |
| `attempts_one` | One request through every path of the loop | 3 providers (one without adapter), 2 accounts, 2 retries, breaker at 2; a route may have two models of one provider |
| `attempts_shared` | Two requests and one breaker, with disconnects | 2 providers, 1 retry, breaker at 2 |
| `budget_gate` | Counting and blocking across midnight, kills and failing statements | 3 slots (one unchecked), 3 hours over 2 days, 5 arrivals, 1 restart |
| `streams` | Can every client read what it gets, is every stream completed once and with everything, does none hang? | 6 kinds of streams, up to 4 frames out of 8 (chat), 12 (Anthropic) or 3 (Responses), captured text of one delta |
| `gateway` | Where does a request go, what of it arrives, what of the answer comes back, what does its event say, when may the cache answer? | 1177 initial states: scenarios of one request, some of three; an upstream may fail in 3 ways; cache with a time of 2 and room for 3 |
| `observers` | Do contents stay with their requests, do the books agree, is a loop told, what does pruning keep? | 3 requests (2 alike, 1 stream), 2 processes, clock up to 2, buffer and log of 1 entry, 2 samples; one event may be lost to three sinks, or the agents' file torn and all sinks after it lose the event |

Runs that find a disagreement (section 5): `tokemetry_overlap`,
`streams_arguments`, `gateway_buffered`.

Why the bounds are enough for the interesting cases:

* *Tokemetry.*  A batch of 2 out of 3 rows leaves one row behind it and splits
  into a healthy and a poisonous one, in either order; with 2 attempts a row can
  be refused once in its batch and once alone; 7 refusals exceed 3 rows times 2
  attempts, so that the retry budget, and not the bound, is what ends every
  row's retries (this is what makes the liveness properties meaningful); 3
  attempts in the pump's run make the first, a middle and the last refusal
  different.
* *Sinks.*  Queues of 2 and 4 events make a busy sink overflow; two sinks of one
  name exercise the replacement, one hanging sink the isolation.
* *Attempt loop.*  A route of three with a provider that has no adapter at its
  end, a provider with two accounts, two retries, and a breaker that trips at
  two let every pair of retry, rotation, fallback and skip follow each other.
  Two requests are enough for one to trip the breaker between two hops of the
  other.
* *Budget.*  Day 0 has one hour and day 1 has two, so there is an hour that
  changes with its day and one that does not; two checked requests can pass a
  ceiling together; costs of 2 against ceilings of 3 and 4 reach a ceiling
  exactly and by overshoot.
* *Streams.*  Four frames are enough to open a part of one kind, switch to
  another and back, or to a second call, and to terminate or not; one of the
  chat frames carries two calls with interleaved arguments and a finish reason.
  Frames may come in any order, also after the terminator, and any of them may
  be the unterminated last one.

* *Gateway.*  The conversation of each surface has what a translation can lose:
  a system text in two places, an image with and one without its data, arguments
  that are no JSON, reasoning, a remark next to calls, two calls whose results
  come back in another order, and a question after a result.  It goes from every
  surface to every kind of upstream, streamed or not.  The tool scenarios
  combine a pack, an agent that adds or removes one, overrides and a deny list
  that contradict each other, with tools that have no name; the routing
  scenarios every mode with and without required capabilities, a cascade with
  unknown and doubled names, mappings between providers, a policy that pins and
  one that escalates.  The three requests of the cache scenarios may differ in
  tools, randomness or streaming, may overlap or follow each other, and fill the
  cache.
* *Observers.*  A log of one entry makes the second content evict the first while
  its event still waits; two alike requests and two repetitions make a loop, and
  a cooldown of 1 lets one alert be suppressed and the next one not; a sample
  buffer of two overflows at the third request; two processes are enough for
  what one leaves the next.  The event that may be lost is of the agent and the
  session of the others, before or after theirs, so a book that takes it from
  another book's records disagrees.  A superseded attempt that a sink loses is
  left to the theorem, which is of any `Faults`.

Every property of a passing run has a mutant: a plausible bug (a dropped guard,
an off-by-one, a reset that is missing, a swapped order) in a definition of the
module, under which TLC refutes the property in the run's own configuration.

Deadlock is checked in `event_sinks` only.  Elsewhere the system may really
stop: all requests are done, all events settled, or the bound on restarts is
used up.

---------------------------------------------------------------------------

## 4. Fairness

Liveness is checked under weak fairness of what the code's environment does for
it, never of a choice:

* `TokemetryExport`: the interval keeps firing (`PumpTick`), a POST comes to
  *some* end and its callback runs (`FlushStep`), time passes
  (`BackoffElapses`), the steps of `stop()` follow each other, and an operator
  starts the process again (`Restart`).  Nothing says that the server ever
  accepts: an event settles because it is delivered or because its attempts run
  out, and `HealthyEventsDelivered` makes the number of refusals its exception.
  The POST has no timeout of its own in the batcher; that it ends is what
  `fetch`'s own header and body timeouts give.
* `EventSinks`: the jobs of sinks outside `Hanging` settle, and `drain()` keeps
  looking.  Registration and emission are not fair.
* `AttemptLoop`: a call ends (in an answer, a failure, or `fetch`'s timeouts), a
  backoff timer fires, a stream ends.
* `StreamPipeline`: what runs goes on running; a body yields, ends or fails
  (`fetch` has a body timeout; that it does not yield for ever is the bound
  `MaxFrames`); a socket whose client has gone has closed.  A client that stays
  and does not read is *not* assumed to read on: `StreamEnds` excepts it, for
  `writeResponse` has no timeout of its own.
* `BudgetLedger`, `GatewaySurfaces` and `Observers` have safety properties only:
  that a request ends is `AttemptLoop`'s `EveryRequestAnswered`.

---------------------------------------------------------------------------

## 5. Findings

Three runs refute a statement of the repository:

1. `tokemetry_overlap` / `StatesMoveOneWay`.  `outbox.ts:7-8` says rows move
   pending -> exported or pending -> dead.  `stop()` flushes
   (`composition.ts:299`) while a flush of the pump may be waiting for its
   answer: `clearInterval` prevents new ones only.  Both post the same rows and
   both settle them by id; one marks dead or failed what the other has exported.
   Without `stop()` the property holds and is proved (`SettledForever`).
2. `streams_arguments` / `ArgumentsReachTheirCall`.
   `openai-chat/stream-decoder.ts:77-78`: a fragment of arguments "extends the
   call already open at that index".  `ChatToResponsesTranslator` ignores the
   index (`stream-translate.ts:121`) and appends to the item that is open; when
   an upstream interleaves parallel calls, one call gets the other's arguments.
   The Anthropic translator compares the index and drops such a fragment.
3. `gateway_buffered` / `BufferedStreamIsCorrect`.
   `docs/architecture/streaming.md:53-55` calls the buffered paths through Gemini
   and Ollama "correct, just not incremental".  On Messages and Responses a
   client that asks for a stream has its upstream's streamed body (NDJSON, or a
   JSON array) buffered and given to the adapter's `parseResponse`, which finds no
   answer in it, and gets a 200 with an empty one.

Met while modelling, without a run.  Requests:

* With no account left, an authentication failure ends the request although
  candidates are queued (`server.ts:1100`); `server.ts:1084-1085` speaks of
  accounts "before considering a cross-provider fallback".
* A first hop whose provider is not registered ends a Messages request despite
  its fallbacks, and a policy's override keeps the fallbacks of the plan it
  replaced.
* `x-task-type` and `x-agent-id` select the tool policy, the `x-aipp-*` headers
  the routing policy.
* `tool_choice` may name a tool that the policy has stripped.
* `authorization.ts:28` and `:33` call a pack's `defaultPolicy` the one "applied
  to tools not listed in this pack".  The code applies it to listed tools whose
  policy is `inherit`; a tool that no active pack lists is denied, whatever their
  defaults (`EffectivePolicy`).
* Tools without a name are not asked about (`server.ts:330-345`, `458-470`), and
  the parsers accept them: a request that offers only such tools, or allowed ones
  besides, is sent on with them.  `DeniedNeverSent` says which of them pass.

Translation:

* Where a protocol wants a call's arguments as a value, those that are no JSON are
  replaced by `{}` without a word: towards Anthropic, Gemini and Ollama upstreams
  (`openai-chat/translate.ts:95-100`), and in answers to Messages clients
  (`anthropic/translate.ts:294-299`), where a call that was cut short for length
  arrives as a complete call without arguments.
* An Anthropic image given by URL (`anthropic/translate.ts:104`), a Responses image
  given by a file's id (`openai-responses/translate.ts:98-107`), and any image
  towards Gemini, Ollama or from Chat to Anthropic is dropped, not refused.
* The Responses surface sends an Anthropic upstream a chat body, and reads its
  message as a chat completion: `Unread` excepts it from `AnswerIsWhole`.
* From Anthropic to chat, a turn's own text goes before the tool results of the
  same turn; `NothingLostInTranslation` compares the two kinds separately.
* Anthropic upstreams are never told `tool_choice: "none"`; Gemini's results are
  named by the call's id, and neither Gemini nor Ollama is sent ids of calls.
* Gemini and Ollama report a call where the answer was also cut short, so a
  truncation is not seen (the exception in `Whole`).
* The classifier sees no text of a Responses input, which is made of
  `input_text` parts or a plain string.

Cache and budget:

* A lookup comes before the budget and the tool policy, and the key has neither
  the headers nor `stream`: a request may be answered with what another agent's
  tools produced.  What a fallback or a downgraded model answered is stored
  under the requested model.  `HitIsDeserved` says what does hold.
* An exception from `get` leaves `handle()`; one from `set` turns an answer that
  has been paid for into a failure.
* `dailyPercent()`, "Current daily spend" (`budget.ts:304`), does not roll the
  windows and is consulted (`server.ts:1166`) before `check()` (`server.ts:1242`):
  the first request after midnight is downgraded on yesterday's spend.
* `budget.ts:10-12` promises that a database failure degrades to memory-only; a
  SELECT that throws in `check()` or `getStatus()` is caught nowhere up to
  `listen()` (`server.ts:2465`), and an unhandled rejection ends a Node.js
  process.

Streams: `stream-pipeline.ts:13-15` says that a dropped connection is closed off
by `end()`, but a body that *breaks* skips `end()` (`ReadFails`); only one that
ends early is closed off.  A chat stream that is cut off before the upstream
stated any usage is reported with zero tokens (`Reported`), where the other
surfaces report an estimate.  The cap on captured tool arguments does not mark
the capture as truncated (`AddToolArgs`).

Observers:

* `retention.ts:79` takes the history to be in chronological order; a stream is
  appended when it ends and dated when it starts (the exception in
  `PruneKeepsNewest`).  For the same reason a session's `last_seen` may go back
  (the exception in `SessionAgrees`).
* A torn `agents.json` is an empty one to `read()`, and the next event overwrites
  it: the counts of all agents start anew (`AgentsFile`).
* The sink of the traces has no handler for final events: the attempt that
  answered is never traced.
* An alert is marked as sent before it is stored, so that a failing store
  suppresses it for a whole cooldown (the exception in `LoopIsTold`); thresholds
  above the buffer's 100 samples never fire; opening the alert database, as
  `aipp alerts` does, deletes the old ones.
* `pruneHistory` reads, then renames: a running process that appends in between
  loses its lines.

---------------------------------------------------------------------------

## 6. Proofs

All proofs are checked by TLAPS for every value of the constants that satisfies
the named assumptions of the modules; nothing is assumed besides, and TLC
evaluates every one of them.

| assumption | says |
| --- | --- |
| `ExportAssumption`, `SinksAssumption`, `BudgetAssumption` | the constants have their types, limits are positive |
| `LoopAssumption` | the same, and there is a provider |
| `CacheAssumption` | budget and time to live of the cache are numbers |
| `UpstreamAssumption` | no upstream fails under a name that only the gateway's own refusals have; what is stored of an answer has a size |
| `AliasAssumption`, `ConfigAssumption` | a routing mode or friendly name stands for a provider and a model; a configured cascade and the providers to fall back to are arrays |
| `ScenarioAssumption` | a parsed body has the fields of a body, its tools are a list of names or missing names, hosted tools are on the Responses surface only |
| `ConversationAssumption` | what a client says is a conversation of its protocol: parts and calls of its kinds, the assistant calls and a user's turn returns, the text of a reasoning or call item is text, and there are four surfaces |
| `AnswerAssumption` | an upstream answers in its protocol, which has one word for an answer cut short and uses no other's |
| `JsonAssumption` | the empty text is no JSON, and the empty object is |
| `ToolAssumption`, `ContentAssumption`, `AnomalyAssumption` | types of what the parts are configured with |
| `StreamAssumption` | the frames of a protocol have the fields a decoder reads, `[DONE]` carries nothing else (it is not JSON), and the capture limit is positive |
| `ObserversAssumption` | a request's tokens are a number, no request is the mark for no content, and faults are of the sinks there are |

**TokemetryExportProofs** (of `Spec`, shutdowns included).  `TypeCorrect` is
inductive: rows are only appended or rewritten in place, so a flush names
existing rows (`TableGrows`, `FlushKept`).  `ExportedOnServer` and
`PoisonIsolated` rest on `Answered`, what the status of a POST means: `ok` only
if the server has all its events, `invalid` only if one of them is poison, so
that a single rejected row *is* poison.  `ShortOutage` rests on `Spent`: the
attempts of a row, plus one for every refusal that has not been dealt with yet,
never exceed the refusals there were; a row that a claim found at its last
attempt is at its last attempt still (`LastTries`), and one that was buried for
want of attempts has had a full budget of refusals (`Buried`).

The same module, of `PumpSpec`: `ClaimsCurrent` is where the overlap guard is
used: the inductive invariant adds that `flushing` is true while the pump has a
POST and that the final flush never has one; `BudgetKept` and
`RowsSettleForever` follow from it, because every UPDATE then hits pending rows
with the attempts they were claimed with.

`DeliveryImplemented`: `PumpSpec` implements
`UsageDelivery` under the mapping that gives an event its row's state.  It needs
that two rows never hold the same event (events are committed once), the claim's
currency and the meaning of `ok`; a step is mapped to `Commit`, `Receive`,
`Settle` or a stutter.

**EventSinksProofs**.  `SinksTypeCorrect`, `NoLostWakeup`, `EventsAccounted`,
`DrainSettles`: all are properties of one sink's record, so the proof is about
the operators that change one (`Push`, `Process`, `Enqueue`, `Finished`), which
keep it `WellFormed`.  The one strengthening is that waiting events are not 0:
it tells a busy worker, whose job is an event, from an idle one.
`HandledInOrder` is about the history as well: `OrderInv` says that a sink's
queue is the end of what was offered to it (`Tailing`), increasing, and lies
between the event its worker began last and the one emitted last (`Between`).
Without the upper bound the next emission would not be known to be the latest.

**AttemptLoopProofs**.  `LoopTypeCorrect`, `AttemptsHaveCauses`,
`AttemptsAreReported`, `CandidatesAreExhausted`, `DisconnectEndsRequest`,
`BreakerIsEarned`.  A property of a request is about the sequence of its
attempts, and the code decides by counters: the invariant (`RequestsInv`)
relates the two, that is the retry count to the attempts on the last candidate,
the account cursor to those that failed for authentication, the queue of
candidates to what is left of the route, and the reports to the attempts that
are over.  `BreakerInv` counts the failures of each provider's window against
the attempts of all requests, since any of them may have made the breaker trip.
Where the code looks for the first usable candidate, a least index is needed
(`LeastElement`, see `FiltersProofs`).
The attempt to prove `SupersededForCause` refuted it: a route that names two
models of one provider falls back *within* the provider, which the property had
excluded and no instance contained.  The property now says so, and the instance
has such a route.

**GatewaySurfacesProofs**.  `EventsTellTheAnswer`, `HitsAreDeserved`,
`RoomIsMade`, `DeniedIsNeverSent`, `RoutesAreSound`, `AnswersAreWhole`,
`NothingIsLost`.  `RequestsInv` has, for each stage of a request, what the later
ones rely on: nothing is reported before the end, something was sent before an
upstream answers, and the key a request will store under is that of its
question.  `CacheInv` says of each row who put it there: a finished request with
that key, whose answer it holds and whose end it is dated with; and that the sum
of the sizes stays within the budget.  A sum over the rows is the number of
units they have (`Units`), so that adding and evicting rows is a matter of
cardinalities (`SizesAdd`).  `HitIsDeserved` is inductive with these two.
`StoreMakesRoom` is an action property: only `AnswerWhole` stores
(`StoringStep`), and what it leaves is `StoreLeaves`.  For `DeniedNeverSent` the
translations need to be known only as far as tools go (`WireKeeps`: they neither
add nor drop one, and hosted tools survive towards OpenAI alone), the order of
rules in `authorization.ts` is shown to agree with the quantifiers of `MayUse`
(`PolicyAgrees`, again with a least index), and a waiting request's body is
`Cleared`, which is why a fallback may send it on without asking again.

`RouteSound` has two halves.  One is about the planner and no step at all: a
chain that is extended by what it does not hold yet (`AppendEachSays`) names, at
any place behind those the mode selected, the counterpart of the primary at one
provider.  Two counterparts at a provider are the same candidate, and so is the
primary and its own, therefore no provider comes twice but by the cascade
(`ExtendedCrosses`); a capability filter leaves that so because it keeps the
order (`FilteredCrosses`); and a policy either leaves the whole route or says in
its reason that it did not (`ResolvedSound`).  The other half is inductive
(`RoutesInv`): what was sent follows the plan place by place (`Follows`), and
what a waiting handler has left is the rest of it (`Left`), counted from the
number of attempts; only `Receive` and `FallBack` move that place
(`DispatchRoute`).

`AnswersAreWhole` and `NothingIsLost` are about the translators, for
conversations and answers of any length.  The steps contribute little:
`CarryInv` says that whatever was sent is the client's body, but for its tools,
put through `WireBody`, and that a whole answer is `Faithful` to the upstream's; only
the steps that ask or answer touch either.  The rest reads bodies.  The readers
of the properties (`Words`, `Exchange`, `Images`) read a body turn by turn, so
it is enough that every translator of a turn makes turns that say the same:
`Renders` states that of one turn and `TurnsSay` of a list of them, `Says` of a
body.  What a turn does to its parts is the same argument again, one level
down.  What a route does not carry is a parameter of these: how calls arrive (`Phrased`,
with or without ids, with arguments as they are or as values), and how many
images.  Three places need more.  A system text moves from the conversation to
the front of the body (`SystemHoisted`), which keeps the words of each side
although it changes their order between sides.  A reasoning item of the Responses
surface has no counterpart, is dropped, and said nothing that the readers count
(`ReasoningSays`).  And towards
Gemini and Ollama a Messages or Responses body is translated twice:
`SaysAgain` composes the two, which works only because the first one goes to
chat, where calls keep their ids and their arguments (`Named`).

The two properties hold of what the protocols allow, not of any JSON: the
gateway does not check that only the assistant's turns call and only a user's
return results, and a turn that did both, which Anthropic's protocol forbids,
would reach a chat upstream with its calls before its results, in whatever order
they were said.  `ConversationAssumption` says
what they rely on.

**FiltersProofs**.  `LeastElement`, that a non-empty set of numbers has a least
one, comes from the library's well-ordering of the naturals and stands in for
the induction that the provers cannot instantiate: the least place at which a
claim about a recursive function fails does not exist.  It gives the existence
of the functions that `Keep` and `Total` are defined by (`Recursion`), what they
do to a sequence that grows (`KeepAppend`, `TotalAppend`, `FlatAppend`), and
that what is kept is a subsequence (`KeepSays`) whose elements are no farther
from its end than from the end of the whole (`SubsequenceGap`), which is what a
bounded buffer rests on.  A set of sequences that has the empty one and grows by
any element has them all (`SequencesGrow`): that is how reading a sequence is
shown to commute with concatenating, mapping and filtering it (`FlatConcat`,
`FlatMapped`, `MappedFlat`, `FlatKept`, `KeptAsFlat`), and with it the
translations.

**ObserversProofs**.  `BooksAlwaysAgree`, `ContentFollows`, `PrunesKeepNewest`,
`LoopsAreTold`.
The sinks handle an event in one step, but a step may emit an event and handle
it at once, and in between the books disagree.  So the invariant (`Between`) is
stated of a set `P` of events that have been emitted and neither handled nor
queued: empty between two steps, one request inside of one.  `LogOk` has the
events told as the record that every book is compared with: a request whose
event is handled (`Gone`) has one final record, is done and is not waiting any
more.  `LinesOk`, `SessionsOk` and `AgentsOk` say of each book that it is made
from the records that its own sink stored, and for the agents of those since the
file was last torn; a step appends one record with the set of sinks that lost it,
and a book gains a line exactly when its sink is not in that set.  `TimesOk`, that
an event is told no earlier than it is dated and in the order of the dates unless
it is a stream's, is what bounds how far `last_seen` may be behind.
For the contents `BufferOk` relates three
sequences: what was captured, what the buffer still has, and the events that
wait.  A captured content that is not in the buffer and whose event has not been
handled was pushed out, which needs that the buffer's elements are no farther
from its end than from the end of what was captured.  `HistoryOk` says of the
history that no request is in it twice, that a missing content was pushed out,
and that a later line is no older unless it is a stream's; the prune then keeps
what `PruneKeepsNewest` says (`PruneSays`, `PruneIsFair`), and what the
dashboard finds under an id is the line it lists (`ShownIsFound`).

`LoopsAreTold` relates what the detector counts to what happened, through
bounded memories: a buffer of samples, a window, a mark per type, a full alert
table.  `AInv` says that the samples match, place by place, the last
`BufferSize` events handled; one filter after another is a filter (`KeepKeep`)
and filters of sequences that match have the same length (`KeepMatches`), so the
detector counts as many of one pattern as the property does.  It says that the
alerts are in the order of their times, and that every mark covers the alerts
of its type of this process and is *accounted for*: by an alert of this process
at that time, by a recorded failure of the store, or by a full table of alerts
that are all at least as late.  A type that the deduplication suppresses
therefore has such a reason less than a cooldown old, which is what the property
asks.  The proof shows where the promise ends: only the last `BufferSize` events
count, and with a cooldown of 0 the alert must be of this very moment.

**StreamPipelineProofs**.  `StreamInvariant`, `StreamTranscript`,
`StreamCompletes`: for whatever frames an upstream sends, in whatever order, and
wherever it breaks off.  The pipeline has three machines that must agree: the
translator decides from its own state which events are implied, the encoder
throws at an event that does not fit *its* state, and the client reads records
one by one; in between, events wait in `pending` while the client disconnects or
the socket is full.  The proof describes all three by one thing, a *place* in an
answer (stage, open part, parts so far, text, status).  `Leads(a, events, b)`
says that a client at place `a` can be told `events` one after the other and is
at `b` then; the inductive invariant `StreamInv` says that client and encoder
are at one place and that `pending` leads from there to the place of the
translator (`Between`).  Then:

* the encoder accepts whatever a place allows, and its record takes the client
  along (`MessagesConforms`, `ResponsesConforms`, `ChatConforms`): a step of the
  writer moves along `pending`;
* what a translator emits for an event leads on from its own place
  (`ResponsesPush`, `ChatPush` and their likes): a step of the reader extends
  `pending`;
* a client that has left keeps its place, and nobody has to agree with it.

`Matches` and `Fits` say that what was captured is, up to the cap, what the
place has been told, call by call; `UsageKept` and `SaidKept` that usage, text
and calls stated by the frames so far are those taken plus those of the events
of the current frame that are still to be translated.  This gives the last
conjuncts of the two properties: a stream that ends has shown every call the
upstream named, in order, and the completion has all usage of the frames that
were worked off.

**BudgetLedgerProofs**.  `BudgetTypeCorrect`, `CachesCountSpend`,
`LedgerHoldsSpend`, `BlockedExactly`, `DowngradesKept`, `OvershootIsBounded`.
`SpendCounted` is not inductive alone: a roll or a restart reads the table, so
the table must be known never to hold more than was spent (`LedgerBelow`), and
all of it unless a spend could not be recorded (`Complete`); and nothing may
have been spent yet in a window to come (`Future`).  The bound on the overshoot
strengthens to `Room`: what is spent, plus the largest cost of every checked
request in flight, stays below the ceiling plus one cost per slot.  Stepping it
needs that adding or removing a slot changes the number of checked requests in
flight by one, which are the lemmas on finite sets.

Argument of every temporal theorem: initial states satisfy the invariant, each
action preserves it (one step per action), the invariant implies the property,
and PTL closes it.

---------------------------------------------------------------------------

## 7. Limits

Only model-checked:

* liveness (`EveryEventSettles`, `HealthyEventsDelivered`, `HealthySinksServed`,
  `DrainEnds`, `EveryRequestAnswered`, `StreamEnds`): fairness and ENABLED are out of the
  prover's reach.

Every safety invariant and action property of a run that passes is stated by a
theorem of section 6.  RECURSIVE operators are out of the prover's reach too; no
module here declares one.  The runs that expect a violation refute their
property on one instance, which is all a refutation needs.

Abstractions a reader should know of:

* Clocks are monotonic in the models: `Date.now()` going backwards is not
  modelled.
* In `AttemptLoop` a call that has ended in an answer is taken to be readable:
  exceptions from an adapter's `parseResponse` (a body that is the JSON text
  `null`) or from the cache's statements leave `handleMessages` and end the
  process, as a SELECT that throws in the budget's check does (`HandlerThrows`);
  they are not outcomes of the model.
* The process is not killed in `AttemptLoop`, and its events are not connected
  with the outbox: what a kill or a closed outbox loses of a request in flight
  is not modelled yet.
* `stop()` waits in `draining` as long as the sinks want; that `drain()` may
  never return with a hanging sink is `DrainEnds` of `EventSinks`, and
  `tokemetry_runtime` assumes it does.
* `GatewaySurfaces` does not time out, disconnect or kill; `AttemptLoop`,
  `StreamPipeline` and `BudgetLedger` have these for their parts.
* In `TokemetryExport` 404, 405 and 413 are not told apart from the answers a
  server that works gives: `providers/errors.ts:96-98` takes them for validation errors, so
  a wrong URL would bury healthy events as poison.
* In `RequestTranslation` outputs of tools that are no strings are texts already
  (the code writes them as JSON), and a Messages call without `input` has `{}`.
* In `ResponseCache` the body has no `stop_sequences`, `top_k` and `top_p`, which
  the key has as well, and the cache is on with `onlyWhenDeterministic`
  (`cache.ts:131-136`); without that flag random requests are cached too.
* In `Anomalies` the store of one alert per event may fail, that of the first
  type that is due; the INSERT, COUNT and DELETE of a store are one statement.
* In `Observers` a superseded attempt is reported without the backoff before it,
  and dated at any time since the request began; redaction, truncation and size
  bounds of a content are data; the minute buckets of the detector only change
  the wording of an alert; the webhook is sent and forgotten.
* The table of `BudgetLedger` is its sums; the other statements on it (`reset`,
  alert thresholds) are never called or have no effect.

Not modelled:

* *Configuration* (schema, defaults, migration): one file is rewritten field by
  field before anything runs.
* *The estimate surface* and its limiter: it calls no upstream and changes
  nothing else.
* *`replayPolicy`* and the rest of the command line: simulations, prints, and
  reads of the same tables.
* *Usage-event mapper, exporter health, service templates, fixture recorder*:
  formatting and files.
* Code that the program never calls: `purgeExported`, `dedupeByEventId`,
  `EstimateRateLimiter.purge`, `TokenPool`, `buildSmartAliases`, the ledger's
  `reset`, `updateConfig` and `markThresholdFired`, the alert manager's
  `fireThreshold` and `fireBreach`, and `parseStreamEvent` of Gemini and Ollama.
  
The composition gives the gateway no
`accountsFor`, so rotation is reachable only for a caller of `createGateway`
that does; the attempt loop's models have it.

---------------------------------------------------------------------------

## 8. Plan

Done, in this order: the durable export path and its refinement; the sinks; the
attempt loop; the budget ledger; the streams; the surfaces with routing, tool
policy, translation and cache; the observers with content log, trackers and
alerts; the proofs of section 6.

Next, most important first:

1. `LogicalRequest`, an abstract request (attempts, one final report) that
   `AttemptLoop` implements, with the refinement proved.
2. `GatewayShutdown`: requests in flight, the sinks, the outbox and `stop()`
   composed, for what is lost and what is not.
