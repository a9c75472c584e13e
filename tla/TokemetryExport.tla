--------------------------- MODULE TokemetryExport ---------------------------
(***************************************************************************)
(* The durable export path of usage events: the SQLite outbox              *)
(* (src/integrations/tokemetry/outbox.ts), the batcher that drains it      *)
(* (batcher.ts), and the part of the runtime that drives the batcher       *)
(* (src/runtime/composition.ts): the interval pump with its overlap guard, *)
(* and the orderly shutdown with its final flush.                          *)
(*                                                                         *)
(* The outbox is a sequence: a row's AUTOINCREMENT id is its index.  The   *)
(* rows survive a kill of the process, everything else in it does not.     *)
(* A flush awaits nothing but its POST, so one action covers the code from *)
(* an answer to the next POST, and another one the code up to the first.   *)
(*                                                                         *)
(* Time is abstracted: a row that failed is not "due" until its backoff    *)
(* elapses, which may happen at any later moment.                          *)
(***************************************************************************)
EXTENDS Integers, FiniteSets, Sequences

CONSTANTS
  Events,        \* the usage events the gateway may commit
  Poison,        \* those the ingest server rejects as invalid
  BatchSize,     \* cfg.batchSize: rows claimed by one flush
  MaxAttempts,   \* cfg.maxAttempts: refusals before a row is dead-lettered
  MaxRefusals,   \* bound: refusals the server and the network may cause
  MaxExits       \* bound: kills and orderly shutdowns of the process

ASSUME ExportAssumption ==
  /\ Poison \subseteq Events
  /\ BatchSize \in Nat \ {0}
  /\ MaxAttempts \in Nat \ {0}
  /\ MaxRefusals \in Nat
  /\ MaxExits \in Nat

VARIABLES
  rows,       \* the table outbox_events
  flush,      \* the two callers of flushOnce: the pump and stop()
  flushing,   \* the pump's overlap guard
  phase,      \* how far the process is through its life
  ingested,   \* the events the server has stored (it keeps one per event_id)
  refusals,   \* POSTs that ended in anything but a 2xx or a validation error
  exits       \* processes that have ended

vars == <<rows, flush, flushing, phase, ingested, refusals, exits>>

-----------------------------------------------------------------------------

Flushers == {"pump", "final"}

States == {"pending", "exported", "dead"}

Reasons == {"none", "retry", "poison", "exhausted"}

Row == [event : Events, state : States, attempts : Nat, due : BOOLEAN,
        error : Reasons]

Ids == DOMAIN rows

(* A POST is "sent" until the server or the network decides its status.    *)
Wire == {"idle", "sent", "ok", "invalid", "refused"}

(* A flush: the rows of the POST in flight, the rows to be posted one by   *)
(* one after it (a split batch), and those among the claimed rows that had *)
(* one attempt left when they were claimed.                                *)
Idle == [wire |-> "idle", posted |-> {}, rest |-> {}, last |-> {}]

Phases == {"running", "draining", "flushing", "closed", "down"}

(* The database handle is open from start-up until stop() closes it.       *)
OutboxOpen == phase \in {"running", "draining", "flushing"}

EventsOf(S) == {rows[i].event : i \in S}

Committed == EventsOf(Ids)

-----------------------------------------------------------------------------
(* The statements of outbox.ts.                                            *)

(* Mutant: the claim forgets WHERE state = 'pending'.                      *)
DueInAnyState == {i \in Ids : rows[i].due}

Due == {i \in Ids : rows[i].state = "pending" /\ rows[i].due}

(* SELECT ... WHERE state = 'pending' AND next_attempt_at <= now           *)
(* ORDER BY id LIMIT n: a claim reads the rows and marks nothing.          *)
ClaimBatch == {i \in Due : Cardinality({j \in Due : j < i}) < BatchSize}

Fresh(e) == [event |-> e, state |-> "pending", attempts |-> 0, due |-> TRUE,
             error |-> "none"]

(* The three UPDATEs name rows by id only, whatever state they are in.     *)
ExportedRow(r) == [r EXCEPT !.state = "exported", !.error = "none"]

FailedRow(r) ==
  [r EXCEPT !.attempts = @ + 1, !.due = FALSE, !.error = "retry"]

DueRow(r) == [r EXCEPT !.due = TRUE]

DeadRow(r, why) == [r EXCEPT !.state = "dead", !.error = why]

-----------------------------------------------------------------------------
(* The decisions of batcher.ts.                                            *)

(* Mutants: the retry budget is off by one, either way.                    *)
ExhaustedLate(n) == n >= MaxAttempts

ExhaustedEarly(n) == n + 2 >= MaxAttempts

Exhausted(n) == n + 1 >= MaxAttempts

(* Mutant: a rejected batch is buried whole, without splitting.            *)
WholeBatch(S) == TRUE

(* A rejected batch of one row is the offender itself.                     *)
Offender(S) == Cardinality(S) = 1

(* retireByAttempts goes by the attempts the rows had when claimed.        *)
Retired(i, last) ==
  IF i \in last THEN DeadRow(rows[i], "exhausted") ELSE FailedRow(rows[i])

(* flushOnce up to its first await: an empty claim returns at once.        *)
StartFlush ==
  IF ClaimBatch = {} THEN Idle
  ELSE [wire |-> "sent", posted |-> ClaimBatch, rest |-> {},
        last |-> {i \in ClaimBatch : Exhausted(rows[i].attempts)}]

(* Mutant: the pump's guard is never released.                             *)
NeverReleased(f) == flushing

(* The `finally` of the pump's callback.                                   *)
Released(f) == IF f = "pump" THEN FALSE ELSE flushing

(* Mutant: the row posted next also stays in the list.                     *)
PostAgain(f, i, S) ==
  flush' = [flush EXCEPT ![f] = [wire |-> "sent", posted |-> {i},
                                 rest |-> S, last |-> flush[f].last]]

(* Post the single row i next, leaving the ones in S for later.            *)
PostSingle(f, i, S) ==
  flush' = [flush EXCEPT ![f] = [wire |-> "sent", posted |-> {i},
                                 rest |-> S \ {i}, last |-> flush[f].last]]

(* After a POST is dealt with: the next row of a split batch, or the end.  *)
NextPost(f) ==
  \/ /\ flush[f].rest = {}
     /\ flush' = [flush EXCEPT ![f] = Idle]
     /\ flushing' = Released(f)
  \/ \E i \in flush[f].rest :
       /\ \A j \in flush[f].rest : i <= j
       /\ PostSingle(f, i, flush[f].rest)
       /\ UNCHANGED flushing

-----------------------------------------------------------------------------
(* The gateway and the pump.                                               *)

(* emitEvent commits an event before anything is exported; requests still  *)
(* in flight commit theirs while the process shuts down.                   *)
Enqueue(e) ==
  /\ OutboxOpen
  /\ e \notin Committed
  /\ rows' = Append(rows, Fresh(e))
  /\ UNCHANGED <<flush, flushing, phase, ingested, refusals, exits>>

(* The interval fires while no flush of the pump is in progress.           *)
PumpTick ==
  /\ phase = "running"
  /\ ~flushing
  /\ ClaimBatch # {}
  /\ flush' = [flush EXCEPT !["pump"] = StartFlush]
  /\ flushing' = TRUE
  /\ UNCHANGED <<rows, phase, ingested, refusals, exits>>

BackoffElapses(i) ==
  /\ rows[i].state = "pending"
  /\ ~rows[i].due
  /\ rows' = [rows EXCEPT ![i] = DueRow(rows[i])]
  /\ UNCHANGED <<flush, flushing, phase, ingested, refusals, exits>>

-----------------------------------------------------------------------------
(* The ingest server and the network.  A batch is all or nothing.          *)

ServerAccepts(f) ==
  /\ flush[f].wire = "sent"
  /\ EventsOf(flush[f].posted) \cap Poison = {}
  /\ ingested' = ingested \cup EventsOf(flush[f].posted)
  /\ flush' = [flush EXCEPT ![f].wire = "ok"]
  /\ UNCHANGED <<rows, flushing, phase, refusals, exits>>

ServerRejects(f) ==
  /\ flush[f].wire = "sent"
  /\ EventsOf(flush[f].posted) \cap Poison # {}
  /\ flush' = [flush EXCEPT ![f].wire = "invalid"]
  /\ UNCHANGED <<rows, flushing, phase, ingested, refusals, exits>>

(* A 429, 5xx, 401/403 or 3xx answer, or a connection that fails: before   *)
(* the server stored the batch, or after it did and only the answer is     *)
(* lost.                                                                   *)
ServerRefuses(f) ==
  /\ flush[f].wire = "sent"
  /\ refusals < MaxRefusals
  /\ refusals' = refusals + 1
  /\ \/ UNCHANGED ingested
     \/ /\ EventsOf(flush[f].posted) \cap Poison = {}
        /\ ingested' = ingested \cup EventsOf(flush[f].posted)
  /\ flush' = [flush EXCEPT ![f].wire = "refused"]
  /\ UNCHANGED <<rows, flushing, phase, exits>>

-----------------------------------------------------------------------------
(* The batcher's handle(), from an answer to the next POST.                *)

(* Mutant: a 2xx for one row of a split batch is taken for all of it.      *)
MarkBatchExported(f) ==
  /\ OutboxOpen
  /\ flush[f].wire = "ok"
  /\ rows' = [i \in Ids |-> IF i \in flush[f].posted \cup flush[f].rest
                            THEN ExportedRow(rows[i]) ELSE rows[i]]
  /\ NextPost(f)
  /\ UNCHANGED <<phase, ingested, refusals, exits>>

MarkExported(f) ==
  /\ OutboxOpen
  /\ flush[f].wire = "ok"
  /\ rows' = [i \in Ids |-> IF i \in flush[f].posted THEN ExportedRow(rows[i])
                                                     ELSE rows[i]]
  /\ NextPost(f)
  /\ UNCHANGED <<phase, ingested, refusals, exits>>

MarkPoison(f) ==
  /\ OutboxOpen
  /\ flush[f].wire = "invalid"
  /\ Offender(flush[f].posted)
  /\ rows' = [i \in Ids |-> IF i \in flush[f].posted
                            THEN DeadRow(rows[i], "poison") ELSE rows[i]]
  /\ NextPost(f)
  /\ UNCHANGED <<phase, ingested, refusals, exits>>

(* Splitting touches no row: it goes on even after the outbox is closed.   *)
SplitBatch(f) ==
  /\ flush[f].wire = "invalid"
  /\ ~Offender(flush[f].posted)
  /\ \E i \in flush[f].posted :
       /\ \A j \in flush[f].posted : i <= j
       /\ PostSingle(f, i, flush[f].posted)
  /\ UNCHANGED <<rows, flushing, phase, ingested, refusals, exits>>

RetireByAttempts(f) ==
  /\ OutboxOpen
  /\ flush[f].wire = "refused"
  /\ rows' = [i \in Ids |-> IF i \in flush[f].posted
                            THEN Retired(i, flush[f].last) ELSE rows[i]]
  /\ NextPost(f)
  /\ UNCHANGED <<phase, ingested, refusals, exits>>

FlushStep(f) ==
  \/ ServerAccepts(f) \/ ServerRejects(f) \/ ServerRefuses(f)
  \/ MarkExported(f) \/ MarkPoison(f) \/ SplitBatch(f) \/ RetireByAttempts(f)

-----------------------------------------------------------------------------
(* Kills and restarts.                                                     *)

ProcessGone ==
  /\ phase' = "down"
  /\ flush' = [f \in Flushers |-> Idle]
  /\ flushing' = FALSE

Kill ==
  /\ phase # "down"
  /\ exits < MaxExits
  /\ exits' = exits + 1
  /\ ProcessGone
  /\ UNCHANGED <<rows, ingested, refusals>>

(* retireByAttempts commits one transaction per row it retries and one for *)
(* all the rows it buries: a kill between them leaves only the first       *)
(* retries on disk.                                                        *)
KillMidRetire(f) ==
  /\ OutboxOpen
  /\ flush[f].wire = "refused"
  /\ exits < MaxExits
  /\ exits' = exits + 1
  /\ LET retried == flush[f].posted \ flush[f].last IN
     \E last \in retried :
       rows' = [i \in Ids |-> IF i \in retried /\ i <= last
                              THEN FailedRow(rows[i]) ELSE rows[i]]
  /\ ProcessGone
  /\ UNCHANGED <<ingested, refusals>>

(* Mutant: the outbox is in memory and starts empty.                       *)
RestartEmpty ==
  /\ phase = "down"
  /\ phase' = "running"
  /\ rows' = <<>>
  /\ UNCHANGED <<flush, flushing, ingested, refusals, exits>>

Restart ==
  /\ phase = "down"
  /\ phase' = "running"
  /\ UNCHANGED <<rows, flush, flushing, ingested, refusals, exits>>

-----------------------------------------------------------------------------
(* stop(): the orderly shutdown.                                           *)

(* Close the listener, clear the pump's interval, start draining sinks.    *)
Stop ==
  /\ phase = "running"
  /\ exits < MaxExits
  /\ phase' = "draining"
  /\ UNCHANGED <<rows, flush, flushing, ingested, refusals, exits>>

(* The sinks are drained: flush once more, whatever the pump is doing.     *)
FinalFlush ==
  /\ phase = "draining"
  /\ phase' = "flushing"
  /\ flush' = [flush EXCEPT !["final"] = StartFlush]
  /\ UNCHANGED <<rows, flushing, ingested, refusals, exits>>

CloseOutbox ==
  /\ phase = "flushing"
  /\ flush["final"] = Idle
  /\ phase' = "closed"
  /\ UNCHANGED <<rows, flush, flushing, ingested, refusals, exits>>

(* An UPDATE on the closed database throws; the pump's catch swallows it.  *)
AbandonFlush ==
  /\ phase = "closed"
  /\ \/ flush["pump"].wire \in {"ok", "refused"}
     \/ flush["pump"].wire = "invalid" /\ Offender(flush["pump"].posted)
  /\ flush' = [flush EXCEPT !["pump"] = Idle]
  /\ flushing' = Released("pump")
  /\ UNCHANGED <<rows, phase, ingested, refusals, exits>>

Exit ==
  /\ phase = "closed"
  /\ exits' = exits + 1
  /\ ProcessGone
  /\ UNCHANGED <<rows, ingested, refusals>>

-----------------------------------------------------------------------------

Init ==
  /\ rows = <<>>
  /\ flush = [f \in Flushers |-> Idle]
  /\ flushing = FALSE
  /\ phase = "running"
  /\ ingested = {}
  /\ refusals = 0
  /\ exits = 0

(* A process that runs until it is killed.                                 *)
PumpNext ==
  \/ \E e \in Events : Enqueue(e)
  \/ PumpTick
  \/ FlushStep("pump")
  \/ \E i \in Ids : BackoffElapses(i)
  \/ Kill
  \/ KillMidRetire("pump")
  \/ Restart

(* ... or that is asked to stop.                                           *)
StopNext ==
  \/ Stop
  \/ FinalFlush
  \/ FlushStep("final")
  \/ KillMidRetire("final")
  \/ CloseOutbox
  \/ AbandonFlush
  \/ Exit

Next == PumpNext \/ StopNext

PumpSpec == Init /\ [][PumpNext]_vars

Spec == Init /\ [][Next]_vars

(* The interval keeps firing, a POST comes to an end, a promise callback   *)
(* runs, time passes, the operator starts the process again.               *)
Fairness ==
  /\ WF_vars(PumpTick)
  /\ \A f \in Flushers : WF_vars(FlushStep(f))
  /\ \A i \in 1..Cardinality(Events) : WF_vars(i \in Ids /\ BackoffElapses(i))
  /\ WF_vars(Restart)
  /\ WF_vars(FinalFlush)
  /\ WF_vars(CloseOutbox)
  /\ WF_vars(Exit)

FairSpec == Spec /\ Fairness

-----------------------------------------------------------------------------
(* Type correctness.                                                       *)

Flush == [wire : Wire, posted : SUBSET Ids, rest : SUBSET Ids,
          last : SUBSET Ids]

(* Every variable keeps its type; a flush names existing rows only.        *)
TypeOK ==
  /\ rows \in Seq(Row)
  /\ flush \in [Flushers -> Flush]
  /\ flushing \in BOOLEAN
  /\ phase \in Phases
  /\ ingested \subseteq Events
  /\ refusals \in Nat
  /\ exits \in Nat

-----------------------------------------------------------------------------
(* What holds whatever happens to the process, shutdowns included.         *)

(* A row marked exported is on the server: markExported runs only after a  *)
(* 2xx, for exactly the rows of the POST it answers.                       *)
ExportedWasIngested ==
  \A i \in Ids : rows[i].state = "exported" => rows[i].event \in ingested

(* Poison splitting isolates the offender: no healthy event is ever        *)
(* dead-lettered as poison, however it was batched with one.               *)
OnlyPoisonIsIsolated ==
  \A i \in Ids : rows[i].error = "poison" => rows[i].event \in Poison

(* An outage shorter than the retry budget costs nothing: as long as fewer *)
(* POSTs were refused than a row may fail, no row has been dead-lettered   *)
(* for want of attempts (splitting and kills consume none).                *)
ShortOutageBuriesNothing ==
  refusals < MaxAttempts => \A i \in Ids : rows[i].error # "exhausted"

-----------------------------------------------------------------------------
(* What the pump alone guarantees.                                         *)

(* A POST in flight carries only rows that are still pending, with the     *)
(* attempts they were claimed with: the overlap guard, and no other step   *)
(* touches them.                                                           *)
ClaimsAreCurrent ==
  \A f \in Flushers : \A i \in flush[f].posted \cup flush[f].rest :
    /\ rows[i].state = "pending"
    /\ i \in flush[f].last <=> Exhausted(rows[i].attempts)

(* A row that is still retried has attempts left, and a row buried for     *)
(* want of attempts has used them up.                                      *)
AttemptsWithinBudget ==
  \A i \in Ids :
    /\ rows[i].state = "pending" => rows[i].attempts < MaxAttempts
    /\ rows[i].error = "exhausted" => Exhausted(rows[i].attempts)

(* Rows move pending -> exported or pending -> dead and never back, nor    *)
(* from one end to the other; no row disappears (outbox.ts, header).       *)
SettledForever ==
  [][\A i \in Ids : /\ i \in Ids'
                    /\ rows[i].state # "pending" => rows'[i] = rows[i]]_vars

(* The same of the state alone, for any way the process ends.              *)
StatesMoveOneWay ==
  [][\A i \in Ids : rows[i].state # "pending" =>
                    rows'[i].state = rows[i].state]_vars

-----------------------------------------------------------------------------
(* The abstract specification the pump implements.                         *)

(* An event's status is its row's state.                                   *)
View(state) == IF state = "exported" THEN "delivered" ELSE state

StatusOf(e) ==
  IF e \notin Committed THEN "unseen"
  ELSE View(rows[CHOOSE i \in Ids : rows[i].event = e].state)

Promise == INSTANCE UsageDelivery WITH
  status <- [e \in Events |-> StatusOf(e)], received <- ingested

(* Every step of the pump, the server and the crashes is a step of the     *)
(* promised delivery, or changes nothing it can see.                       *)
DeliveryPromise == Promise!Delivery

-----------------------------------------------------------------------------
(* Liveness.                                                               *)

Settled(e) ==
  \E i \in Ids : rows[i].event = e /\ rows[i].state # "pending"

Delivered(e) ==
  \E i \in Ids : rows[i].event = e /\ rows[i].state = "exported"

(* Every committed event is finally exported or dead-lettered, across      *)
(* kills, restarts and shutdowns.                                          *)
EveryEventSettles == \A e \in Events : (e \in Committed) ~> Settled(e)

(* Unless there are as many refusals as the retry budget, every healthy    *)
(* event that was committed is finally exported, even next to poison.      *)
HealthyEventsDelivered ==
  \A e \in Events \ Poison :
    (e \in Committed) ~> (Delivered(e) \/ refusals >= MaxAttempts)

=============================================================================
