----------------------------- MODULE EventSinks -----------------------------
(***************************************************************************)
(* The registry of usage-event sinks (src/lifecycle/event-sinks.ts): one   *)
(* bounded queue and one worker per sink, so that a slow, throwing or      *)
(* hanging sink cannot hold up the request path or another sink.           *)
(*                                                                         *)
(* The code runs on one thread.  The worker of a sink gives up control     *)
(* only at `await job()`, so a step of the model is what happens between   *)
(* two awaits: an emission with the first run of every idle worker it      *)
(* wakes, or the settling of one job with the run of its worker up to the  *)
(* next await.  A handler that throws at once never reaches its await:     *)
(* its worker goes on to the next job in the same step.                    *)
(*                                                                         *)
(* An event is the number of its emission.  `offered` and `begun` are      *)
(* history variables: the events dispatched to a sink, and the latest one  *)
(* its handler was called with.                                            *)
(***************************************************************************)
EXTENDS Integers, Sequences, FiniteSets

CONSTANTS
  Sinks,        \* the sinks that may be registered, each at most once
  Names,        \* the names they are registered by
  NameOf,       \* the name of a sink
  Methods,      \* onSnapshot, onAttemptFinal, onLogicalRequestFinal
  Handlers,     \* the handlers a sink has: a subset of Methods
  Hanging,      \* the sinks whose handlers may never settle
  QueueLimit,   \* queued events per sink before the oldest is dropped
  MaxEvents     \* bound: emissions

ASSUME SinksAssumption ==
  /\ NameOf \in [Sinks -> Names]
  /\ Handlers \in [Sinks -> SUBSET Methods]
  /\ Hanging \subseteq Sinks
  /\ QueueLimit \in Nat \ {0}
  /\ MaxEvents \in Nat

VARIABLES
  registered,   \* the values of the map `sinks`
  state,        \* the SinkState of every sink
  draining,     \* a drain() waits for the sinks to become idle
  emitted,      \* events emitted so far
  offered,      \* history: the events dispatched to each sink
  begun         \* history: the latest event each sink's handler was given

vars == <<registered, state, draining, emitted, offered, begun>>

-----------------------------------------------------------------------------

(* 0 stands for no event.                                                  *)
SinkState == [queue : Seq(Nat), processing : BOOLEAN, inflight : Nat,
              dropped : Nat, errors : Nat, delivered : Nat]

NewState == [queue |-> <<>>, processing |-> FALSE, inflight |-> 0,
             dropped |-> 0, errors |-> 0, delivered |-> 0]

Full(q) == Len(q) >= QueueLimit

(* Mutant: the event that just came in is dropped, not the oldest.         *)
PushOrDropNewest(q, e) == IF Full(q) THEN q ELSE Append(q, e)

Push(q, e) == Append(IF Full(q) THEN Tail(q) ELSE q, e)

(* Mutant: processing is reset only when a job ends well (no `finally`).   *)
ProcessNoFinally(r, q, k) ==
  [queue |-> SubSeq(q, k + 2, Len(q)),
   processing |-> k < Len(q) \/ k > 0,
   inflight |-> IF k < Len(q) THEN q[k + 1] ELSE 0,
   dropped |-> r.dropped,
   errors |-> r.errors + k,
   delivered |-> r.delivered]

(* Mutant: a handler that throws at once ends its worker.                  *)
ProcessStops(r, q, k) ==
  [queue |-> SubSeq(q, 2, Len(q)),
   processing |-> k = 0 /\ q # <<>>,
   inflight |-> IF k = 0 /\ q # <<>> THEN q[1] ELSE 0,
   dropped |-> r.dropped,
   errors |-> r.errors + (IF k > 0 THEN 1 ELSE 0),
   delivered |-> r.delivered]

(* The worker's loop over the jobs q up to an await or to its end, when    *)
(* the handlers of the first k jobs throw at once and the next does not.   *)
Process(r, q, k) ==
  [queue |-> SubSeq(q, k + 2, Len(q)),
   processing |-> k < Len(q),
   inflight |-> IF k < Len(q) THEN q[k + 1] ELSE 0,
   dropped |-> r.dropped,
   errors |-> r.errors + k,
   delivered |-> r.delivered]

(* The last event whose handler that loop calls.                           *)
LastCalled(q, k) == IF k < Len(q) THEN q[k + 1] ELSE q[Len(q)]

Overflowed(r) ==
  [r EXCEPT !.dropped = IF Full(r.queue) THEN @ + 1 ELSE @]

(* enqueue(): the job waits for a busy worker, or runs at once.            *)
Enqueue(r, e, throws) ==
  IF r.processing THEN [Overflowed(r) EXCEPT !.queue = Push(r.queue, e)]
  ELSE Process(Overflowed(r), Push(r.queue, e), IF throws THEN 1 ELSE 0)

(* Mutant: a rejected job is not counted.                                  *)
FinishedUncounted(r, ok) ==
  [r EXCEPT !.delivered = IF ok THEN @ + 1 ELSE @, !.inflight = 0]

Finished(r, ok) ==
  [r EXCEPT !.delivered = IF ok THEN @ + 1 ELSE @,
            !.errors = IF ok THEN @ ELSE @ + 1, !.inflight = 0]

-----------------------------------------------------------------------------

(* register(): a sink of the same name is replaced; the worker of the one  *)
(* replaced goes on with what it has.                                      *)
Register(s) ==
  /\ s \notin registered
  /\ offered[s] = <<>>
  /\ registered' = {r \in registered : NameOf[r] # NameOf[s]} \cup {s}
  /\ UNCHANGED <<state, draining, emitted, offered, begun>>

Unregister(s) ==
  /\ s \in registered
  /\ registered' = registered \ {s}
  /\ UNCHANGED <<state, draining, emitted, offered, begun>>

(* The sinks an event is dispatched to.                                    *)
Targets(m) == {s \in registered : m \in Handlers[s]}

(* emitSnapshot(), emitAttemptFinal(), emitLogicalRequestFinal(); among    *)
(* the handlers called at once, those of the sinks in `throws` throw.      *)
Emit(m) ==
  /\ emitted < MaxEvents
  /\ emitted' = emitted + 1
  /\ \E throws \in SUBSET Targets(m) :
       state' = [s \in Sinks |->
                   IF s \in Targets(m)
                   THEN Enqueue(state[s], emitted', s \in throws)
                   ELSE state[s]]
  /\ offered' = [s \in Sinks |-> IF s \in Targets(m)
                                 THEN Append(offered[s], emitted')
                                 ELSE offered[s]]
  /\ begun' = [s \in Sinks |->
                 IF s \in Targets(m) /\ ~state[s].processing
                 THEN emitted' ELSE begun[s]]
  /\ UNCHANGED <<registered, draining>>

(* The promise of the job in flight settles, and the worker goes on.       *)
JobSettles(s, ok) ==
  /\ state[s].inflight # 0
  /\ LET q == state[s].queue IN
     \E k \in 0 .. Len(q) :
       /\ state' = [state EXCEPT ![s] = Process(Finished(state[s], ok), q, k)]
       /\ begun' = [begun EXCEPT ![s] = IF q = <<>> THEN @ ELSE LastCalled(q, k)]
  /\ UNCHANGED <<registered, draining, emitted, offered>>

DrainCalled ==
  /\ ~draining
  /\ draining' = TRUE
  /\ UNCHANGED <<registered, state, emitted, offered, begun>>

(* Mutant: drain() looks at the queues only.                               *)
IdleByQueue(s) == state[s].queue = <<>>

IdleSink(s) == state[s].queue = <<>> /\ ~state[s].processing

(* One look of drain()'s loop at every sink of the map.                    *)
DrainReturns ==
  /\ draining
  /\ \A s \in registered : IdleSink(s)
  /\ draining' = FALSE
  /\ UNCHANGED <<registered, state, emitted, offered, begun>>

-----------------------------------------------------------------------------

Init ==
  /\ registered = {}
  /\ state = [s \in Sinks |-> NewState]
  /\ draining = FALSE
  /\ emitted = 0
  /\ offered = [s \in Sinks |-> <<>>]
  /\ begun = [s \in Sinks |-> 0]

Next ==
  \/ \E s \in Sinks : Register(s) \/ Unregister(s)
  \/ \E m \in Methods : Emit(m)
  \/ \E s \in Sinks, ok \in BOOLEAN : JobSettles(s, ok)
  \/ DrainCalled
  \/ DrainReturns

Spec == Init /\ [][Next]_vars

(* The jobs of the sinks that do not hang settle, and drain() keeps        *)
(* looking.                                                                *)
Fairness ==
  /\ \A s \in Sinks \ Hanging :
       WF_vars(\E ok \in BOOLEAN : JobSettles(s, ok))
  /\ WF_vars(DrainReturns)

FairSpec == Spec /\ Fairness

-----------------------------------------------------------------------------

(* Every variable keeps its type, and no queue exceeds its limit.          *)
TypeOK ==
  /\ registered \subseteq Sinks
  /\ state \in [Sinks -> SinkState]
  /\ \A s \in Sinks : Len(state[s].queue) <= QueueLimit
  /\ draining \in BOOLEAN
  /\ emitted \in Nat
  /\ offered \in [Sinks -> Seq(Nat)]
  /\ begun \in [Sinks -> Nat]

(* No wake-up is lost and none is doubled: a sink with queued events has a *)
(* worker, and a worker is always at the await of exactly one job.         *)
WorkerWhenNeeded ==
  \A s \in Sinks :
    /\ state[s].queue # <<>> => state[s].processing
    /\ state[s].processing <=> state[s].inflight # 0

(* Every event dispatched to a sink is accounted for exactly once:         *)
(* waiting, in its handler, dropped, failed or delivered.                  *)
Accounted(s) ==
  Len(offered[s]) = Len(state[s].queue) + (IF state[s].processing THEN 1 ELSE 0)
                    + state[s].dropped + state[s].errors + state[s].delivered

EveryEventAccounted == \A s \in Sinks : Accounted(s)

(* Handlers are called in the order of emission, at most once per event,   *)
(* and only the oldest waiting events are dropped: what waits is the tail  *)
(* of what was dispatched, in order and later than the last event handled. *)
InOrder ==
  \A s \in Sinks :
    LET q == state[s].queue
        n == Len(offered[s]) - Len(q) IN
    /\ n >= 0
    /\ \A i \in DOMAIN q : q[i] = offered[s][n + i] /\ begun[s] < q[i]
    /\ \A i, j \in DOMAIN q : i < j => q[i] < q[j]
    /\ state[s].inflight \in {0, begun[s]}

(* When drain() returns, every event that was dispatched to a sink of the  *)
(* map has been delivered, has failed or was dropped.                      *)
DrainMeansSettled ==
  [][draining /\ ~draining' =>
     \A s \in registered :
       Len(offered[s]) = state[s].dropped + state[s].errors
                         + state[s].delivered]_vars

(* Isolation: whatever the hanging sinks do, every event dispatched to     *)
(* another sink is handled or dropped in the end.                          *)
HealthySinksServed ==
  \A s \in Sinks \ Hanging, n \in 1 .. MaxEvents :
    (\E i \in DOMAIN offered[s] : offered[s][i] = n) ~>
    (/\ state[s].inflight # n
     /\ \A i \in DOMAIN state[s].queue : state[s].queue[i] # n)

(* drain() returns, unless a job of a sink that hangs is in flight: then   *)
(* the shutdown that awaits it may never go on.                            *)
DrainEnds ==
  draining ~> (~draining \/ \E s \in Hanging : state[s].processing)

=============================================================================
