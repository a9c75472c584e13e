-------------------------- MODULE EventSinksProofs --------------------------
(***************************************************************************)
(* For any sinks, limit and number of events: the types, no lost wake-up,  *)
(* and the account of every event dispatched to a sink.  All three are     *)
(* properties of one sink's record, so the proof is about the operators    *)
(* that change a record; the steps of the registry follow.                 *)
(***************************************************************************)
EXTENDS EventSinks, TLAPS

(* A record that is well-formed after n events have been dispatched to it. *)
(* Waiting events are numbered from 1, which tells a busy worker (its job  *)
(* is an event) from an idle one.                                          *)
WellFormed(r, n) ==
  /\ r \in SinkState
  /\ Len(r.queue) <= QueueLimit
  /\ \A i \in DOMAIN r.queue : r.queue[i] # 0
  /\ r.queue # <<>> => r.processing
  /\ r.processing <=> r.inflight # 0
  /\ n = Len(r.queue) + (IF r.processing THEN 1 ELSE 0)
         + r.dropped + r.errors + r.delivered

Inv ==
  /\ TypeOK
  /\ \A s \in Sinks : WellFormed(state[s], Len(offered[s]))

USE SinksAssumption

(* The worker's loop hands on every job it was given: those that threw at  *)
(* once are errors, one is in flight, the others wait.                     *)
LEMMA ProcessKeeps ==
  ASSUME NEW r \in SinkState, NEW q \in Seq(Nat), NEW k \in 0 .. Len(q),
         Len(q) <= QueueLimit, \A i \in DOMAIN q : q[i] # 0
  PROVE  WellFormed(Process(r, q, k),
                    Len(q) + r.dropped + r.errors + r.delivered)
<1> DEFINE p == Process(r, q, k)
<1>1. CASE k = Len(q)
  <2>1. SubSeq(q, k + 2, Len(q)) = <<>>
    BY <1>1
  <2>0. (k < Len(q)) = FALSE
    BY <1>1
  <2>2. p = [queue |-> <<>>, processing |-> FALSE, inflight |-> 0,
             dropped |-> r.dropped, errors |-> r.errors + k,
             delivered |-> r.delivered]
    BY <2>0, <2>1, Zenon DEF Process
  <2>3. p \in SinkState
    BY <2>2 DEF SinkState
  <2> QED
    BY <1>1, <2>2, <2>3 DEF WellFormed, SinkState
<1>2. CASE k < Len(q)
  <2> DEFINE rest == SubSeq(q, k + 2, Len(q))
  <2>1. /\ rest \in Seq(Nat)
        /\ Len(rest) = Len(q) - k - 1
        /\ \A i \in 1 .. Len(q) - k - 1 : rest[i] = q[k + 1 + i]
    BY <1>2
  <2>2. q[k + 1] \in Nat /\ q[k + 1] # 0
    BY <1>2
  <2>3. p = [queue |-> rest, processing |-> TRUE, inflight |-> q[k + 1],
             dropped |-> r.dropped, errors |-> r.errors + k,
             delivered |-> r.delivered]
    <3>1. (k < Len(q)) = TRUE
      BY <1>2
    <3> QED
      BY <3>1, Zenon DEF Process
  <2> HIDE DEF rest, p
  <2>4. p \in SinkState
    BY <2>1, <2>2, <2>3 DEF SinkState
  <2>5. ASSUME NEW i \in DOMAIN rest PROVE rest[i] # 0
    <3>1. i \in 1 .. Len(q) - k - 1
      BY <2>1
    <3>2. k + 1 + i \in DOMAIN q
      BY <3>1
    <3> QED
      BY <2>1, <3>1, <3>2
  <2>6. WellFormed(p, Len(q) + r.dropped + r.errors + r.delivered)
    <3>1. /\ p.queue = rest /\ p.processing /\ p.inflight = q[k + 1]
          /\ p.dropped = r.dropped /\ p.errors = r.errors + k
          /\ p.delivered = r.delivered
      BY <2>3
    <3>2. /\ r.dropped \in Nat /\ r.errors \in Nat /\ r.delivered \in Nat
      BY DEF SinkState
    <3>3. Len(rest) \in Nat /\ Len(rest) <= QueueLimit
      BY <1>2, <2>1
    <3>4. Len(q) + r.dropped + r.errors + r.delivered
            = Len(rest) + 1 + r.dropped + (r.errors + k) + r.delivered
      BY <1>2, <2>1, <3>2, <3>3
    <3> QED
      BY <2>2, <2>4, <2>5, <3>1, <3>3, <3>4 DEF WellFormed
  <2> QED
    BY <2>6 DEF p
<1> QED
  BY <1>1, <1>2

(* Pushing an event drops one only from a full queue.                      *)
LEMMA PushKeeps ==
  ASSUME NEW q \in Seq(Nat), NEW e \in Nat \ {0},
         Len(q) <= QueueLimit, \A i \in DOMAIN q : q[i] # 0
  PROVE  /\ Push(q, e) \in Seq(Nat)
         /\ Push(q, e) # <<>>
         /\ Len(Push(q, e)) = IF Full(q) THEN Len(q) ELSE Len(q) + 1
         /\ Len(Push(q, e)) <= QueueLimit
         /\ \A i \in DOMAIN Push(q, e) : Push(q, e)[i] # 0
<1> DEFINE t == IF Full(q) THEN Tail(q) ELSE q
<1>1. /\ t \in Seq(Nat)
      /\ Len(t) = IF Full(q) THEN Len(q) - 1 ELSE Len(q)
      /\ \A i \in DOMAIN t : t[i] # 0
  BY DEF Full
<1>2. Push(q, e) = Append(t, e)
  BY DEF Push
<1> HIDE DEF t
<1> QED
  BY <1>1, <1>2 DEF Full

(* A dispatch adds exactly one event to the account of a sink.             *)
LEMMA EnqueueKeeps ==
  ASSUME NEW r, NEW n \in Nat, WellFormed(r, n),
         NEW e \in Nat \ {0}, NEW throws \in BOOLEAN
  PROVE  WellFormed(Enqueue(r, e, throws), n + 1)
<1> DEFINE q == Push(r.queue, e)
           d == IF Full(r.queue) THEN r.dropped + 1 ELSE r.dropped
           o == Overflowed(r)
<1>0. r \in SinkState /\ r.queue \in Seq(Nat)
  BY DEF WellFormed, SinkState
<1>1. /\ q \in Seq(Nat)
      /\ q # <<>>
      /\ Len(q) = IF Full(r.queue) THEN Len(r.queue) ELSE Len(r.queue) + 1
      /\ Len(q) <= QueueLimit
      /\ \A i \in DOMAIN q : q[i] # 0
  BY <1>0, PushKeeps DEF WellFormed
<1>2. o = [queue |-> r.queue, processing |-> r.processing,
           inflight |-> r.inflight, dropped |-> d, errors |-> r.errors,
           delivered |-> r.delivered]
  BY <1>0 DEF Overflowed, SinkState
<1>3. d \in Nat /\ o \in SinkState
  BY <1>0, <1>2 DEF SinkState
<1>4. CASE r.processing
  <2>1. Enqueue(r, e, throws) =
          [queue |-> q, processing |-> r.processing,
           inflight |-> r.inflight, dropped |-> d, errors |-> r.errors,
           delivered |-> r.delivered]
    <3>1. Enqueue(r, e, throws) = [o EXCEPT !.queue = q]
      BY <1>4 DEF Enqueue
    <3> HIDE DEF q, d, o
    <3> QED
      BY <1>2, <3>1
  <2> HIDE DEF q, d
  <2>2. Enqueue(r, e, throws) \in SinkState
    BY <1>0, <1>1, <1>3, <2>1 DEF SinkState
  <2> QED
    <3> DEFINE E == Enqueue(r, e, throws)
    <3>1. /\ E.queue = q /\ E.processing = r.processing
          /\ E.inflight = r.inflight /\ E.dropped = d
          /\ E.errors = r.errors /\ E.delivered = r.delivered
      BY <2>1
    <3>0. r.processing /\ r.inflight # 0
      BY <1>4 DEF WellFormed
    <3>2. /\ r.dropped \in Nat /\ r.errors \in Nat /\ r.delivered \in Nat
          /\ n = Len(r.queue) + 1 + r.dropped + r.errors + r.delivered
      BY <1>4 DEF WellFormed, SinkState
    <3> HIDE DEF E
    <3>3. n + 1 = Len(q) + 1 + d + r.errors + r.delivered
      <4> DEFINE l == Len(r.queue)
                 m == Len(q)
                 dropped == r.dropped
                 errors == r.errors
                 delivered == r.delivered
      <4>1. /\ l \in Nat /\ m \in Nat /\ dropped \in Nat /\ errors \in Nat
            /\ delivered \in Nat /\ n = l + 1 + dropped + errors + delivered
        BY <1>0, <1>1, <3>2
      <4>2. \/ d = dropped + 1 /\ m = l
            \/ d = dropped /\ m = l + 1
        BY <1>1, Zenon DEF d
      <4> HIDE DEF l, m, dropped, errors, delivered
      <4>3. n + 1 = m + 1 + d + errors + delivered
        BY <4>1, <4>2
      <4> QED
        BY <4>3, Zenon DEF m, errors, delivered
    <3>4. WellFormed(E, n + 1)
      BY <1>1, <2>2, <3>0, <3>1, <3>2, <3>3 DEF WellFormed, E
    <3> QED
      BY <3>4 DEF E
<1>5. CASE ~r.processing
  <2> DEFINE k == IF throws THEN 1 ELSE 0
  <2>1. r.queue = <<>> /\ d = r.dropped /\ Len(q) = 1
    BY <1>0, <1>1, <1>5 DEF WellFormed, Full
  <2>2. k \in 0 .. Len(q)
    <3> HIDE DEF q
    <3> QED
      BY <2>1
  <2>3. WellFormed(Process(o, q, k),
                   Len(q) + o.dropped + o.errors + o.delivered)
    <3> HIDE DEF q, k, o
    <3> QED
      BY <1>1, <1>3, <2>2, ProcessKeeps
  <2>4. Enqueue(r, e, throws) = Process(o, q, k)
    BY <1>5 DEF Enqueue
  <2>5. n + 1 = Len(q) + o.dropped + o.errors + o.delivered
    <3>1. n = r.dropped + r.errors + r.delivered
      BY <1>0, <1>5, <2>1 DEF WellFormed, SinkState
    <3>2. o.dropped = d /\ o.errors = r.errors /\ o.delivered = r.delivered
      BY <1>2
    <3> HIDE DEF q, d, o
    <3> QED
      BY <1>0, <2>1, <3>1, <3>2 DEF SinkState
  <2> QED
    BY <2>3, <2>4, <2>5
<1> QED
  BY <1>0, <1>4, <1>5 DEF SinkState

(* The settling of a job moves it from in flight to an error or delivery.  *)
LEMMA SettleKeeps ==
  ASSUME NEW r, NEW n \in Nat, WellFormed(r, n), r.inflight # 0,
         NEW ok \in BOOLEAN, NEW k \in 0 .. Len(r.queue)
  PROVE  WellFormed(Process(Finished(r, ok), r.queue, k), n)
<1> DEFINE f == Finished(r, ok)
           good == IF ok THEN r.delivered + 1 ELSE r.delivered
           bad == IF ok THEN r.errors ELSE r.errors + 1
<1>0. r \in SinkState /\ r.queue \in Seq(Nat) /\ r.processing
  BY DEF WellFormed, SinkState
<1>1. f = [queue |-> r.queue, processing |-> r.processing, inflight |-> 0,
           dropped |-> r.dropped, errors |-> bad, delivered |-> good]
  <2>1. CASE ok = TRUE
    <3>1. f = [r EXCEPT !.delivered = r.delivered + 1,
                        !.errors = r.errors, !.inflight = 0]
      BY <2>1, Zenon DEF Finished
    <3> QED
      BY <1>0, <2>1, <3>1 DEF SinkState
  <2>2. CASE ok = FALSE
    <3>1. f = [r EXCEPT !.delivered = r.delivered,
                        !.errors = r.errors + 1, !.inflight = 0]
      BY <2>2, Zenon DEF Finished
    <3> QED
      BY <1>0, <2>2, <3>1 DEF SinkState
  <2> QED
    BY <2>1, <2>2
<1>2. f \in SinkState
  BY <1>0, <1>1 DEF SinkState
<1>3. n = Len(r.queue) + f.dropped + f.errors + f.delivered
  BY <1>0, <1>1 DEF WellFormed, SinkState
<1> HIDE DEF f
<1>4. WellFormed(Process(f, r.queue, k),
                 Len(r.queue) + f.dropped + f.errors + f.delivered)
  BY <1>0, <1>2, ProcessKeeps DEF WellFormed
<1> QED
  BY <1>3, <1>4 DEF f

-----------------------------------------------------------------------------

LEMMA InvInit == Init => Inv
<1> SUFFICES ASSUME Init PROVE Inv
  OBVIOUS
<1>1. NewState \in SinkState /\ WellFormed(NewState, 0)
  BY DEF NewState, SinkState, WellFormed
<1>2. \A s \in Sinks : state[s] = NewState /\ offered[s] = <<>>
  BY DEF Init
<1>3. \A s \in Sinks : Len(state[s].queue) <= QueueLimit
  BY <1>1, <1>2 DEF WellFormed
<1>4. state \in [Sinks -> SinkState]
  BY <1>1 DEF Init
<1>5. TypeOK
  <2>1. offered \in [Sinks -> Seq(Nat)] /\ begun \in [Sinks -> Nat]
    BY DEF Init
  <2> QED
    BY <1>3, <1>4, <2>1 DEF Init, TypeOK
<1> QED
  BY <1>1, <1>2, <1>5 DEF Inv

LEMMA EmitKeeps ==
  ASSUME Inv, NEW m \in Methods, Emit(m)
  PROVE  Inv'
<1> DEFINE e == emitted + 1
<1>0. e \in Nat \ {0} /\ emitted' = e
  BY DEF Emit, Inv, TypeOK
<1>1. PICK throws \in SUBSET Targets(m) :
        state' = [s \in Sinks |-> IF s \in Targets(m)
                                  THEN Enqueue(state[s], e, s \in throws)
                                  ELSE state[s]]
  BY <1>0 DEF Emit
<1>2. offered' = [s \in Sinks |-> IF s \in Targets(m)
                                  THEN Append(offered[s], e) ELSE offered[s]]
  BY <1>0 DEF Emit
<1>3. begun' \in [Sinks -> Nat]
  BY <1>0 DEF Emit, Inv, TypeOK
<1> HIDE DEF e
<1>4. offered' \in [Sinks -> Seq(Nat)]
  BY <1>0, <1>2 DEF Inv, TypeOK
<1>5. ASSUME NEW s \in Sinks
      PROVE  WellFormed(state'[s], Len(offered'[s]))
  <2>1. /\ offered[s] \in Seq(Nat)
        /\ Len(offered[s]) \in Nat
        /\ WellFormed(state[s], Len(offered[s]))
    BY DEF Inv, TypeOK
  <2>2. CASE s \in Targets(m)
    <3>1. state'[s] = Enqueue(state[s], e, s \in throws)
      BY <1>1, <2>2
    <3>2. Len(offered'[s]) = Len(offered[s]) + 1
      BY <1>0, <1>2, <2>1, <2>2
    <3>3. (s \in throws) \in BOOLEAN
      OBVIOUS
    <3>4. WellFormed(Enqueue(state[s], e, s \in throws), Len(offered[s]) + 1)
      BY <1>0, <2>1, <3>3, EnqueueKeeps
    <3> QED
      BY <3>1, <3>2, <3>4
  <2>3. CASE s \notin Targets(m)
    BY <1>1, <1>2, <2>1, <2>3
  <2> QED
    BY <2>2, <2>3
<1>6. state' \in [Sinks -> SinkState]
      /\ \A s \in Sinks : Len(state'[s].queue) <= QueueLimit
  BY <1>1, <1>5 DEF WellFormed
<1> QED
  BY <1>0, <1>3, <1>4, <1>5, <1>6 DEF Inv, TypeOK, Emit

LEMMA JobSettlesKeeps ==
  ASSUME Inv, NEW s \in Sinks, NEW ok \in BOOLEAN, JobSettles(s, ok)
  PROVE  Inv'
<1> DEFINE q == state[s].queue
<1>1. PICK k \in 0 .. Len(q) :
        /\ state' = [state EXCEPT ![s] = Process(Finished(state[s], ok), q, k)]
        /\ begun' = [begun EXCEPT ![s] = IF q = <<>> THEN @
                                         ELSE LastCalled(q, k)]
  BY DEF JobSettles
<1>2. /\ state \in [Sinks -> SinkState]
      /\ q \in Seq(Nat)
      /\ Len(offered[s]) \in Nat
      /\ WellFormed(state[s], Len(offered[s]))
  BY DEF Inv, TypeOK, SinkState
<1>3. q # <<>> => LastCalled(q, k) \in Nat
  BY <1>2 DEF LastCalled
<1>4. begun' \in [Sinks -> Nat]
  <2> HIDE DEF q
  <2> QED
    BY <1>1, <1>3 DEF Inv, TypeOK
<1>5. WellFormed(Process(Finished(state[s], ok), q, k), Len(offered[s]))
  BY <1>2, SettleKeeps DEF JobSettles
<1>6. ASSUME NEW t \in Sinks
      PROVE  WellFormed(state'[t], Len(offered'[t]))
  BY <1>1, <1>2, <1>5 DEF JobSettles, Inv
<1>7. state' \in [Sinks -> SinkState]
      /\ \A t \in Sinks : Len(state'[t].queue) <= QueueLimit
  BY <1>1, <1>2, <1>6 DEF WellFormed
<1> QED
  BY <1>4, <1>6, <1>7 DEF Inv, TypeOK, JobSettles

LEMMA InvNext == Inv /\ [Next]_vars => Inv'
<1> SUFFICES ASSUME Inv, [Next]_vars PROVE Inv'
  OBVIOUS
<1>1. ASSUME NEW s \in Sinks, Register(s) PROVE Inv'
  BY <1>1 DEF Register, Inv, TypeOK
<1>2. ASSUME NEW s \in Sinks, Unregister(s) PROVE Inv'
  BY <1>2 DEF Unregister, Inv, TypeOK
<1>3. ASSUME NEW m \in Methods, Emit(m) PROVE Inv'
  BY <1>3, EmitKeeps
<1>4. ASSUME NEW s \in Sinks, NEW ok \in BOOLEAN, JobSettles(s, ok) PROVE Inv'
  BY <1>4, JobSettlesKeeps
<1>5. CASE DrainCalled
  BY <1>5 DEF DrainCalled, Inv, TypeOK
<1>6. CASE DrainReturns
  BY <1>6 DEF DrainReturns, Inv, TypeOK
<1>7. CASE UNCHANGED vars
  BY <1>7 DEF vars, Inv, TypeOK
<1> QED
  BY <1>1, <1>2, <1>3, <1>4, <1>5, <1>6, <1>7 DEF Next

LEMMA InvAlways == Spec => []Inv
  BY InvInit, InvNext, PTL DEF Spec

(* The types of the registry, and the bound of every queue.                *)
THEOREM SinksTypeCorrect == Spec => []TypeOK
<1>1. Inv => TypeOK
  BY DEF Inv
<1> QED
  BY <1>1, InvAlways, PTL

(* A sink with queued events always has a worker, and never two.           *)
THEOREM NoLostWakeup == Spec => []WorkerWhenNeeded
<1>1. Inv => WorkerWhenNeeded
  BY DEF Inv, WellFormed, WorkerWhenNeeded
<1> QED
  BY <1>1, InvAlways, PTL

(* No event dispatched to a sink is lost or counted twice.                 *)
THEOREM EventsAccounted == Spec => []EveryEventAccounted
<1>1. Inv => EveryEventAccounted
  BY DEF Inv, WellFormed, EveryEventAccounted, Accounted
<1> QED
  BY <1>1, InvAlways, PTL

(* When drain() returns, nothing dispatched to a sink of the map is left   *)
(* waiting or in a handler.                                                *)
THEOREM DrainSettles == Spec => DrainMeansSettled
<1>1. ASSUME Inv, [Next]_vars, draining, ~draining', NEW s \in registered
      PROVE  Len(offered[s]) = state[s].dropped + state[s].errors
                               + state[s].delivered
  <2>1. DrainReturns
    BY <1>1 DEF Next, vars, Register, Unregister, Emit, JobSettles, DrainCalled
  <2>2. WellFormed(state[s], Len(offered[s]))
    BY <1>1 DEF Inv, TypeOK
  <2>3. state[s].queue = <<>> /\ ~state[s].processing
    BY <1>1, <2>1 DEF DrainReturns, IdleSink
  <2> QED
    BY <2>2, <2>3 DEF WellFormed, SinkState
<1>2. Inv /\ [Next]_vars =>
        [draining /\ ~draining' =>
           \A s \in registered :
             Len(offered[s]) = state[s].dropped + state[s].errors
                               + state[s].delivered]_vars
  BY <1>1
<1> QED
  BY <1>2, InvAlways, PTL DEF Spec, DrainMeansSettled

-----------------------------------------------------------------------------
(* The order of the queues: what waits in q was dispatched last, in that   *)
(* order, later than b and no later than e.  The last is the strengthening: *)
(* it is what makes the next event the latest one in every queue.          *)

Tailing(q, o) ==
  /\ Len(q) <= Len(o)
  /\ \A i \in DOMAIN q : q[i] = o[Len(o) - Len(q) + i]

Between(q, b, e) ==
  /\ \A i \in DOMAIN q : b < q[i] /\ q[i] <= e
  /\ \A i, j \in DOMAIN q : i < j => q[i] < q[j]

Ordered(r, o, b, e) ==
  /\ Tailing(r.queue, o)
  /\ Between(r.queue, b, e)
  /\ r.inflight \in {0, b}
  /\ b <= e

OrderInv ==
  \A s \in Sinks : Ordered(state[s], offered[s], begun[s], emitted)

(* Pushing the event e + 1 keeps a queue in order, whether or not it drops *)
(* the oldest.                                                             *)
LEMMA PushOrders ==
  ASSUME NEW q \in Seq(Nat), NEW o \in Seq(Nat), NEW b \in Nat, NEW e \in Nat,
         Tailing(q, o), Between(q, b, e), b <= e
  PROVE  /\ Tailing(Push(q, e + 1), Append(o, e + 1))
         /\ Between(Push(q, e + 1), b, e + 1)
<1> DEFINE t == IF Full(q) THEN Tail(q) ELSE q
           p == Append(t, e + 1)
           w == Append(o, e + 1)
<1>1. /\ t \in Seq(Nat)
      /\ Len(t) <= Len(o)
      /\ \A i \in 1 .. Len(t) : /\ t[i] = o[Len(o) - Len(t) + i]
                               /\ b < t[i] /\ t[i] <= e
      /\ \A i, j \in 1 .. Len(t) : i < j => t[i] < t[j]
  <2>1. CASE Full(q)
    <3>1. q # <<>> /\ Len(q) \in Nat /\ Len(q) >= 1
      BY <2>1 DEF Full
    <3>2. /\ t = Tail(q) /\ t \in Seq(Nat) /\ Len(t) = Len(q) - 1
          /\ \A i \in 1 .. Len(t) : t[i] = q[i + 1]
      BY <2>1, <3>1
    <3> HIDE DEF t
    <3>3. \A i \in 1 .. Len(t) : i + 1 \in DOMAIN q
      BY <3>1, <3>2
    <3>4. Len(o) \in Nat /\ Len(q) <= Len(o)
      BY DEF Tailing
    <3>5. ASSUME NEW i \in 1 .. Len(t)
          PROVE  /\ t[i] = o[Len(o) - Len(t) + i]
                 /\ b < t[i] /\ t[i] <= e
      <4>1. t[i] = q[i + 1] /\ i + 1 \in DOMAIN q
        BY <3>2, <3>3
      <4>2. Len(o) - Len(q) + (i + 1) = Len(o) - Len(t) + i
        BY <3>1, <3>2, <3>4
      <4> QED
        BY <4>1, <4>2 DEF Tailing, Between
    <3>6. ASSUME NEW i \in 1 .. Len(t), NEW j \in 1 .. Len(t), i < j
          PROVE  t[i] < t[j]
      <4>1. /\ t[i] = q[i + 1] /\ i + 1 \in DOMAIN q
            /\ t[j] = q[j + 1] /\ j + 1 \in DOMAIN q
        BY <3>2, <3>3
      <4>2. i + 1 < j + 1
        BY <3>1, <3>2, <3>6
      <4> QED
        BY <4>1, <4>2 DEF Between
    <3> QED
      BY <3>1, <3>2, <3>4, <3>5, <3>6
  <2>2. CASE ~Full(q)
    <3>1. t = q
      BY <2>2
    <3> HIDE DEF t
    <3>2. DOMAIN q = 1 .. Len(q)
      OBVIOUS
    <3> QED
      BY <3>1, <3>2 DEF Tailing, Between
  <2> QED
    BY <2>1, <2>2
<1>2. Push(q, e + 1) = p
  BY DEF Push
<1> HIDE DEF t
<1>3. /\ Len(p) = Len(t) + 1 /\ DOMAIN p = 1 .. Len(t) + 1
      /\ \A i \in 1 .. Len(t) : p[i] = t[i]
      /\ p[Len(t) + 1] = e + 1
  BY <1>1
<1>4. /\ Len(w) = Len(o) + 1
      /\ \A i \in 1 .. Len(o) : w[i] = o[i]
      /\ w[Len(o) + 1] = e + 1
  OBVIOUS
<1>5. Len(t) \in Nat /\ Len(o) \in Nat /\ Len(t) <= Len(o)
  BY <1>1
<1>9. \A i \in 1 .. Len(t) : t[i] \in Nat
  BY <1>1
<1> HIDE DEF p, w
<1>6. ASSUME NEW i \in DOMAIN p
      PROVE  /\ p[i] = w[Len(w) - Len(p) + i]
             /\ b < p[i] /\ p[i] <= e + 1
  <2>1. CASE i = Len(t) + 1
    BY <1>3, <1>4, <1>5, <2>1
  <2>2. CASE i \in 1 .. Len(t)
    <3>1. Len(o) - Len(t) + i \in 1 .. Len(o)
      BY <1>5, <2>2
    <3>2. Len(w) - Len(p) + i = Len(o) - Len(t) + i
      BY <1>3, <1>4, <1>5
    <3>3. p[i] = t[i] /\ t[i] \in Nat
      BY <1>3, <1>9, <2>2
    <3>6. t[i] = o[Len(o) - Len(t) + i]
      BY <1>1, <2>2
    <3>7. w[Len(o) - Len(t) + i] = o[Len(o) - Len(t) + i]
      BY <1>4, <3>1
    <3>4. p[i] = w[Len(w) - Len(p) + i]
      BY <3>2, <3>3, <3>6, <3>7
    <3>5. b < p[i] /\ p[i] <= e + 1
      BY <1>1, <2>2, <3>3
    <3> QED
      BY <3>4, <3>5
  <2> QED
    BY <1>3, <1>5, <2>1, <2>2
<1>7. ASSUME NEW i \in DOMAIN p, NEW j \in DOMAIN p, i < j
      PROVE  p[i] < p[j]
  <2>0. i \in 1 .. Len(t) + 1 /\ j \in 1 .. Len(t) + 1 /\ i < j
    BY <1>3, <1>7
  <2>4. i \in 1 .. Len(t)
    BY <1>5, <2>0
  <2>1. p[i] = t[i] /\ t[i] \in Nat
    BY <1>3, <1>9, <2>4
  <2>2. CASE j = Len(t) + 1
    <3>1. p[j] = e + 1
      BY <1>3, <2>2
    <3>2. t[i] <= e
      BY <1>1, <2>4
    <3> QED
      BY <2>1, <3>1, <3>2
  <2>3. CASE j \in 1 .. Len(t)
    <3>1. p[j] = t[j]
      BY <1>3, <2>3
    <3>2. t[i] < t[j]
      BY <1>1, <2>0, <2>3, <2>4
    <3> QED
      BY <2>1, <3>1, <3>2
  <2> QED
    BY <1>5, <2>0, <2>2, <2>3
<1>8. Len(p) <= Len(w)
  BY <1>1, <1>3, <1>4, <1>5
<1> QED
  BY <1>2, <1>6, <1>7, <1>8 DEF Tailing, Between, w

(* The worker's loop takes its jobs from the front: what it leaves waiting *)
(* is later than the last one it called.                                   *)
LEMMA ProcessOrders ==
  ASSUME NEW r, NEW q \in Seq(Nat), NEW o \in Seq(Nat), NEW b \in Nat,
         NEW e \in Nat, NEW k \in 0 .. Len(q),
         Tailing(q, o), Between(q, b, e), q # <<>>
  PROVE  Ordered(Process(r, q, k), o, LastCalled(q, k), e)
<1> DEFINE p == Process(r, q, k)
           rest == SubSeq(q, k + 2, Len(q))
           c == LastCalled(q, k)
<1>0. /\ Len(q) \in Nat /\ Len(q) >= 1 /\ Len(o) \in Nat /\ Len(q) <= Len(o)
      /\ p.queue = rest
      /\ \A i \in 1 .. Len(q) : /\ q[i] \in Nat /\ b < q[i] /\ q[i] <= e
                                /\ q[i] = o[Len(o) - Len(q) + i]
      /\ \A i, j \in 1 .. Len(q) : i < j => q[i] < q[j]
  <2>1. /\ Len(q) \in Nat /\ Len(q) >= 1 /\ Len(o) \in Nat
        /\ DOMAIN q = 1 .. Len(q) /\ \A i \in 1 .. Len(q) : q[i] \in Nat
    OBVIOUS
  <2>2. p.queue = rest
    BY DEF Process
  <2> HIDE DEF p, rest, c
  <2> QED
    BY <2>1, <2>2 DEF Tailing, Between
<1>1. CASE k = Len(q)
  <2>1. rest = <<>> /\ (k < Len(q)) = FALSE
    BY <1>1
  <2>2. p.inflight = 0 /\ c = q[Len(q)]
    BY <2>1, Zenon DEF Process, LastCalled
  <2> HIDE DEF p, rest, c
  <2> QED
    BY <1>0, <2>1, <2>2 DEF Ordered, Tailing, Between, p, c
<1>2. CASE k < Len(q)
  <2>1. /\ rest \in Seq(Nat) /\ Len(rest) = Len(q) - k - 1
        /\ \A i \in 1 .. Len(q) - k - 1 : rest[i] = q[k + 1 + i]
    BY <1>2
  <2>2. (k < Len(q)) = TRUE
    BY <1>2
  <2>3. p.inflight = q[k + 1] /\ c = q[k + 1]
    BY <2>2, Zenon DEF Process, LastCalled
  <2> HIDE DEF p, rest, c
  <2>0. k \in Nat /\ DOMAIN rest = 1 .. Len(q) - k - 1
    BY <1>0, <1>2, <2>1
  <2>4. \A i \in 1 .. Len(q) - k - 1 : k + 1 + i \in 1 .. Len(q)
    BY <1>0, <2>0
  <2>5. ASSUME NEW i \in DOMAIN rest
        PROVE  /\ rest[i] = o[Len(o) - Len(rest) + i]
               /\ c < rest[i] /\ rest[i] <= e
    <3>1. i \in 1 .. Len(q) - k - 1
      BY <2>0
    <3>2. rest[i] = q[k + 1 + i] /\ k + 1 + i \in 1 .. Len(q)
      BY <3>1, <2>1, <2>4
    <3>3. k + 1 \in 1 .. Len(q) /\ k + 1 < k + 1 + i
      BY <1>0, <1>2, <2>0, <3>1
    <3>4. Len(o) - Len(q) + (k + 1 + i) = Len(o) - Len(rest) + i
      BY <1>0, <2>0, <2>1
    <3>5. q[k + 1 + i] = o[Len(o) - Len(q) + (k + 1 + i)]
      BY <1>0, <3>2, <3>3
    <3>6. q[k + 1] < q[k + 1 + i] /\ q[k + 1 + i] <= e
      BY <1>0, <3>2, <3>3
    <3> QED
      BY <2>3, <3>2, <3>4, <3>5, <3>6
  <2>6. ASSUME NEW i \in DOMAIN rest, NEW j \in DOMAIN rest, i < j
        PROVE  rest[i] < rest[j]
    <3>1. i \in 1 .. Len(q) - k - 1 /\ j \in 1 .. Len(q) - k - 1
      BY <2>0
    <3>2. k + 1 + i < k + 1 + j
      BY <1>0, <2>0, <2>6, <3>1
    <3>3. /\ rest[i] = q[k + 1 + i] /\ k + 1 + i \in 1 .. Len(q)
          /\ rest[j] = q[k + 1 + j] /\ k + 1 + j \in 1 .. Len(q)
      BY <2>1, <2>4, <3>1
    <3> QED
      BY <1>0, <3>2, <3>3
  <2>7. c <= e /\ Len(rest) <= Len(o)
    <3>1. k + 1 \in 1 .. Len(q)
      BY <1>0, <1>2, <2>0
    <3>2. q[k + 1] <= e
      BY <1>0, <3>1
    <3>3. Len(rest) <= Len(o)
      BY <1>0, <2>0, <2>1
    <3> QED
      BY <2>3, <3>2, <3>3
  <2> QED
    BY <1>0, <2>3, <2>5, <2>6, <2>7 DEF Ordered, Tailing, Between, p, c
<1> QED
  BY <1>1, <1>2

LEMMA EmitOrders ==
  ASSUME Inv, OrderInv, NEW m \in Methods, Emit(m)
  PROVE  OrderInv'
<1> DEFINE e == emitted + 1
<1>0. emitted \in Nat /\ emitted' = e
  BY DEF Emit, Inv, TypeOK
<1>1. PICK throws \in SUBSET Targets(m) :
        state' = [s \in Sinks |-> IF s \in Targets(m)
                                  THEN Enqueue(state[s], e, s \in throws)
                                  ELSE state[s]]
  BY <1>0 DEF Emit
<1>2. /\ offered' = [s \in Sinks |-> IF s \in Targets(m)
                                     THEN Append(offered[s], e) ELSE offered[s]]
      /\ begun' = [s \in Sinks |->
                     IF s \in Targets(m) /\ ~state[s].processing
                     THEN e ELSE begun[s]]
  BY <1>0 DEF Emit
<1> SUFFICES ASSUME NEW s \in Sinks
             PROVE  Ordered(state'[s], offered'[s], begun'[s], e)
  BY <1>0 DEF OrderInv
<1> DEFINE r == state[s]
           q == state[s].queue
           o == offered[s]
           b == begun[s]
<1>3. /\ r \in SinkState /\ q \in Seq(Nat) /\ o \in Seq(Nat) /\ b \in Nat
      /\ WellFormed(r, Len(o)) /\ Ordered(r, o, b, emitted)
  BY DEF Inv, TypeOK, OrderInv, SinkState
<1>4. CASE s \notin Targets(m)
  <2>1. state'[s] = r /\ offered'[s] = o /\ begun'[s] = b
    BY <1>1, <1>2, <1>4
  <2>2. \A i \in DOMAIN q : q[i] \in Nat
    BY <1>3
  <2> QED
    BY <1>0, <1>3, <2>1, <2>2 DEF Ordered, Between
<1>5. CASE s \in Targets(m)
  <2>0. /\ Tailing(Push(q, e), Append(o, e)) /\ Between(Push(q, e), b, e)
        /\ Push(q, e) \in Seq(Nat)
    <3>1. Push(q, e) \in Seq(Nat)
      BY <1>0, <1>3, PushKeeps DEF WellFormed
    <3> QED
      BY <1>0, <1>3, <3>1, PushOrders DEF Ordered
  <2>1. state'[s] = Enqueue(r, e, s \in throws) /\ offered'[s] = Append(o, e)
    BY <1>1, <1>2, <1>5
  <2>2. CASE r.processing
    <3>1. begun'[s] = b
      BY <1>2, <2>2
    <3>2. Enqueue(r, e, s \in throws) = [Overflowed(r) EXCEPT !.queue = Push(q, e)]
      BY <2>2 DEF Enqueue
    <3>3. /\ state'[s].queue = Push(q, e) /\ state'[s].inflight = r.inflight
      BY <1>3, <2>1, <3>2 DEF Overflowed, SinkState
    <3> HIDE DEF e, q, o, b, r
    <3>4. b <= e
      BY <1>0, <1>3 DEF Ordered, e
    <3> QED
      BY <1>3, <2>0, <2>1, <3>1, <3>3, <3>4 DEF Ordered
  <2>3. CASE ~r.processing
    <3> DEFINE k == IF s \in throws THEN 1 ELSE 0
               pq == Push(q, e)
    <3>1. begun'[s] = e
      BY <1>2, <1>5, <2>3
    <3>2. q = <<>>
      BY <1>3, <2>3 DEF WellFormed
    <3>3. pq = <<e>>
      BY <3>2 DEF Push, Full
    <3>4. Enqueue(r, e, s \in throws) = Process(Overflowed(r), pq, k)
      BY <2>3 DEF Enqueue
    <3>5. k \in {0, 1}
      OBVIOUS
    <3>6. pq \in Seq(Nat)
      BY <2>0
    <3> HIDE DEF pq, k, e, q
    <3>7. Len(pq) = 1 /\ pq[1] = e
      BY <3>3
    <3>8. k \in 0 .. Len(pq) /\ pq # <<>>
      BY <3>5, <3>7, <3>3
    <3>9. LastCalled(pq, k) = e
      BY <3>5, <3>7 DEF LastCalled
    <3> HIDE DEF o, b, r
    <3>10. e \in Nat /\ Append(o, e) \in Seq(Nat)
      BY <1>0, <1>3 DEF e
    <3>11. Ordered(Process(Overflowed(r), pq, k), Append(o, e), LastCalled(pq, k), e)
      BY <1>3, <2>0, <3>8, <3>10, ProcessOrders DEF pq
    <3> QED
      BY <2>1, <3>1, <3>4, <3>9, <3>11
  <2> QED
    BY <2>2, <2>3
<1> QED
  BY <1>4, <1>5

LEMMA JobSettlesOrders ==
  ASSUME Inv, OrderInv, NEW s \in Sinks, NEW ok \in BOOLEAN, JobSettles(s, ok)
  PROVE  OrderInv'
<1> DEFINE q == state[s].queue
           f == Finished(state[s], ok)
<1>1. PICK k \in 0 .. Len(q) :
        /\ state' = [state EXCEPT ![s] = Process(f, q, k)]
        /\ begun' = [begun EXCEPT ![s] = IF q = <<>> THEN @
                                         ELSE LastCalled(q, k)]
  BY DEF JobSettles
<1>2. /\ q \in Seq(Nat) /\ offered[s] \in Seq(Nat) /\ begun[s] \in Nat
      /\ emitted \in Nat /\ Ordered(state[s], offered[s], begun[s], emitted)
      /\ state \in [Sinks -> SinkState] /\ begun \in [Sinks -> Nat]
  BY DEF Inv, TypeOK, OrderInv, SinkState
<1>3. Ordered(state'[s], offered[s], begun'[s], emitted)
  <2>1. CASE q = <<>>
    <3>1. state'[s] = Process(f, q, k) /\ begun'[s] = begun[s]
      BY <1>1, <1>2, <2>1
    <3>2. k = 0 /\ Len(q) = 0
      BY <2>1
    <3>3. Process(f, q, k).queue = <<>> /\ Process(f, q, k).inflight = 0
      BY <2>1, <3>2 DEF Process
    <3> HIDE DEF f, q
    <3> QED
      BY <1>2, <3>1, <3>3 DEF Ordered, Tailing, Between
  <2>2. CASE q # <<>>
    <3>1. state'[s] = Process(f, q, k) /\ begun'[s] = LastCalled(q, k)
      BY <1>1, <1>2, <2>2
    <3> HIDE DEF f
    <3>2. Ordered(Process(f, q, k), offered[s], LastCalled(q, k), emitted)
      BY <1>2, <2>2, ProcessOrders DEF Ordered
    <3> QED
      BY <3>1, <3>2
  <2> QED
    BY <2>1, <2>2
<1>4. ASSUME NEW t \in Sinks, t # s
      PROVE  state'[t] = state[t] /\ begun'[t] = begun[t]
  BY <1>1, <1>2, <1>4
<1> QED
  BY <1>3, <1>4 DEF OrderInv, JobSettles

LEMMA OrderNext == Inv /\ OrderInv /\ [Next]_vars => OrderInv'
<1> SUFFICES ASSUME Inv, OrderInv, [Next]_vars PROVE OrderInv'
  OBVIOUS
<1>1. ASSUME NEW s \in Sinks, Register(s) PROVE OrderInv'
  BY <1>1 DEF Register, OrderInv
<1>2. ASSUME NEW s \in Sinks, Unregister(s) PROVE OrderInv'
  BY <1>2 DEF Unregister, OrderInv
<1>3. ASSUME NEW m \in Methods, Emit(m) PROVE OrderInv'
  BY <1>3, EmitOrders
<1>4. ASSUME NEW s \in Sinks, NEW ok \in BOOLEAN, JobSettles(s, ok) PROVE OrderInv'
  BY <1>4, JobSettlesOrders
<1>5. CASE DrainCalled
  BY <1>5 DEF DrainCalled, OrderInv
<1>6. CASE DrainReturns
  BY <1>6 DEF DrainReturns, OrderInv
<1>7. CASE UNCHANGED vars
  BY <1>7 DEF vars, OrderInv
<1> QED
  BY <1>1, <1>2, <1>3, <1>4, <1>5, <1>6, <1>7 DEF Next

(* Handlers are called in the order of emission, and a full queue gives up *)
(* its oldest event only.                                                  *)
THEOREM HandledInOrder == Spec => []InOrder
<1>1. Init => OrderInv
  BY DEF Init, OrderInv, Ordered, Tailing, Between, NewState
<1>2. Inv /\ OrderInv => InOrder
  <2> SUFFICES ASSUME Inv, OrderInv, NEW s \in Sinks
               PROVE  LET q == state[s].queue
                          n == Len(offered[s]) - Len(q) IN
                      /\ n >= 0
                      /\ \A i \in DOMAIN q : q[i] = offered[s][n + i] /\ begun[s] < q[i]
                      /\ \A i, j \in DOMAIN q : i < j => q[i] < q[j]
                      /\ state[s].inflight \in {0, begun[s]}
    BY DEF InOrder
  <2>1. /\ Ordered(state[s], offered[s], begun[s], emitted)
        /\ Len(state[s].queue) \in Nat /\ Len(offered[s]) \in Nat
    BY DEF OrderInv, Inv, TypeOK, SinkState
  <2> QED
    BY <2>1 DEF Ordered, Tailing, Between
<1> QED
  BY <1>1, <1>2, OrderNext, InvAlways, PTL DEF Spec

=============================================================================
