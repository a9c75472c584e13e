------------------------- MODULE AttemptLoopProofs -------------------------
(***************************************************************************)
(* Proofs about the attempt loop, for any number of requests and providers, *)
(* any routes, accounts, retries and thresholds: the invariants the runs of *)
(* AttemptLoop check are invariants of its specification.                  *)
(*                                                                         *)
(* What a request has done is described by RequestInv, of the values that  *)
(* belong to it alone; what the requests share, the breaker, by BreakerInv. *)
(***************************************************************************)
EXTENDS AttemptLoop, FiltersProofs, FiniteSetTheorems

(* Hops and attempts that name an account their provider has, or none.     *)
GoodHop == {h \in Hop : h.account <= Accounts[h.provider]}

GoodAttempt == {a \in Attempt : a.account <= Accounts[a.provider]}

TypeInv ==
  /\ pc \in [Requests -> Steps]
  /\ route \in [Requests -> Seq(Providers)]
  /\ queue \in [Requests -> Seq(GoodHop)]
  /\ hop \in [Requests -> GoodHop]
  /\ used \in [Requests -> [Providers -> Nat]]
  /\ attempts \in [Requests -> Seq(GoodAttempt)]
  /\ events \in [Requests -> Seq(Event)]
  /\ aborted \in [Requests -> BOOLEAN]
  /\ health \in [Providers -> Health]

(* Why the attempt b may have a successor.                                 *)
Curable(b) == b.outcome = "auth" \/ (Reliability(b.outcome) /\ ~NeverRetried(b.outcome))

(* The attempt b, and the hop h that follows it.                           *)
Caused(b, h) ==
  /\ Curable(b)
  /\ h.trigger \in {"rotation", "reliability"}
  /\ h.trigger = "rotation" <=> b.outcome = "auth"
  /\ b.outcome = "auth" => b.provider = h.provider

(* The attempt b, and the attempt a that followed it.                      *)
Follows(b, a) ==
  /\ Curable(b)
  /\ a.trigger \in {"rotation", "reliability"}
  /\ a.trigger = "rotation" => b.outcome = "auth" /\ b.provider = a.provider
  /\ b.outcome = "auth" /\ b.provider = a.provider =>
       a.trigger = "rotation" \/ a.outcome = "cooling"

Causes(ats) == \A i \in 2 .. Len(ats) : Follows(ats[i - 1], ats[i])

(* The events es report the attempts as, the last one if `all`.            *)
Reports(all, es, ats) ==
  /\ Len(es) = IF all THEN Len(ats) ELSE Len(ats) - 1
  /\ \A i \in 1 .. Len(es) :
       es[i] = [kind |-> IF all /\ i = Len(ats) THEN "logical_request"
                         ELSE "attempt",
                attempt |-> i, outcome |-> ats[i].outcome]

LateEndings == {"pending", "cancelled", "cooling", "unregistered"}

(* Only the last attempt of a request starts after its client has gone.    *)
LateLast(ats) ==
  \A i \in DOMAIN ats :
    ats[i].late => i = Len(ats) /\ ats[i].outcome \in LateEndings

(* Where a request is, and what that says of the rest of its state.        *)
Place(s, q, h, ats, es, gone) ==
  /\ s = "new" => ats = <<>> /\ es = <<>> /\ ~gone
  /\ s # "new" => ats # <<>>
  /\ s = "waiting" => /\ ats[Len(ats)].outcome = "pending"
                      /\ ats[Len(ats)].provider = h.provider
  /\ s = "superseded" => /\ q # <<>>
                         /\ Caused(ats[Len(ats)], q[1])
                         /\ ~ats[Len(ats)].late
  /\ s = "streaming" => ats[Len(ats)].outcome = "success"
  /\ s \in {"failed", "done"}
       /\ ats[Len(ats)].outcome \in {"overloaded", "connection", "cooling"} =>
     q = <<>>

RequestInv(s, q, h, ats, es, gone) ==
  /\ Place(s, q, h, ats, es, gone)
  /\ Reports(s \in {"new", "done"}, es, ats)
  /\ Causes(ats)
  /\ LateLast(ats)

RequestsInv ==
  \A r \in Requests :
    RequestInv(pc[r], queue[r], hop[r], attempts[r], events[r], aborted[r])

(* The record of a provider owes every failure it holds to a failed call.  *)
BreakerInv ==
  \A p \in Providers :
    /\ IsFiniteSet(TransientFailures(p))
    /\ health[p].fails <= Cardinality(TransientFailures(p))
    /\ health[p].cooled # "no" =>
         Cardinality(TransientFailures(p)) >= AllowedFails

IInv == TypeInv /\ RequestsInv /\ BreakerInv

-----------------------------------------------------------------------------
(* The hops that the loop skips are the first k of the queue, and the next *)
(* one is available.                                                       *)
LEMMA SkippedIsPrefix ==
  ASSUME NEW q \in Seq(GoodHop)
  PROVE  \E k \in 0 .. Len(q) :
           /\ Skipped(q) = 1 .. k
           /\ Cardinality(Skipped(q)) = k
           /\ k < Len(q) => IsAvailable(q[k + 1].provider)
<1> DEFINE T == {i \in Nat : i >= 1 /\ i \notin Skipped(q)}
<1>1. Len(q) \in Nat /\ DOMAIN q = 1 .. Len(q)
  OBVIOUS
<1>2. Len(q) + 1 \in T
  BY <1>1 DEF Skipped
<1>3. PICK m \in T : \A y \in T : m <= y
  <2>1. T \in SUBSET Nat /\ T # {}
    BY <1>2
  <2> HIDE DEF T
  <2> QED
    BY <2>1, LeastElement
<1>4. m \in 1 .. Len(q) + 1
  BY <1>1, <1>2, <1>3
<1>5. \A i \in 1 .. m - 1 : i \in Skipped(q)
  BY <1>3, <1>4
<1>6. \A i \in DOMAIN q : i \in Skipped(q) => i < m
  <2> SUFFICES ASSUME NEW i \in DOMAIN q, i \in Skipped(q), m <= i
               PROVE  FALSE
    BY <1>1, <1>4
  <2>1. m \in DOMAIN q /\ \A j \in 1 .. m : j \in 1 .. i
    BY <1>1, <1>4
  <2>2. m \in Skipped(q)
    BY <2>1 DEF Skipped
  <2> QED
    BY <2>2, <1>3
<1>7. Skipped(q) = 1 .. m - 1
  BY <1>1, <1>4, <1>5, <1>6 DEF Skipped
<1>8. Cardinality(Skipped(q)) = m - 1
  <2>1. Cardinality(1 .. m - 1) = IF 1 > m - 1 THEN 0 ELSE (m - 1) - 1 + 1
    BY <1>4, FS_Interval
  <2> QED
    BY <1>4, <1>7, <2>1
<1>9. m - 1 < Len(q) => IsAvailable(q[m].provider)
  <2> SUFFICES ASSUME m - 1 < Len(q), ~IsAvailable(q[m].provider)
               PROVE  FALSE
    OBVIOUS
  <2>1. m \in DOMAIN q
    BY <1>1, <1>4
  <2>2. \A j \in 1 .. m - 1 : ~IsAvailable(q[j].provider)
    BY <1>4, <1>5 DEF Skipped
  <2>3. \A j \in 1 .. m : j = m \/ j \in 1 .. m - 1
    BY <1>4
  <2>4. m \in Skipped(q)
    BY <2>1, <2>2, <2>3 DEF Skipped
  <2> QED
    BY <2>4, <1>3
<1> QED
  BY <1>4, <1>7, <1>8, <1>9

-----------------------------------------------------------------------------
(* The start of an attempt, whichever way it goes.                         *)

Begins(r, es, h, outcome, rest) ==
  /\ attempts' = [attempts EXCEPT ![r] = Started(r, h, outcome)]
  /\ hop' = [hop EXCEPT ![r] = h]
  /\ queue' = [queue EXCEPT ![r] = rest]
  /\ pc' = [pc EXCEPT ![r] = IF outcome = "pending" THEN "waiting" ELSE "done"]
  /\ events' = [events EXCEPT ![r] =
       IF outcome = "pending" THEN es
       ELSE Append(es, EventOf("logical_request", Started(r, h, outcome)))]

(* A step of the breaker that records no failure.                          *)
BreakerEases ==
  /\ health' \in [Providers -> Health]
  /\ \A p \in Providers :
       /\ health'[p].fails <= health[p].fails
       /\ health'[p].cooled # "no" => health[p].cooled # "no"

LEMMA CheckEases ==
  ASSUME TypeInv, NEW p \in Providers,
         health' = [health EXCEPT ![p] = Checked(@)]
  PROVE  BreakerEases
  BY DEF TypeInv, BreakerEases, Checked, Health

LEMMA HealsEases ==
  ASSUME TypeInv, NEW p \in Providers, FailureExpires(p) \/ CooldownElapses(p)
  PROVE  BreakerEases
<1>1. health \in [Providers -> Health] /\ health[p] \in Health
  BY DEF TypeInv
<1>2. CASE FailureExpires(p)
  <2> DEFINE g == [health[p] EXCEPT !.fails = @ - 1]
  <2>1. /\ g \in Health /\ g.fails <= health[p].fails
        /\ g.cooled = health[p].cooled
    BY <1>1, <1>2 DEF FailureExpires, Health
  <2>2. health' = [health EXCEPT ![p] = g]
    BY <1>2 DEF FailureExpires
  <2> HIDE DEF g
  <2> QED
    BY <1>1, <2>1, <2>2 DEF BreakerEases, Health
<1>3. CASE CooldownElapses(p)
  <2> DEFINE g == [health[p] EXCEPT !.cooled = "behind"]
  <2>1. /\ g \in Health /\ g.fails <= health[p].fails
        /\ health[p].cooled # "no"
    BY <1>1, <1>3 DEF CooldownElapses, Health
  <2>2. health' = [health EXCEPT ![p] = g]
    BY <1>3 DEF CooldownElapses
  <2> HIDE DEF g
  <2> QED
    BY <1>1, <2>1, <2>2 DEF BreakerEases, Health
<1> QED
  BY <1>2, <1>3

(* The hop dispatched is the first of the queue, or a later one relinked   *)
(* because every one before it is cooling down.                            *)
LEMMA LoopBegins ==
  ASSUME TypeInv, NEW r \in Requests, NEW q \in Seq(GoodHop), q # <<>>,
         NEW es, Loop(r, q, es)
  PROVE  \E h \in GoodHop, outcome \in {"cooling", "unregistered", "pending"},
            rest \in Seq(GoodHop) :
           /\ Begins(r, es, h, outcome, rest)
           /\ BreakerEases
           /\ outcome = "cooling" => rest = <<>>
           /\ \/ h = q[1]
              \/ /\ h.trigger = "reliability"
                 /\ h.provider = q[1].provider => outcome = "cooling"
<1>1. PICK k \in 0 .. Len(q) :
        /\ Skipped(q) = 1 .. k
        /\ Cardinality(Skipped(q)) = k
        /\ k < Len(q) => IsAvailable(q[k + 1].provider)
  BY SkippedIsPrefix
<1>2. /\ Len(q) \in Nat /\ Len(q) >= 1
      /\ \A i \in 1 .. Len(q) : q[i] \in GoodHop
  OBVIOUS
<1>3. ASSUME NEW i \in 1 .. Len(q)
      PROVE  /\ Linked(q, i) \in GoodHop
             /\ Linked(q, i).provider = q[i].provider
             /\ Linked(q, i) = q[1] \/ Linked(q, i).trigger = "reliability"
  BY <1>2 DEF Linked, GoodHop, Hop, Triggers
<1>4. CASE k = Len(q)
  <2> DEFINE h == Linked(q, Len(q))
  <2>1. /\ EndsWith(r, h, "cooling", es)
        /\ queue' = [queue EXCEPT ![r] = <<>>]
        /\ UNCHANGED health
    BY <1>1, <1>2, <1>4 DEF Loop
  <2>2. Begins(r, es, h, "cooling", <<>>)
    BY <2>1 DEF EndsWith, Begins
  <2>3. BreakerEases
    BY <2>1 DEF BreakerEases, TypeInv, Health
  <2>4. h \in GoodHop /\ (h = q[1] \/ h.trigger = "reliability")
    BY <1>2, <1>3
  <2>5. <<>> \in Seq(GoodHop)
    OBVIOUS
  <2> HIDE DEF h
  <2> QED
    BY <2>2, <2>3, <2>4, <2>5
<1>5. CASE k < Len(q)
  <2> DEFINE h == Linked(q, k + 1)
             rest == SubSeq(q, k + 2, Len(q))
  <2>1. /\ queue' = [queue EXCEPT ![r] = rest]
        /\ health' = [health EXCEPT ![h.provider] = Checked(@)]
        /\ IF h.provider \notin Registered
           THEN EndsWith(r, h, "unregistered", es)
           ELSE /\ attempts' = [attempts EXCEPT ![r] = Started(r, h, "pending")]
                /\ events' = [events EXCEPT ![r] = es]
                /\ hop' = [hop EXCEPT ![r] = h]
                /\ pc' = [pc EXCEPT ![r] = "waiting"]
    <3>1. Cardinality(Skipped(q)) + 1 = k + 1 /\ (k + 1) + 1 = k + 2
          /\ ~(k + 1 > Len(q))
      BY <1>1, <1>2, <1>5
    <3> QED
      BY <1>1, <3>1 DEF Loop
  <2>2. rest \in Seq(GoodHop)
    BY <1>1, <1>2, <1>5
  <2>3. /\ h \in GoodHop /\ h.provider = q[k + 1].provider
        /\ h = q[1] \/ h.trigger = "reliability"
    BY <1>1, <1>2, <1>3, <1>5
  <2>4. h = q[1] \/ h.provider # q[1].provider
    <3>1. CASE k = 0
      BY <3>1 DEF Linked
    <3>2. CASE k > 0
      <4>1. 1 \in Skipped(q)
        BY <1>1, <3>2
      <4>2. ~IsAvailable(q[1].provider)
        BY <4>1 DEF Skipped
      <4> QED
        BY <1>1, <1>5, <2>3, <4>2
    <3> QED
      BY <1>1, <3>1, <3>2
  <2> HIDE DEF h, rest
  <2>5. BreakerEases
    <3>1. h.provider \in Providers
      BY <2>3 DEF GoodHop, Hop
    <3> QED
      BY <2>1, <3>1, CheckEases
  <2>6. CASE h.provider \notin Registered
    <3>1. Begins(r, es, h, "unregistered", rest)
      BY <2>1, <2>6 DEF EndsWith, Begins
    <3> QED
      BY <2>2, <2>3, <2>4, <2>5, <3>1
  <2>7. CASE h.provider \in Registered
    <3>1. Begins(r, es, h, "pending", rest)
      BY <2>1, <2>7 DEF Begins
    <3> QED
      BY <2>2, <2>3, <2>4, <2>5, <3>1
  <2> QED
    BY <2>6, <2>7
<1> QED
  BY <1>1, <1>2, <1>4, <1>5

-----------------------------------------------------------------------------
(* The outcome of an attempt that is not on its way.                       *)

LEMMA AnswersAreOutcomes ==
  /\ Failures \subseteq Outcomes
  /\ "success" \in Outcomes /\ "pending" \in Outcomes
  /\ Undispatched \subseteq Outcomes
  BY DEF Outcomes, Failures, Answers, Undispatched, GateOutcomes

(* What is never dispatched, and what has no answer yet, is no transient   *)
(* failure of a provider; nor is a success or a cancelled call.            *)
LEMMA NotTransient ==
  \A o \in Undispatched \cup {"pending", "success", "cancelled"} : ~Reliability(o)
  BY LoopAssumption DEF Reliability, Undispatched, GateOutcomes

(* A new attempt, appended.                                                *)
LEMMA StartedIs ==
  ASSUME TypeInv, NEW r \in Requests, NEW h \in GoodHop, NEW o \in Outcomes
  PROVE  /\ Started(r, h, o) \in Seq(GoodAttempt)
         /\ Len(Started(r, h, o)) = Len(attempts[r]) + 1
         /\ \A i \in 1 .. Len(attempts[r]) : Started(r, h, o)[i] = attempts[r][i]
         /\ Started(r, h, o)[Len(attempts[r]) + 1].outcome = o
         /\ Started(r, h, o)[Len(attempts[r]) + 1].provider = h.provider
         /\ Started(r, h, o)[Len(attempts[r]) + 1].trigger = h.trigger
         /\ Started(r, h, o)[Len(attempts[r]) + 1].late = aborted[r]
<1> DEFINE a == [provider |-> h.provider, account |-> h.account,
                 trigger |-> h.trigger, outcome |-> o, late |-> aborted[r]]
<1>1. a \in GoodAttempt
  BY DEF TypeInv, GoodHop, Hop, GoodAttempt, Attempt
<1>2. /\ a.outcome = o /\ a.provider = h.provider /\ a.trigger = h.trigger
      /\ a.late = aborted[r]
  OBVIOUS
<1>3. attempts[r] \in Seq(GoodAttempt) /\ Started(r, h, o) = Append(attempts[r], a)
  BY DEF TypeInv, Started
<1> HIDE DEF a
<1> QED
  BY <1>1, <1>2, <1>3

(* The last attempt, completed.                                            *)
LEMMA CompletedIs ==
  ASSUME TypeInv, NEW r \in Requests, attempts[r] # <<>>, NEW o \in Outcomes
  PROVE  LET n == Len(attempts[r])
             ats == Completed(r, o) IN
         /\ n \in Nat /\ n >= 1 /\ n \in DOMAIN attempts[r]
         /\ ats \in Seq(GoodAttempt)
         /\ Len(ats) = n
         /\ \A i \in 1 .. n : i # n => ats[i] = attempts[r][i]
         /\ ats[n].outcome = o
         /\ ats[n].provider = attempts[r][n].provider
         /\ ats[n].trigger = attempts[r][n].trigger
         /\ ats[n].late = attempts[r][n].late
<1> DEFINE n == Len(attempts[r])
           a == [attempts[r][n] EXCEPT !.outcome = o]
           ats == Completed(r, o)
<1>1. /\ attempts[r] \in Seq(GoodAttempt) /\ n \in Nat /\ n >= 1
      /\ attempts[r][n] \in GoodAttempt
  BY DEF TypeInv
<1>2. /\ a \in GoodAttempt /\ a.outcome = o
      /\ a.provider = attempts[r][n].provider
      /\ a.trigger = attempts[r][n].trigger /\ a.late = attempts[r][n].late
  BY <1>1 DEF GoodAttempt, Attempt
<1>3. ats = [attempts[r] EXCEPT ![n] = a]
  BY DEF Completed
<1> HIDE DEF a, ats
<1>4. ats \in Seq(GoodAttempt) /\ Len(ats) = n
  BY <1>1, <1>2, <1>3
<1>5. ats[n] = a /\ \A i \in 1 .. n : i # n => ats[i] = attempts[r][i]
  BY <1>1, <1>3
<1> QED
  BY <1>1, <1>2, <1>4, <1>5 DEF ats

-----------------------------------------------------------------------------
(* Types.                                                                  *)

LEMMA EventOfType ==
  ASSUME NEW ats \in Seq(GoodAttempt), ats # <<>>,
         NEW kind \in {"attempt", "logical_request"}
  PROVE  /\ EventOf(kind, ats) \in Event
         /\ EventOf(kind, ats).kind = kind
         /\ EventOf(kind, ats).attempt = Len(ats)
         /\ EventOf(kind, ats).outcome = ats[Len(ats)].outcome
<1>1. Len(ats) \in Nat /\ Len(ats) >= 1
  OBVIOUS
<1>2. ats[Len(ats)] \in GoodAttempt
  BY <1>1
<1> QED
  BY <1>1, <1>2 DEF EventOf, Event, Last, GoodAttempt, Attempt

LEMMA EmitType ==
  ASSUME TypeInv, NEW r \in Requests, NEW ats \in Seq(GoodAttempt), ats # <<>>,
         NEW kind \in {"attempt", "logical_request"}
  PROVE  Emit(kind, r, ats) \in Seq(Event)
<1>1. events[r] \in Seq(Event)
  BY DEF TypeInv
<1>2. EventOf(kind, ats) \in Event
  BY EventOfType
<1> QED
  BY <1>1, <1>2 DEF Emit

LEMMA BeginsType ==
  ASSUME TypeInv, NEW r \in Requests, NEW es \in Seq(Event), NEW h \in GoodHop,
         NEW o \in Undispatched \cup {"pending"}, NEW rest \in Seq(GoodHop),
         Begins(r, es, h, o, rest), BreakerEases,
         route' \in [Requests -> Seq(Providers)], UNCHANGED <<used, aborted>>
  PROVE  TypeInv'
<1>1. o \in Outcomes
  BY AnswersAreOutcomes
<1> DEFINE ats == Started(r, h, o)
           fs == IF o = "pending" THEN es
                 ELSE Append(es, EventOf("logical_request", ats))
<1>2. ats \in Seq(GoodAttempt) /\ ats # <<>>
  <2>1. ats \in Seq(GoodAttempt) /\ Len(ats) = Len(attempts[r]) + 1
        /\ Len(attempts[r]) \in Nat
    BY <1>1, StartedIs DEF TypeInv
  <2> QED
    BY <2>1
<1>3. fs \in Seq(Event)
  <2>1. EventOf("logical_request", ats) \in Event
    BY <1>2, EventOfType
  <2> QED
    BY <2>1
<1>4. /\ attempts' = [attempts EXCEPT ![r] = ats] /\ hop' = [hop EXCEPT ![r] = h]
      /\ events' = [events EXCEPT ![r] = fs] /\ queue' = [queue EXCEPT ![r] = rest]
      /\ pc' = [pc EXCEPT ![r] = IF o = "pending" THEN "waiting" ELSE "done"]
  BY DEF Begins
<1> HIDE DEF ats, fs
<1> QED
  BY <1>2, <1>3, <1>4 DEF TypeInv, BreakerEases, Steps

LEMMA HopsAreGood ==
  ASSUME NEW rt \in Routes, NEW trigger \in PrimaryTriggers
  PROVE  /\ Hops(rt, trigger) \in Seq(GoodHop)
         /\ Hops(rt, trigger) # <<>>
         /\ rt \in Seq(Providers)
<1>1. rt \in Seq(Providers) /\ rt # <<>>
  BY LoopAssumption
<1>2. trigger \in Triggers
  BY DEF PrimaryTriggers, Triggers
<1> DEFINE g(i) == IF i = 1 THEN Hop0(rt[1], FirstAccount(rt[1]), trigger)
                  ELSE Hop0(rt[i], 0, "none")
           n == Len(rt)
<1>3. ASSUME NEW i \in 1 .. n PROVE g(i) \in GoodHop
  <2>1. rt[i] \in Providers /\ Accounts[rt[i]] \in Nat
    BY <1>1, LoopAssumption
  <2>2. CASE i = 1
    BY <1>2, <2>1, <2>2 DEF Hop0, FirstAccount, GoodHop, Hop
  <2>3. CASE i # 1
    BY <2>1, <2>3 DEF Hop0, GoodHop, Hop, Triggers
  <2> QED
    BY <2>2, <2>3
<1>4. Hops(rt, trigger) = [i \in 1 .. n |-> g(i)]
  BY <1>1 DEF Hops
<1>5. n \in Nat /\ n >= 1
  BY <1>1
<1> HIDE DEF g, n
<1>6. Hops(rt, trigger) \in [1 .. n -> GoodHop]
  BY <1>3, <1>4
<1> QED
  BY <1>1, <1>5, <1>6

(* What a failure of class c makes of the hops of a request.               *)
LEMMA AdvanceGives ==
  ASSUME TypeInv, NEW r \in Requests, NEW c \in Failures, Advance(r, c)
  PROVE  \E q \in Seq(GoodHop), s \in {"superseded", "failed"} :
           /\ queue' = [queue EXCEPT ![r] = q]
           /\ pc' = [pc EXCEPT ![r] = s]
           /\ used' \in [Requests -> [Providers -> Nat]]
           /\ s = "superseded" =>
                /\ q # <<>>
                /\ c = "auth" \/ (Reliability(c) /\ ~NeverRetried(c))
                /\ q[1].trigger \in {"rotation", "reliability"}
                /\ q[1].trigger = "rotation" <=> c = "auth"
                /\ c = "auth" => q[1].provider = hop[r].provider
           /\ s = "failed" /\ c \in {"overloaded", "connection"} => q = <<>>
<1> DEFINE h == hop[r]
<1>1. /\ h \in GoodHop /\ queue[r] \in Seq(GoodHop)
      /\ queue \in [Requests -> Seq(GoodHop)]
      /\ used \in [Requests -> [Providers -> Nat]]
      /\ pc \in [Requests -> Steps]
      /\ h.provider \in Providers /\ h.account \in Nat /\ h.retries \in Nat
  BY DEF TypeInv, GoodHop, Hop
<1>2. ASSUME NEW g \in GoodHop
      PROVE  /\ <<g>> \o queue[r] \in Seq(GoodHop)
             /\ <<g>> \o queue[r] # <<>>
             /\ (<<g>> \o queue[r])[1] = g
  <2> DEFINE q == queue[r]
  <2>1. q \in Seq(GoodHop)
    BY <1>1
  <2> HIDE DEF q
  <2> QED
    BY <2>1 DEF q
<1>3. CASE /\ PreStreamRetry(c, h)
           /\ queue' = [queue EXCEPT ![r] = <<Retried(h)>> \o @]
           /\ pc' = [pc EXCEPT ![r] = "superseded"]
           /\ UNCHANGED used
  <2>1. Retried(h) \in GoodHop /\ Retried(h).trigger = "reliability"
    <3>1. h \in Hop /\ h.account <= Accounts[h.provider]
      BY <1>1 DEF GoodHop
    <3> HIDE DEF h
    <3> DEFINE g == [h EXCEPT !.retries = @ + 1]
    <3>2. g \in Hop
      BY <3>1 DEF Hop
    <3>3. [g EXCEPT !.trigger = "reliability"] \in Hop
      BY <3>2 DEF Hop, Triggers
    <3>4. Retried(h) = [g EXCEPT !.trigger = "reliability"]
      BY <3>1 DEF Retried, Hop
    <3>5. /\ Retried(h).trigger = "reliability"
          /\ Retried(h).account = h.account
          /\ Retried(h).provider = h.provider
      BY <3>1 DEF Retried, Hop
    <3> QED
      BY <3>1, <3>3, <3>4, <3>5 DEF GoodHop
  <2>2. c = "connection"
    BY <1>3 DEF PreStreamRetry
  <2> QED
    BY <1>1, <1>2, <1>3, <2>1, <2>2 DEF Reliability, NeverRetried
<1>4. CASE /\ Rotates(c, h, r)
           /\ Rotated(r, h)
           /\ pc' = [pc EXCEPT ![r] = "superseded"]
  <2> DEFINE g == Hop0(h.provider, used[r][h.provider] + 2, "rotation")
  <2>1. used[r][h.provider] \in Nat /\ Accounts[h.provider] \in Nat
    BY <1>1, LoopAssumption
  <2>2. used[r][h.provider] + 2 <= Accounts[h.provider]
    BY <1>4, <2>1 DEF Rotates
  <2>3. g \in GoodHop /\ g.trigger = "rotation" /\ g.provider = h.provider
    BY <1>1, <2>1, <2>2 DEF Hop0, GoodHop, Hop, Triggers
  <2>4. c = "auth"
    BY <1>4 DEF Rotates
  <2>5. used' \in [Requests -> [Providers -> Nat]]
    BY <1>1, <1>4, <2>1 DEF Rotated
  <2>6. queue' = [queue EXCEPT ![r] = <<g>> \o @]
    BY <1>4 DEF Rotated
  <2> HIDE DEF g
  <2> QED
    BY <1>1, <1>2, <1>4, <2>3, <2>4, <2>5, <2>6
<1>5. CASE /\ FallsBack(c, r)
           /\ queue' = [queue EXCEPT ![r][1].trigger = "reliability"]
           /\ pc' = [pc EXCEPT ![r] = "superseded"]
           /\ UNCHANGED used
  <2> DEFINE q == queue[r]
             g == [q[1] EXCEPT !.trigger = "reliability"]
             w == [q EXCEPT ![1] = g]
  <2>1. q \in Seq(GoodHop) /\ q # <<>> /\ 1 \in DOMAIN q /\ q[1] \in GoodHop
    BY <1>1, <1>5 DEF FallsBack
  <2>2. g \in GoodHop /\ g.trigger = "reliability"
    BY <2>1 DEF GoodHop, Hop, Triggers
  <2>3. queue' = [queue EXCEPT ![r] = w]
    BY <1>5
  <2> HIDE DEF q, g
  <2>4. w \in Seq(GoodHop) /\ w # <<>> /\ w[1] = g
    BY <2>1, <2>2
  <2> HIDE DEF w
  <2> QED
    BY <1>1, <1>5, <2>2, <2>3, <2>4 DEF FallsBack
<1>6. CASE /\ ~PreStreamRetry(c, h) /\ ~Rotates(c, h, r) /\ ~FallsBack(c, r)
           /\ pc' = [pc EXCEPT ![r] = "failed"]
           /\ UNCHANGED <<queue, used>>
  <2>1. c \in {"overloaded", "connection"} => queue[r] = <<>>
    BY <1>6 DEF FallsBack, Reliability, NeverRetried
  <2>2. queue' = [queue EXCEPT ![r] = queue[r]]
    BY <1>1, <1>6
  <2> QED
    BY <1>1, <1>6, <2>1, <2>2
<1> QED
  BY <1>3, <1>4, <1>5, <1>6 DEF Advance

LEMMA TypeNext == TypeInv /\ RequestsInv /\ [Next]_vars => TypeInv'
<1> SUFFICES ASSUME TypeInv, RequestsInv, [Next]_vars PROVE TypeInv'
  OBVIOUS
<1>0. \A r \in Requests : pc[r] # "new" => attempts[r] # <<>>
  BY DEF RequestsInv, RequestInv, Place
<1>1. ASSUME NEW r \in Requests, Start(r) PROVE TypeInv'
  <2>1. PICK rt \in Routes, trigger \in PrimaryTriggers :
          /\ route' = [route EXCEPT ![r] = rt]
          /\ \/ \E outcome \in GateOutcomes :
                  /\ EndsWith(r, Hops(rt, trigger)[1], outcome, <<>>)
                  /\ queue' = [queue EXCEPT ![r] = Hops(rt, trigger)]
                  /\ UNCHANGED health
             \/ Loop(r, Hops(rt, trigger), <<>>)
    BY <1>1 DEF Start
  <2> DEFINE q == Hops(rt, trigger)
  <2>2. q \in Seq(GoodHop) /\ q # <<>> /\ q[1] \in GoodHop /\ rt \in Seq(Providers)
    <3>1. q \in Seq(GoodHop) /\ q # <<>> /\ rt \in Seq(Providers)
      BY HopsAreGood
    <3> HIDE DEF q
    <3> QED
      BY <3>1
  <2>3. route' \in [Requests -> Seq(Providers)] /\ UNCHANGED <<used, aborted>>
        /\ <<>> \in Seq(Event)
    BY <1>1, <2>1, <2>2 DEF Start, TypeInv
  <2> HIDE DEF q
  <2>4. ASSUME NEW outcome \in GateOutcomes, EndsWith(r, q[1], outcome, <<>>),
               queue' = [queue EXCEPT ![r] = q], UNCHANGED health
        PROVE  TypeInv'
    <3>1. outcome # "pending" /\ outcome \in Undispatched \cup {"pending"}
      BY DEF GateOutcomes, Undispatched
    <3>2. Begins(r, <<>>, q[1], outcome, q)
      BY <2>4, <3>1 DEF Begins, EndsWith
    <3>3. BreakerEases
      BY <2>4 DEF BreakerEases, TypeInv, Health
    <3> QED
      BY <2>2, <2>3, <3>1, <3>2, <3>3, BeginsType
  <2>5. CASE Loop(r, q, <<>>)
    <3>1. PICK h \in GoodHop, o \in {"cooling", "unregistered", "pending"},
               rest \in Seq(GoodHop) :
            Begins(r, <<>>, h, o, rest) /\ BreakerEases
      BY <2>2, <2>5, LoopBegins
    <3>2. o \in Undispatched \cup {"pending"}
      BY DEF Undispatched
    <3> QED
      BY <2>3, <3>1, <3>2, BeginsType
  <2> QED
    BY <2>1, <2>4, <2>5 DEF q
<1>2. ASSUME NEW r \in Requests, CallSucceeds(r) PROVE TypeInv'
  <2>1. attempts[r] # <<>>
    BY <1>0, <1>2 DEF CallSucceeds
  <2>2. Completed(r, "success") \in Seq(GoodAttempt) /\ Completed(r, "success") # <<>>
    BY <2>1, AnswersAreOutcomes, CompletedIs
  <2>3. Emit("logical_request", r, Completed(r, "success")) \in Seq(Event)
    BY <2>2, EmitType
  <2>4. hop[r].provider \in Providers
    BY DEF TypeInv, GoodHop, Hop
  <2> QED
    BY <1>2, <2>2, <2>3, <2>4 DEF CallSucceeds, TypeInv, Steps, AfterSuccess, Health
<1>3. ASSUME NEW r \in Requests, NEW c \in Failures, CallFails(r, c) PROVE TypeInv'
  <2>1. attempts[r] # <<>>
    BY <1>0, <1>3 DEF CallFails
  <2>2. Completed(r, c) \in Seq(GoodAttempt)
    BY <2>1, AnswersAreOutcomes, CompletedIs
  <2>3. PICK q \in Seq(GoodHop), s \in {"superseded", "failed"} :
          /\ queue' = [queue EXCEPT ![r] = q]
          /\ pc' = [pc EXCEPT ![r] = s]
          /\ used' \in [Requests -> [Providers -> Nat]]
    BY <1>3, AdvanceGives DEF CallFails
  <2>4. health' \in [Providers -> Health]
    <3> DEFINE p == hop[r].provider
    <3>1. p \in Providers /\ health \in [Providers -> Health]
      BY DEF TypeInv, GoodHop, Hop
    <3>2. health[p] \in Health /\ AfterFailure(health[p]) \in Health
      BY <3>1 DEF AfterFailure, Health
    <3> QED
      BY <1>3, <3>1, <3>2 DEF CallFails
  <2>5. pc' \in [Requests -> Steps]
    BY <2>3 DEF TypeInv, Steps
  <2> QED
    BY <1>3, <2>2, <2>3, <2>4, <2>5 DEF CallFails, TypeInv
<1>4. ASSUME NEW r \in Requests, NextHop(r) PROVE TypeInv'
  <2> DEFINE q == queue[r]
             es == Emit("attempt", r, attempts[r])
  <2>1. Loop(r, q, es) /\ UNCHANGED <<route, used, aborted>>
    BY <1>4 DEF NextHop
  <2>2. q \in Seq(GoodHop) /\ q # <<>>
    BY <1>4 DEF NextHop, TypeInv, RequestsInv, RequestInv, Place
  <2>3. es \in Seq(Event)
    BY <1>0, <1>4, EmitType DEF NextHop, TypeInv
  <2> HIDE DEF q, es
  <2>4. PICK h \in GoodHop, o \in {"cooling", "unregistered", "pending"},
             rest \in Seq(GoodHop) :
          Begins(r, es, h, o, rest) /\ BreakerEases
    BY <2>1, <2>2, LoopBegins
  <2>5. o \in Undispatched \cup {"pending"} /\ route' \in [Requests -> Seq(Providers)]
    BY <2>1 DEF Undispatched, TypeInv
  <2> QED
    BY <2>1, <2>3, <2>4, <2>5, BeginsType
<1>5. ASSUME NEW r \in Requests, FinalError(r) \/ StreamEnds(r) PROVE TypeInv'
  <2>1. Emit("logical_request", r, attempts[r]) \in Seq(Event)
    BY <1>0, <1>5, EmitType DEF FinalError, StreamEnds, TypeInv
  <2> QED
    BY <1>5, <2>1 DEF FinalError, StreamEnds, TypeInv, Steps
<1>6. ASSUME NEW r \in Requests, Abort(r) PROVE TypeInv'
  BY <1>6 DEF Abort, TypeInv, rvars
<1>7. ASSUME NEW p \in Providers, FailureExpires(p) \/ CooldownElapses(p)
      PROVE  TypeInv'
  BY <1>7, HealsEases DEF FailureExpires, CooldownElapses, TypeInv, rvars, BreakerEases
<1>8. CASE UNCHANGED vars
  BY <1>8 DEF vars, TypeInv
<1> QED
  BY <1>1, <1>2, <1>3, <1>4, <1>5, <1>6, <1>7, <1>8 DEF Next, CallEnds, GoesOn

-----------------------------------------------------------------------------
(* What a request has done.                                                *)

(* A step of the request r leaves the others as they are.                  *)
LEMMA OneRequestSteps ==
  ASSUME RequestsInv, NEW r \in Requests,
         RequestInv(pc'[r], queue'[r], hop'[r], attempts'[r], events'[r],
                    aborted'[r]),
         \A t \in Requests \ {r} :
           /\ pc'[t] = pc[t] /\ queue'[t] = queue[t] /\ hop'[t] = hop[t]
           /\ attempts'[t] = attempts[t] /\ events'[t] = events[t]
           /\ aborted'[t] = aborted[t]
  PROVE  RequestsInv'
<1> SUFFICES ASSUME NEW t \in Requests
             PROVE  RequestInv(pc'[t], queue'[t], hop'[t], attempts'[t],
                               events'[t], aborted'[t])
  BY DEF RequestsInv
<1>1. CASE t # r
  <2>1. RequestInv(pc[t], queue[t], hop[t], attempts[t], events[t], aborted[t])
    BY DEF RequestsInv
  <2> QED
    BY <1>1, <2>1
<1> QED
  BY <1>1

(* One more event reports the last of the attempts.                        *)
LEMMA EmitReports ==
  ASSUME TypeInv, NEW r \in Requests, NEW ats \in Seq(GoodAttempt), ats # <<>>,
         Reports(FALSE, events[r], ats),
         NEW kind \in {"attempt", "logical_request"}
  PROVE  LET es == Emit(kind, r, ats) IN
         /\ es \in Seq(Event)
         /\ Len(es) = Len(ats)
         /\ \A i \in 1 .. Len(ats) :
              es[i] = [kind |-> IF i = Len(ats) THEN kind ELSE "attempt",
                       attempt |-> i, outcome |-> ats[i].outcome]
<1> DEFINE n == Len(ats)
           e == EventOf(kind, ats)
           es == Emit(kind, r, ats)
<1>1. events[r] \in Seq(Event) /\ es = Append(events[r], e)
  BY DEF TypeInv, Emit
<1>2. n \in Nat /\ n >= 1 /\ Len(events[r]) = n - 1
  BY DEF Reports
<1>3. e \in Event /\ e = [kind |-> kind, attempt |-> n, outcome |-> ats[n].outcome]
  BY EventOfType DEF EventOf, Last
<1>4. \A i \in 1 .. n - 1 :
        events[r][i] = [kind |-> "attempt", attempt |-> i, outcome |-> ats[i].outcome]
  BY <1>2 DEF Reports
<1> HIDE DEF e, es, n
<1>5. es \in Seq(Event) /\ Len(es) = n
  BY <1>1, <1>2, <1>3
<1>6. es[n] = e /\ \A i \in 1 .. n - 1 : es[i] = events[r][i]
  BY <1>1, <1>2, <1>3
<1>7. ASSUME NEW i \in 1 .. n
      PROVE  es[i] = [kind |-> IF i = n THEN kind ELSE "attempt",
                      attempt |-> i, outcome |-> ats[i].outcome]
  <2>1. CASE i = n
    BY <1>3, <1>6, <2>1
  <2>2. CASE i # n
    <3>1. i \in 1 .. n - 1
      BY <1>2, <2>2
    <3> QED
      BY <1>4, <1>6, <2>2, <3>1
  <2> QED
    BY <2>1, <2>2
<1> QED
  BY <1>5, <1>7 DEF es, n

LEMMA LastReports ==
  ASSUME TypeInv, NEW r \in Requests, NEW ats \in Seq(GoodAttempt), ats # <<>>,
         Reports(FALSE, events[r], ats)
  PROVE  Reports(TRUE, Emit("logical_request", r, ats), ats)
<1> DEFINE es == Emit("logical_request", r, ats)
<1>1. /\ Len(es) = Len(ats)
      /\ \A i \in 1 .. Len(ats) :
           es[i] = [kind |-> IF i = Len(ats) THEN "logical_request" ELSE "attempt",
                    attempt |-> i, outcome |-> ats[i].outcome]
  BY EmitReports
<1> HIDE DEF es
<1>2. Reports(TRUE, es, ats)
  BY <1>1 DEF Reports
<1> QED
  BY <1>2 DEF es

(* A request whose attempts so far are all reported begins another one.    *)
LEMMA BeginsKeeps ==
  ASSUME TypeInv, RequestsInv, NEW r \in Requests,
         NEW es \in Seq(Event), NEW h \in GoodHop,
         NEW o \in Undispatched \cup {"pending"}, NEW rest \in Seq(GoodHop),
         Begins(r, es, h, o, rest), UNCHANGED aborted,
         Len(es) = Len(attempts[r]),
         \A i \in 1 .. Len(es) :
           es[i] = [kind |-> "attempt", attempt |-> i,
                    outcome |-> attempts[r][i].outcome],
         \A i \in DOMAIN attempts[r] : ~attempts[r][i].late,
         attempts[r] # <<>> =>
           Follows(attempts[r][Len(attempts[r])],
                   Started(r, h, o)[Len(attempts[r]) + 1]),
         aborted[r] => o \in LateEndings,
         o = "cooling" => rest = <<>>
  PROVE  RequestsInv'
<1> DEFINE n == Len(attempts[r])
           w == Started(r, h, o)
           fs == IF o = "pending" THEN es
                 ELSE Append(es, EventOf("logical_request", w))
           s == IF o = "pending" THEN "waiting" ELSE "done"
<1>1. /\ n \in Nat /\ attempts[r] \in Seq(GoodAttempt) /\ DOMAIN attempts[r] = 1 .. n
      /\ aborted[r] \in BOOLEAN
  BY DEF TypeInv
<1>2. /\ w \in Seq(GoodAttempt) /\ Len(w) = n + 1
      /\ \A i \in 1 .. n : w[i] = attempts[r][i]
      /\ w[n + 1].outcome = o /\ w[n + 1].provider = h.provider
      /\ w[n + 1].late = aborted[r]
  BY AnswersAreOutcomes, StartedIs
<1>3. /\ attempts'[r] = w /\ hop'[r] = h /\ queue'[r] = rest
      /\ pc'[r] = s /\ events'[r] = fs /\ aborted'[r] = aborted[r]
      /\ \A t \in Requests \ {r} :
           /\ pc'[t] = pc[t] /\ queue'[t] = queue[t] /\ hop'[t] = hop[t]
           /\ attempts'[t] = attempts[t] /\ events'[t] = events[t]
           /\ aborted'[t] = aborted[t]
  BY DEF Begins, TypeInv
<1>4. w # <<>> /\ DOMAIN w = 1 .. n + 1
  BY <1>1, <1>2
<1>5. Causes(w)
  <2> HIDE DEF w, n
  <2> SUFFICES ASSUME NEW i \in 2 .. n + 1 PROVE Follows(w[i - 1], w[i])
    BY <1>2 DEF Causes
  <2>1. CASE i = n + 1
    <3>1. n \in 1 .. n /\ attempts[r] # <<>> /\ (n + 1) - 1 = n
      BY <1>1, <2>1 DEF n
    <3> QED
      BY <1>2, <2>1, <3>1 DEF n, w
  <2>2. CASE i # n + 1
    <3>1. i \in 2 .. n /\ i - 1 \in 1 .. n /\ i \in 1 .. n
      BY <1>1, <2>2
    <3>2. Follows(attempts[r][i - 1], attempts[r][i])
      BY <3>1 DEF RequestsInv, RequestInv, Causes, n
    <3> QED
      BY <1>2, <3>1, <3>2
  <2> QED
    BY <2>1, <2>2
<1>6. LateLast(w)
  <2> HIDE DEF w, n
  <2> SUFFICES ASSUME NEW i \in 1 .. n + 1, w[i].late
               PROVE  i = n + 1 /\ w[i].outcome \in LateEndings
    BY <1>2, <1>4 DEF LateLast
  <2>1. i = n + 1
    <3> SUFFICES ASSUME i # n + 1 PROVE FALSE
      OBVIOUS
    <3>1. i \in 1 .. n
      BY <1>1
    <3> QED
      BY <1>1, <1>2, <3>1
  <2> QED
    BY <1>2, <2>1
<1>7. Reports(s \in {"new", "done"}, fs, w)
  <2> DEFINE e == EventOf("logical_request", w)
  <2> HIDE DEF w, n
  <2>1. CASE o = "pending"
    <3>1. fs = es /\ (s \in {"new", "done"}) = FALSE /\ Len(es) = n
      BY <2>1 DEF n
    <3>2. Len(es) = Len(w) - 1
      BY <1>1, <1>2, <3>1
    <3>3. \A i \in 1 .. Len(es) : w[i].outcome = attempts[r][i].outcome
      BY <1>1, <1>2, <3>1
    <3> HIDE DEF fs, s
    <3> QED
      BY <3>1, <3>2, <3>3 DEF Reports
  <2>2. CASE o # "pending"
    <3>1. fs = Append(es, e) /\ (s \in {"new", "done"}) = TRUE /\ Len(es) = n
      BY <2>2 DEF n
    <3>2. e \in Event
          /\ e = [kind |-> "logical_request", attempt |-> n + 1, outcome |-> o]
      <4>1. e \in Event
        BY <1>2, <1>4, EventOfType
      <4> QED
        BY <1>2, <4>1 DEF EventOf, Last
    <3> HIDE DEF e
    <3>3. Len(Append(es, e)) = n + 1 /\ Append(es, e)[n + 1] = e
          /\ \A i \in 1 .. n : Append(es, e)[i] = es[i]
      BY <1>1, <3>1, <3>2
    <3> HIDE DEF fs, s
    <3>4. ASSUME NEW i \in 1 .. Len(fs)
          PROVE  fs[i] = [kind |-> IF TRUE /\ i = Len(w) THEN "logical_request"
                                   ELSE "attempt",
                          attempt |-> i, outcome |-> w[i].outcome]
      <4>1. i \in 1 .. n + 1
        BY <3>1, <3>3
      <4>2. CASE i = n + 1
        BY <1>2, <3>1, <3>2, <3>3, <4>2
      <4>3. CASE i # n + 1
        <5>1. i \in 1 .. n
          BY <1>1, <4>1, <4>3
        <5>2. fs[i] = [kind |-> "attempt", attempt |-> i,
                       outcome |-> attempts[r][i].outcome]
          BY <3>1, <3>3, <5>1
        <5> QED
          BY <1>2, <4>3, <5>1, <5>2
      <4> QED
        BY <4>2, <4>3
    <3> QED
      BY <1>2, <3>1, <3>3, <3>4 DEF Reports
  <2> QED
    BY <2>1, <2>2
<1>8. Place(s, rest, h, w, fs, aborted[r])
  <2>1. o = "pending" => s = "waiting"
    OBVIOUS
  <2>2. o # "pending" => s = "done"
    OBVIOUS
  <2>3. o # "overloaded" /\ o # "connection"
    BY DEF Undispatched, GateOutcomes
  <2> HIDE DEF w, n, fs, s
  <2> QED
    BY <1>2, <1>4, <2>1, <2>2, <2>3 DEF Place
<1>9. RequestInv(s, rest, h, w, fs, aborted[r])
  BY <1>5, <1>6, <1>7, <1>8 DEF RequestInv
<1> HIDE DEF w, fs, s
<1>10. RequestInv(pc'[r], queue'[r], hop'[r], attempts'[r], events'[r], aborted'[r])
  BY <1>3, <1>9
<1> QED
  BY <1>3, <1>10, OneRequestSteps

LEMMA StartKeeps ==
  ASSUME TypeInv, RequestsInv, NEW r \in Requests, Start(r)
  PROVE  RequestsInv'
<1>1. PICK rt \in Routes, trigger \in PrimaryTriggers :
        \/ \E outcome \in GateOutcomes :
             /\ EndsWith(r, Hops(rt, trigger)[1], outcome, <<>>)
             /\ queue' = [queue EXCEPT ![r] = Hops(rt, trigger)]
        \/ Loop(r, Hops(rt, trigger), <<>>)
  BY DEF Start
<1> DEFINE q == Hops(rt, trigger)
<1>2. q \in Seq(GoodHop) /\ q # <<>> /\ q[1] \in GoodHop
  <2>1. q \in Seq(GoodHop) /\ q # <<>>
    BY HopsAreGood
  <2> HIDE DEF q
  <2> QED
    BY <2>1
<1> HIDE DEF q
<1>3. /\ attempts[r] = <<>> /\ ~aborted[r] /\ UNCHANGED aborted
      /\ Len(<<>>) = Len(attempts[r]) /\ <<>> \in Seq(Event)
      /\ \A i \in 1 .. Len(<<>>) : FALSE
      /\ \A i \in DOMAIN attempts[r] : FALSE
  BY DEF Start, RequestsInv, RequestInv, Place
<1>4. ASSUME NEW outcome \in GateOutcomes, EndsWith(r, q[1], outcome, <<>>),
             queue' = [queue EXCEPT ![r] = q]
      PROVE  RequestsInv'
  <2>1. /\ outcome # "pending" /\ outcome # "cooling"
        /\ outcome \in Undispatched \cup {"pending"}
    BY DEF GateOutcomes, Undispatched
  <2>2. Begins(r, <<>>, q[1], outcome, q)
    BY <1>4, <2>1 DEF Begins, EndsWith
  <2> QED
    BY <1>2, <1>3, <2>1, <2>2, BeginsKeeps
<1>5. CASE Loop(r, q, <<>>)
  <2>1. PICK h \in GoodHop, o \in {"cooling", "unregistered", "pending"},
             rest \in Seq(GoodHop) :
          Begins(r, <<>>, h, o, rest) /\ (o = "cooling" => rest = <<>>)
    BY <1>2, <1>5, LoopBegins
  <2>2. o \in Undispatched \cup {"pending"}
    BY DEF Undispatched
  <2> QED
    BY <1>3, <2>1, <2>2, BeginsKeeps
<1> QED
  BY <1>1, <1>4, <1>5 DEF q

LEMMA NextHopKeeps ==
  ASSUME TypeInv, RequestsInv, NEW r \in Requests, NextHop(r)
  PROVE  RequestsInv'
<1> DEFINE q == queue[r]
           ats == attempts[r]
           n == Len(attempts[r])
           es == Emit("attempt", r, attempts[r])
<1>1. RequestInv("superseded", q, hop[r], ats, events[r], aborted[r])
  BY DEF NextHop, RequestsInv
<1>2. /\ q \in Seq(GoodHop) /\ q # <<>> /\ q[1] \in GoodHop
      /\ ats \in Seq(GoodAttempt) /\ ats # <<>> /\ n \in DOMAIN ats
  <2>1. q \in Seq(GoodHop) /\ ats \in Seq(GoodAttempt)
    BY DEF TypeInv
  <2>2. q # <<>> /\ ats # <<>>
    BY <1>1 DEF RequestInv, Place
  <2> HIDE DEF q
  <2> QED
    BY <2>1, <2>2
<1>3. Reports(FALSE, events[r], ats)
  <2>1. ("superseded" \in {"new", "done"}) = FALSE
    OBVIOUS
  <2> QED
    BY <1>1, <2>1 DEF RequestInv
<1>4. /\ es \in Seq(Event) /\ Len(es) = n
      /\ \A i \in 1 .. Len(es) :
           es[i] = [kind |-> "attempt", attempt |-> i, outcome |-> ats[i].outcome]
  <2>1. /\ es \in Seq(Event) /\ Len(es) = n
        /\ \A i \in 1 .. n :
             es[i] = [kind |-> IF i = n THEN "attempt" ELSE "attempt",
                      attempt |-> i, outcome |-> ats[i].outcome]
    BY <1>2, <1>3, EmitReports
  <2> HIDE DEF es
  <2> QED
    BY <2>1
<1>5. \A i \in DOMAIN ats : ~ats[i].late
  BY <1>1 DEF RequestInv, Place, LateLast
<1>6. Caused(ats[n], q[1])
  BY <1>1 DEF RequestInv, Place
<1> HIDE DEF es
<1>7. Loop(r, q, es) /\ UNCHANGED <<route, used, aborted>>
  BY DEF NextHop, es
<1>8. PICK h \in GoodHop, o \in {"cooling", "unregistered", "pending"},
           rest \in Seq(GoodHop) :
        /\ Begins(r, es, h, o, rest)
        /\ o = "cooling" => rest = <<>>
        /\ \/ h = q[1]
           \/ /\ h.trigger = "reliability"
              /\ h.provider = q[1].provider => o = "cooling"
  BY <1>2, <1>7, LoopBegins
<1>9. Follows(ats[n], Started(r, h, o)[n + 1])
  <2>1. o \in Outcomes
    BY AnswersAreOutcomes DEF Undispatched
  <2> DEFINE a == Started(r, h, o)[n + 1]
  <2>2. a.outcome = o /\ a.provider = h.provider /\ a.trigger = h.trigger
    BY <2>1, StartedIs
  <2> HIDE DEF a, ats, n, q
  <2>3. Follows(ats[n], a)
    <3>1. CASE h = q[1]
      BY <1>6, <2>2, <3>1 DEF Caused, Follows
    <3>2. CASE h.trigger = "reliability" /\ (h.provider = q[1].provider => o = "cooling")
      BY <1>6, <2>2, <3>2 DEF Caused, Follows
    <3> QED
      BY <1>8, <3>1, <3>2
  <2> QED
    BY <2>3 DEF a, ats, n
<1>10. o \in Undispatched \cup {"pending"} /\ o \in LateEndings
  BY DEF Undispatched, LateEndings
<1> QED
  BY <1>2, <1>4, <1>5, <1>7, <1>8, <1>9, <1>10, BeginsKeeps

(* The answer of a call that was on its way.                               *)
LEMMA CompletedKeeps ==
  ASSUME TypeInv, RequestsInv, NEW r \in Requests, pc[r] = "waiting",
         NEW o \in Failures \cup {"success"}, MayEndIn(r, o)
  PROVE  LET n == Len(attempts[r])
             w == Completed(r, o) IN
         /\ n \in Nat /\ n >= 1 /\ w \in Seq(GoodAttempt) /\ w # <<>>
         /\ Len(w) = n /\ w[n].outcome = o /\ w[n].provider = hop[r].provider
         /\ o # "cancelled" => ~w[n].late
         /\ Causes(w) /\ LateLast(w) /\ Reports(FALSE, events[r], w)
<1> DEFINE n == Len(attempts[r])
           w == Completed(r, o)
           v == attempts[r]
<1>1. RequestInv("waiting", queue[r], hop[r], v, events[r], aborted[r])
  BY DEF RequestsInv
<1>2. v # <<>> /\ v[n].outcome = "pending" /\ v[n].provider = hop[r].provider
  BY <1>1 DEF RequestInv, Place
<1>3. /\ n \in Nat /\ n >= 1 /\ n \in DOMAIN v /\ w \in Seq(GoodAttempt) /\ Len(w) = n
      /\ \A i \in 1 .. n : i # n => w[i] = v[i]
      /\ w[n].outcome = o /\ w[n].provider = v[n].provider
      /\ w[n].trigger = v[n].trigger /\ w[n].late = v[n].late
  BY <1>2, AnswersAreOutcomes, CompletedIs
<1>4. o # "cancelled" => ~v[n].late
  BY DEF MayEndIn, Current, Last
<1>5. /\ Causes(v) /\ LateLast(v)
      /\ Len(events[r]) = n - 1
      /\ \A i \in 1 .. n - 1 :
           events[r][i] = [kind |-> "attempt", attempt |-> i,
                           outcome |-> v[i].outcome]
  <2>1. ("waiting" \in {"new", "done"}) = FALSE
    OBVIOUS
  <2>2. Reports(FALSE, events[r], v) /\ Causes(v) /\ LateLast(v)
    BY <1>1, <2>1 DEF RequestInv
  <2> QED
    BY <2>2 DEF Reports
<1>6. w # <<>> /\ DOMAIN w = 1 .. n /\ DOMAIN v = 1 .. n
  BY <1>3 DEF TypeInv
<1> HIDE DEF w, n, v
<1>7. Causes(w)
  <2> SUFFICES ASSUME NEW i \in 2 .. n PROVE Follows(w[i - 1], w[i])
    BY <1>3 DEF Causes
  <2>1. Follows(v[i - 1], v[i])
    BY <1>5 DEF Causes, n, v
  <2>2. w[i - 1] = v[i - 1]
    BY <1>3
  <2>3. CASE i = n
    BY <1>2, <1>3, <2>1, <2>2, <2>3 DEF Follows
  <2>4. CASE i # n
    BY <1>3, <2>1, <2>2, <2>4
  <2> QED
    BY <2>3, <2>4
<1>8. LateLast(w)
  <2> SUFFICES ASSUME NEW i \in 1 .. n, w[i].late
               PROVE  i = n /\ w[i].outcome \in LateEndings
    BY <1>3, <1>6 DEF LateLast
  <2>1. i = n
    <3> SUFFICES ASSUME i # n PROVE FALSE
      OBVIOUS
    <3>1. v[i].late
      BY <1>3
    <3> QED
      BY <1>5, <1>6, <3>1 DEF LateLast, n, v
  <2> QED
    BY <1>3, <1>4, <2>1 DEF LateEndings
<1>9. Reports(FALSE, events[r], w)
  <2>1. \A i \in 1 .. n - 1 : w[i] = v[i]
    BY <1>3
  <2> QED
    BY <1>3, <1>5, <2>1 DEF Reports
<1>10. /\ n \in Nat /\ n >= 1 /\ w \in Seq(GoodAttempt) /\ w # <<>>
       /\ Len(w) = n /\ w[n].outcome = o /\ w[n].provider = hop[r].provider
       /\ o # "cancelled" => ~w[n].late
  BY <1>2, <1>3, <1>4, <1>6
<1> QED
  BY <1>7, <1>8, <1>9, <1>10 DEF w, n

LEMMA CallSucceedsKeeps ==
  ASSUME TypeInv, RequestsInv, NEW r \in Requests, CallSucceeds(r)
  PROVE  RequestsInv'
<1> DEFINE w == Completed(r, "success")
           n == Len(attempts[r])
           es == Emit("logical_request", r, w)
<1>1. /\ n \in Nat /\ n >= 1 /\ w \in Seq(GoodAttempt) /\ w # <<>>
      /\ Len(w) = n /\ w[n].outcome = "success"
      /\ Causes(w) /\ LateLast(w) /\ Reports(FALSE, events[r], w)
  BY CompletedKeeps DEF CallSucceeds
<1>2. Reports(TRUE, es, w)
  BY <1>1, LastReports
<1>3. /\ attempts'[r] = w /\ queue'[r] = queue[r] /\ hop'[r] = hop[r]
      /\ aborted'[r] = aborted[r]
      /\ \/ events'[r] = es /\ pc'[r] = "done"
         \/ events'[r] = events[r] /\ pc'[r] = "streaming"
      /\ \A t \in Requests \ {r} :
           /\ pc'[t] = pc[t] /\ queue'[t] = queue[t] /\ hop'[t] = hop[t]
           /\ attempts'[t] = attempts[t] /\ events'[t] = events[t]
           /\ aborted'[t] = aborted[t]
  BY DEF CallSucceeds, TypeInv
<1> HIDE DEF w, n, es
<1>4. CASE events'[r] = es /\ pc'[r] = "done"
  <2>1. RequestInv("done", queue[r], hop[r], w, es, aborted[r])
    BY <1>1, <1>2 DEF RequestInv, Place
  <2> QED
    BY <1>3, <1>4, <2>1, OneRequestSteps
<1>5. CASE events'[r] = events[r] /\ pc'[r] = "streaming"
  <2>1. ("streaming" \in {"new", "done"}) = FALSE
    OBVIOUS
  <2>2. RequestInv("streaming", queue[r], hop[r], w, events[r], aborted[r])
    BY <1>1, <2>1 DEF RequestInv, Place
  <2> QED
    BY <1>3, <1>5, <2>2, OneRequestSteps
<1> QED
  BY <1>3, <1>4, <1>5

LEMMA CallFailsKeeps ==
  ASSUME TypeInv, RequestsInv, NEW r \in Requests, NEW c \in Failures,
         CallFails(r, c)
  PROVE  RequestsInv'
<1> DEFINE w == Completed(r, c)
           n == Len(attempts[r])
<1>1. /\ n \in Nat /\ n >= 1 /\ w \in Seq(GoodAttempt) /\ w # <<>>
      /\ Len(w) = n /\ w[n].outcome = c /\ w[n].provider = hop[r].provider
      /\ c # "cancelled" => ~w[n].late
      /\ Causes(w) /\ LateLast(w) /\ Reports(FALSE, events[r], w)
  BY CompletedKeeps DEF CallFails
<1>2. PICK q \in Seq(GoodHop), s \in {"superseded", "failed"} :
        /\ queue' = [queue EXCEPT ![r] = q]
        /\ pc' = [pc EXCEPT ![r] = s]
        /\ s = "superseded" =>
             /\ q # <<>>
             /\ c = "auth" \/ (Reliability(c) /\ ~NeverRetried(c))
             /\ q[1].trigger \in {"rotation", "reliability"}
             /\ q[1].trigger = "rotation" <=> c = "auth"
             /\ c = "auth" => q[1].provider = hop[r].provider
        /\ s = "failed" /\ c \in {"overloaded", "connection"} => q = <<>>
  BY AdvanceGives DEF CallFails
<1>3. /\ attempts'[r] = w /\ queue'[r] = q /\ hop'[r] = hop[r]
      /\ aborted'[r] = aborted[r] /\ events'[r] = events[r] /\ pc'[r] = s
      /\ \A t \in Requests \ {r} :
           /\ pc'[t] = pc[t] /\ queue'[t] = queue[t] /\ hop'[t] = hop[t]
           /\ attempts'[t] = attempts[t] /\ events'[t] = events[t]
           /\ aborted'[t] = aborted[t]
  BY <1>2 DEF CallFails, TypeInv
<1>4. (s \in {"new", "done"}) = FALSE
  OBVIOUS
<1>5. c # "cooling" /\ (c = "cancelled" => NeverRetried(c))
  BY DEF Failures, Answers, NeverRetried
<1> HIDE DEF w, n
<1>6. s = "superseded" => Caused(w[n], q[1]) /\ ~w[n].late
  BY <1>1, <1>2, <1>5 DEF Caused, Curable
<1>7. Place(s, q, hop[r], w, events[r], aborted[r])
  <2>1. s = "failed" /\ c \in {"overloaded", "connection", "cooling"} => q = <<>>
    BY <1>2, <1>5
  <2> QED
    BY <1>1, <1>2, <1>6, <2>1 DEF Place
<1>8. RequestInv(s, q, hop[r], w, events[r], aborted[r])
  BY <1>1, <1>4, <1>7 DEF RequestInv
<1> QED
  BY <1>3, <1>8, OneRequestSteps

LEMMA ClosesKeeps ==
  ASSUME TypeInv, RequestsInv, NEW r \in Requests, FinalError(r) \/ StreamEnds(r)
  PROVE  RequestsInv'
<1> DEFINE es == Emit("logical_request", r, attempts[r])
<1>1. pc[r] \in {"failed", "streaming"} /\ (pc[r] \in {"new", "done"}) = FALSE
  BY DEF FinalError, StreamEnds
<1>2. RequestInv(pc[r], queue[r], hop[r], attempts[r], events[r], aborted[r])
  BY DEF RequestsInv
<1>3. /\ attempts[r] \in Seq(GoodAttempt) /\ attempts[r] # <<>>
      /\ Reports(FALSE, events[r], attempts[r])
  BY <1>1, <1>2 DEF TypeInv, RequestInv, Place
<1>4. Reports(TRUE, es, attempts[r])
  BY <1>3, LastReports
<1>5. /\ attempts'[r] = attempts[r] /\ queue'[r] = queue[r] /\ hop'[r] = hop[r]
      /\ aborted'[r] = aborted[r] /\ events'[r] = es /\ pc'[r] = "done"
      /\ \A t \in Requests \ {r} :
           /\ pc'[t] = pc[t] /\ queue'[t] = queue[t] /\ hop'[t] = hop[t]
           /\ attempts'[t] = attempts[t] /\ events'[t] = events[t]
           /\ aborted'[t] = aborted[t]
  BY DEF FinalError, StreamEnds, TypeInv
<1> HIDE DEF es
<1>6. RequestInv("done", queue[r], hop[r], attempts[r], es, aborted[r])
  BY <1>1, <1>2, <1>4 DEF RequestInv, Place
<1> QED
  BY <1>5, <1>6, OneRequestSteps

LEMMA RequestsNext == TypeInv /\ RequestsInv /\ [Next]_vars => RequestsInv'
<1> SUFFICES ASSUME TypeInv, RequestsInv, [Next]_vars PROVE RequestsInv'
  OBVIOUS
<1>1. ASSUME NEW r \in Requests, Start(r) PROVE RequestsInv'
  BY <1>1, StartKeeps
<1>2. ASSUME NEW r \in Requests, CallSucceeds(r) PROVE RequestsInv'
  BY <1>2, CallSucceedsKeeps
<1>3. ASSUME NEW r \in Requests, NEW c \in Failures, CallFails(r, c) PROVE RequestsInv'
  BY <1>3, CallFailsKeeps
<1>4. ASSUME NEW r \in Requests, NextHop(r) PROVE RequestsInv'
  BY <1>4, NextHopKeeps
<1>5. ASSUME NEW r \in Requests, FinalError(r) \/ StreamEnds(r) PROVE RequestsInv'
  BY <1>5, ClosesKeeps
<1>6. ASSUME NEW r \in Requests, Abort(r) PROVE RequestsInv'
  <2>1. RequestInv(pc[r], queue[r], hop[r], attempts[r], events[r], aborted[r])
    BY DEF RequestsInv
  <2>2. pc[r] # "new"
    BY <1>6 DEF Abort
  <2>3. RequestInv(pc[r], queue[r], hop[r], attempts[r], events[r], TRUE)
    BY <2>1, <2>2 DEF RequestInv, Place
  <2> QED
    BY <1>6, <2>3, OneRequestSteps DEF Abort, rvars, TypeInv
<1>7. ASSUME NEW p \in Providers, FailureExpires(p) \/ CooldownElapses(p)
      PROVE  RequestsInv'
  BY <1>7 DEF FailureExpires, CooldownElapses, rvars, RequestsInv
<1>8. CASE UNCHANGED vars
  BY <1>8 DEF vars, RequestsInv
<1> QED
  BY <1>1, <1>2, <1>3, <1>4, <1>5, <1>6, <1>7, <1>8 DEF Next, CallEnds, GoesOn

-----------------------------------------------------------------------------
(* The breaker.  The failures held against a provider are those of calls   *)
(* that were made to it: the failed ones of a request are FailedAt.        *)

FailedAt(ats, p) ==
  {i \in DOMAIN ats : ats[i].provider = p /\ Reliability(ats[i].outcome)}

LEMMA TransientIs ==
  /\ \A p, x : x \in TransientFailures(p) <=>
       \E r \in Requests : \E i \in FailedAt(attempts[r], p) : x = <<r, i>>
  /\ \A p, x : x \in TransientFailures(p)' <=>
       \E r \in Requests : \E i \in FailedAt(attempts'[r], p) : x = <<r, i>>
<1>1. ASSUME NEW p, NEW x
      PROVE  x \in TransientFailures(p) <=>
               \E r \in Requests : \E i \in FailedAt(attempts[r], p) : x = <<r, i>>
  <2>1. TransientFailures(p) = UNION {{r} \X FailedAt(attempts[r], p) : r \in Requests}
    BY DEF TransientFailures, FailedAt
  <2> QED
    BY <2>1
<1>2. ASSUME NEW p, NEW x
      PROVE  x \in TransientFailures(p)' <=>
               \E r \in Requests : \E i \in FailedAt(attempts'[r], p) : x = <<r, i>>
  <2>1. TransientFailures(p)' = UNION {{r} \X FailedAt(attempts'[r], p) : r \in Requests}
    BY DEF TransientFailures, FailedAt
  <2> QED
    BY <2>1
<1> QED
  BY <1>1, <1>2

(* A step that adds no failed call leaves the failures as they are.        *)
LEMMA SameFailures ==
  ASSUME NEW p, \A r \in Requests : FailedAt(attempts'[r], p) = FailedAt(attempts[r], p)
  PROVE  TransientFailures(p)' = TransientFailures(p)
  BY TransientIs

LEMMA BreakerEasesKeeps ==
  ASSUME TypeInv, BreakerInv, BreakerEases,
         \A p \in Providers : TransientFailures(p)' = TransientFailures(p)
  PROVE  BreakerInv'
<1> SUFFICES ASSUME NEW p \in Providers
             PROVE  /\ IsFiniteSet(TransientFailures(p)')
                    /\ health'[p].fails <= Cardinality(TransientFailures(p)')
                    /\ health'[p].cooled # "no" =>
                         Cardinality(TransientFailures(p)') >= AllowedFails
  BY DEF BreakerInv
<1>1. TransientFailures(p)' = TransientFailures(p)
  OBVIOUS
<1>2. /\ IsFiniteSet(TransientFailures(p))
      /\ health[p].fails <= Cardinality(TransientFailures(p))
      /\ health[p].cooled # "no" => Cardinality(TransientFailures(p)) >= AllowedFails
  BY DEF BreakerInv
<1>3. Cardinality(TransientFailures(p)) \in Nat
  BY <1>2, FS_CardinalityType
<1>4. health[p] \in Health /\ health'[p] \in Health
  BY DEF TypeInv, BreakerEases
<1>5. /\ health'[p].fails <= health[p].fails
      /\ health'[p].cooled # "no" => health[p].cooled # "no"
      /\ health[p].fails \in Nat /\ health'[p].fails \in Nat
  BY <1>4 DEF BreakerEases, Health
<1> QED
  BY <1>1, <1>2, <1>3, <1>5

LEMMA BeginsFails ==
  ASSUME TypeInv, NEW r \in Requests, NEW es, NEW h \in GoodHop,
         NEW o \in Undispatched \cup {"pending"}, NEW rest, Begins(r, es, h, o, rest)
  PROVE  \A p \in Providers : TransientFailures(p)' = TransientFailures(p)
<1> SUFFICES ASSUME NEW p, NEW t \in Requests
             PROVE  FailedAt(attempts'[t], p) = FailedAt(attempts[t], p)
  BY SameFailures
<1> DEFINE w == Started(r, h, o)
           v == attempts[r]
           n == Len(attempts[r])
<1>1. /\ w \in Seq(GoodAttempt) /\ Len(w) = n + 1
      /\ \A i \in 1 .. n : w[i] = v[i]
      /\ w[n + 1].outcome = o
  BY AnswersAreOutcomes, StartedIs
<1>2. attempts' = [attempts EXCEPT ![r] = w]
  BY DEF Begins
<1>3. v \in Seq(GoodAttempt) /\ n \in Nat /\ attempts \in [Requests -> Seq(GoodAttempt)]
  BY DEF TypeInv
<1>4. ~Reliability(o)
  BY NotTransient
<1>5. DOMAIN w = 1 .. n + 1 /\ DOMAIN v = 1 .. n
  BY <1>1, <1>3
<1> HIDE DEF w, v, n
<1>6. FailedAt(w, p) = FailedAt(v, p)
  <2>1. \A i \in 1 .. n + 1 : i \in 1 .. n \/ i = n + 1
    BY <1>3
  <2>2. \A i \in 1 .. n : i \in 1 .. n + 1
    BY <1>3
  <2> QED
    BY <1>1, <1>4, <1>5, <2>1, <2>2 DEF FailedAt
<1>7. CASE t = r
  BY <1>2, <1>3, <1>6, <1>7 DEF v
<1>8. CASE t # r
  BY <1>2, <1>3, <1>8
<1> QED
  BY <1>7, <1>8

(* Where a call that was on its way ends.                                  *)
LEMMA CompletedFails ==
  ASSUME TypeInv, RequestsInv, NEW r \in Requests, pc[r] = "waiting",
         NEW o \in Failures \cup {"success"}, NEW p
  PROVE  LET n == Len(attempts[r])
             w == Completed(r, o) IN
         /\ n \notin FailedAt(attempts[r], p)
         /\ FailedAt(w, p) = IF hop[r].provider = p /\ Reliability(o)
                             THEN FailedAt(attempts[r], p) \cup {n}
                             ELSE FailedAt(attempts[r], p)
<1> DEFINE n == Len(attempts[r])
           w == Completed(r, o)
           v == attempts[r]
<1>1. v # <<>> /\ v[n].outcome = "pending" /\ v[n].provider = hop[r].provider
  BY DEF RequestsInv, RequestInv, Place
<1>2. /\ n \in Nat /\ n >= 1 /\ n \in DOMAIN v /\ w \in Seq(GoodAttempt) /\ Len(w) = n
      /\ \A i \in 1 .. n : i # n => w[i] = v[i]
      /\ w[n].outcome = o /\ w[n].provider = v[n].provider
  BY <1>1, AnswersAreOutcomes, CompletedIs
<1>3. DOMAIN w = 1 .. n /\ DOMAIN v = 1 .. n
  BY <1>2 DEF TypeInv
<1>4. ~Reliability("pending")
  BY NotTransient
<1> HIDE DEF w, v, n
<1>5. n \notin FailedAt(v, p)
  BY <1>1, <1>4 DEF FailedAt
<1>6. FailedAt(w, p) = IF hop[r].provider = p /\ Reliability(o)
                       THEN FailedAt(v, p) \cup {n} ELSE FailedAt(v, p)
  <2>1. \A i : i \in FailedAt(w, p) <=>
               \/ i \in FailedAt(v, p)
               \/ i = n /\ hop[r].provider = p /\ Reliability(o)
    BY <1>1, <1>2, <1>3, <1>4 DEF FailedAt
  <2> QED
    BY <2>1
<1> QED
  BY <1>5, <1>6 DEF w, n, v

LEMMA CallFailsBreaker ==
  ASSUME TypeInv, RequestsInv, BreakerInv, NEW r \in Requests,
         NEW c \in Failures, CallFails(r, c)
  PROVE  BreakerInv'
<1>0. PICK h \in Providers : h = hop[r].provider
  BY DEF TypeInv, GoodHop, Hop
<1> DEFINE n == Len(attempts[r])
           w == Completed(r, c)
<1>1. /\ pc[r] = "waiting" /\ attempts' = [attempts EXCEPT ![r] = w]
      /\ health' = [health EXCEPT ![h] = IF Reliability(c) THEN AfterFailure(@) ELSE @]
      /\ attempts \in [Requests -> Seq(GoodAttempt)]
      /\ health \in [Providers -> Health]
  BY <1>0 DEF CallFails, CountsAgainstProvider, TypeInv
<1>2. \A p : /\ n \notin FailedAt(attempts[r], p)
             /\ FailedAt(w, p) = IF h = p /\ Reliability(c)
                                 THEN FailedAt(attempts[r], p) \cup {n}
                                 ELSE FailedAt(attempts[r], p)
  BY <1>0, <1>1, CompletedFails
<1> HIDE DEF w, n
<1>3. /\ attempts'[r] = w
      /\ \A t \in Requests \ {r} : attempts'[t] = attempts[t]
  BY <1>1
<1>4. \A p \in Providers : h # p \/ ~Reliability(c) =>
        TransientFailures(p)' = TransientFailures(p)
  <2> SUFFICES ASSUME NEW p \in Providers, h # p \/ ~Reliability(c), NEW t \in Requests
               PROVE  FailedAt(attempts'[t], p) = FailedAt(attempts[t], p)
    BY SameFailures
  <2> QED
    BY <1>2, <1>3
<1>5. CASE ~Reliability(c)
  <2>1. health' = health
    BY <1>1, <1>5
  <2>2. BreakerEases
    BY <1>1, <2>1 DEF BreakerEases, Health
  <2> QED
    BY <1>4, <1>5, <2>2, BreakerEasesKeeps
<1>6. CASE Reliability(c)
  <2>1. TransientFailures(h)' = TransientFailures(h) \cup {<<r, n>>}
    <3>1. FailedAt(attempts'[r], h) = FailedAt(attempts[r], h) \cup {n}
      BY <1>2, <1>3, <1>6
    <3>2. \A t \in Requests \ {r} : FailedAt(attempts'[t], h) = FailedAt(attempts[t], h)
      BY <1>3
    <3>3. \A x : x \in TransientFailures(h)' <=>
                 x \in TransientFailures(h) \/ x = <<r, n>>
      BY <3>1, <3>2, TransientIs
    <3> QED
      BY <3>3
  <2>2. <<r, n>> \notin TransientFailures(h)
    BY <1>2, TransientIs
  <2>3. \A p \in Providers :
          /\ IsFiniteSet(TransientFailures(p))
          /\ Cardinality(TransientFailures(p)) \in Nat
          /\ health[p].fails <= Cardinality(TransientFailures(p))
          /\ health[p].cooled # "no" => Cardinality(TransientFailures(p)) >= AllowedFails
    BY FS_CardinalityType DEF BreakerInv
  <2>4. /\ IsFiniteSet(TransientFailures(h)')
        /\ Cardinality(TransientFailures(h)') = Cardinality(TransientFailures(h)) + 1
    <3>1. IsFiniteSet(TransientFailures(h))
      BY <2>3
    <3>2. /\ IsFiniteSet(TransientFailures(h) \cup {<<r, n>>})
          /\ Cardinality(TransientFailures(h) \cup {<<r, n>>}) =
               Cardinality(TransientFailures(h)) + 1
      BY <2>2, <3>1, FS_AddElement
    <3> QED
      BY <2>1, <3>2
  <2> SUFFICES ASSUME NEW p \in Providers
               PROVE  /\ IsFiniteSet(TransientFailures(p)')
                      /\ health'[p].fails <= Cardinality(TransientFailures(p)')
                      /\ health'[p].cooled # "no" =>
                           Cardinality(TransientFailures(p)') >= AllowedFails
    BY DEF BreakerInv
  <2>5. CASE p = h
    <3>1. health'[p] = AfterFailure(health[p])
      BY <1>1, <1>6, <2>5
    <3>2. health[p].fails \in Nat /\ AllowedFails \in Nat
      BY <1>1, LoopAssumption DEF Health
    <3>3. /\ health'[p].fails = health[p].fails + 1
          /\ health'[p].cooled = IF health[p].fails + 1 >= AllowedFails
                                 THEN "ahead" ELSE health[p].cooled
      BY <3>1 DEF AfterFailure
    <3> QED
      BY <2>3, <2>4, <2>5, <3>2, <3>3
  <2>6. CASE p # h
    BY <1>1, <1>4, <2>3, <2>6
  <2> QED
    BY <2>5, <2>6
<1> QED
  BY <1>5, <1>6

LEMMA CallSucceedsBreaker ==
  ASSUME TypeInv, RequestsInv, BreakerInv, NEW r \in Requests, CallSucceeds(r)
  PROVE  BreakerInv'
<1> DEFINE w == Completed(r, "success")
<1>1. /\ pc[r] = "waiting" /\ attempts' = [attempts EXCEPT ![r] = w]
      /\ health' = [health EXCEPT ![hop[r].provider] = AfterSuccess(@)]
      /\ attempts \in [Requests -> Seq(GoodAttempt)]
      /\ health \in [Providers -> Health]
  BY DEF CallSucceeds, TypeInv
<1>2. \A p : FailedAt(w, p) = FailedAt(attempts[r], p)
  BY <1>1, CompletedFails, NotTransient
<1> HIDE DEF w
<1>3. \A p : \A t \in Requests : FailedAt(attempts'[t], p) = FailedAt(attempts[t], p)
  BY <1>1, <1>2
<1>4. \A p : TransientFailures(p)' = TransientFailures(p)
  BY <1>3, SameFailures
<1>5. BreakerEases
  <2>1. AfterSuccess(health[hop[r].provider]) \in Health
    BY DEF AfterSuccess, Health
  <2>2. \A p \in Providers : health[p] \in Health
    BY <1>1
  <2>3. health' \in [Providers -> Health]
    BY <1>1, <2>1
  <2>4. ASSUME NEW p \in Providers
        PROVE  health'[p] = health[p] \/ health'[p] = AfterSuccess(health[p])
    BY <1>1
  <2>5. \A p \in Providers : health[p].fails \in Nat
    BY <2>2 DEF Health
  <2> QED
    BY <2>3, <2>4, <2>5 DEF BreakerEases, AfterSuccess
<1> QED
  BY <1>4, <1>5, BreakerEasesKeeps

LEMMA BreakerNext == TypeInv /\ RequestsInv /\ BreakerInv /\ [Next]_vars => BreakerInv'
<1> SUFFICES ASSUME TypeInv, RequestsInv, BreakerInv, [Next]_vars PROVE BreakerInv'
  OBVIOUS
<1>1. ASSUME NEW r \in Requests, Start(r) PROVE BreakerInv'
  <2>1. PICK rt \in Routes, trigger \in PrimaryTriggers :
          \/ \E outcome \in GateOutcomes :
               /\ EndsWith(r, Hops(rt, trigger)[1], outcome, <<>>)
               /\ queue' = [queue EXCEPT ![r] = Hops(rt, trigger)]
               /\ UNCHANGED health
          \/ Loop(r, Hops(rt, trigger), <<>>)
    BY <1>1 DEF Start
  <2> DEFINE q == Hops(rt, trigger)
  <2>2. q \in Seq(GoodHop) /\ q # <<>> /\ q[1] \in GoodHop
    <3>1. q \in Seq(GoodHop) /\ q # <<>>
      BY HopsAreGood
    <3> HIDE DEF q
    <3> QED
      BY <3>1
  <2> HIDE DEF q
  <2>3. ASSUME NEW outcome \in GateOutcomes, EndsWith(r, q[1], outcome, <<>>),
               queue' = [queue EXCEPT ![r] = q], UNCHANGED health
        PROVE  BreakerInv'
    <3>1. outcome # "pending" /\ outcome \in Undispatched \cup {"pending"}
      BY DEF GateOutcomes, Undispatched
    <3>2. Begins(r, <<>>, q[1], outcome, q)
      BY <2>3, <3>1 DEF Begins, EndsWith
    <3>3. BreakerEases
      BY <2>3 DEF BreakerEases, TypeInv, Health
    <3> QED
      BY <2>2, <3>1, <3>2, <3>3, BeginsFails, BreakerEasesKeeps
  <2>4. CASE Loop(r, q, <<>>)
    <3>1. PICK h \in GoodHop, o \in {"cooling", "unregistered", "pending"},
               rest \in Seq(GoodHop) :
            Begins(r, <<>>, h, o, rest) /\ BreakerEases
      BY <2>2, <2>4, LoopBegins
    <3>2. o \in Undispatched \cup {"pending"}
      BY DEF Undispatched
    <3> QED
      BY <3>1, <3>2, BeginsFails, BreakerEasesKeeps
  <2> QED
    BY <2>1, <2>3, <2>4 DEF q
<1>2. ASSUME NEW r \in Requests, NextHop(r) PROVE BreakerInv'
  <2> DEFINE q == queue[r]
             es == Emit("attempt", r, attempts[r])
  <2>1. q \in Seq(GoodHop) /\ q # <<>>
    BY <1>2 DEF NextHop, TypeInv, RequestsInv, RequestInv, Place
  <2>2. Loop(r, q, es)
    BY <1>2 DEF NextHop
  <2> HIDE DEF q, es
  <2>3. PICK h \in GoodHop, o \in {"cooling", "unregistered", "pending"},
             rest \in Seq(GoodHop) :
          Begins(r, es, h, o, rest) /\ BreakerEases
    BY <2>1, <2>2, LoopBegins
  <2>4. o \in Undispatched \cup {"pending"}
    BY DEF Undispatched
  <2> QED
    BY <2>3, <2>4, BeginsFails, BreakerEasesKeeps
<1>3. ASSUME NEW r \in Requests, CallSucceeds(r) PROVE BreakerInv'
  BY <1>3, CallSucceedsBreaker
<1>4. ASSUME NEW r \in Requests, NEW c \in Failures, CallFails(r, c) PROVE BreakerInv'
  BY <1>4, CallFailsBreaker
<1>5. ASSUME UNCHANGED <<attempts, health>> PROVE BreakerInv'
  <2>1. \A p : TransientFailures(p)' = TransientFailures(p)
    BY <1>5, SameFailures
  <2>2. BreakerEases
    BY <1>5 DEF BreakerEases, TypeInv, Health
  <2> QED
    BY <2>1, <2>2, BreakerEasesKeeps
<1>6. ASSUME NEW r \in Requests, FinalError(r) \/ StreamEnds(r) \/ Abort(r)
      PROVE  BreakerInv'
  BY <1>5, <1>6 DEF FinalError, StreamEnds, Abort, rvars
<1>7. ASSUME NEW p \in Providers, FailureExpires(p) \/ CooldownElapses(p)
      PROVE  BreakerInv'
  <2>1. UNCHANGED attempts
    BY <1>7 DEF FailureExpires, CooldownElapses, rvars
  <2>2. \A d : TransientFailures(d)' = TransientFailures(d)
    BY <2>1, SameFailures
  <2> QED
    BY <1>7, <2>2, HealsEases, BreakerEasesKeeps
<1>8. CASE UNCHANGED vars
  BY <1>5, <1>8 DEF vars
<1> QED
  BY <1>1, <1>2, <1>3, <1>4, <1>6, <1>7, <1>8 DEF Next, CallEnds, GoesOn

-----------------------------------------------------------------------------

LEMMA InvInit == Init => IInv
<1> SUFFICES ASSUME Init PROVE IInv
  OBVIOUS
<1>1. NoHop \in GoodHop
  <2> DEFINE p == CHOOSE p \in Providers : TRUE
  <2>1. p \in Providers
    BY LoopAssumption
  <2>2. Accounts[p] \in Nat
    BY <2>1, LoopAssumption
  <2>3. NoHop = Hop0(p, 0, "none")
    BY DEF NoHop
  <2> HIDE DEF p
  <2> QED
    BY <2>1, <2>2, <2>3 DEF Hop0, GoodHop, Hop, Triggers
<1>2. TypeInv
  BY <1>1 DEF Init, TypeInv, Steps, Health
<1>3. RequestsInv
  <2> SUFFICES ASSUME NEW r \in Requests
               PROVE  RequestInv("new", <<>>, NoHop, <<>>, <<>>, FALSE)
    BY DEF Init, RequestsInv
  <2>1. ("new" \in {"new", "done"}) = TRUE
    OBVIOUS
  <2> QED
    BY <2>1 DEF RequestInv, Place, Reports, Causes, LateLast
<1>4. BreakerInv
  <2> SUFFICES ASSUME NEW p \in Providers
               PROVE  /\ IsFiniteSet(TransientFailures(p))
                      /\ health[p].fails <= Cardinality(TransientFailures(p))
                      /\ health[p].cooled = "no"
    BY DEF BreakerInv
  <2>1. \A r \in Requests : FailedAt(attempts[r], p) = {}
    BY DEF Init, FailedAt
  <2>2. TransientFailures(p) = {}
    BY <2>1, TransientIs
  <2>3. IsFiniteSet({}) /\ Cardinality({}) = 0
    BY FS_EmptySet
  <2> QED
    BY <2>2, <2>3 DEF Init
<1> QED
  BY <1>2, <1>3, <1>4 DEF IInv

LEMMA InvAlways == Spec => []IInv
<1>1. IInv /\ [Next]_vars => IInv'
  BY TypeNext, RequestsNext, BreakerNext DEF IInv
<1> QED
  BY InvInit, <1>1, PTL DEF Spec

(* Every variable keeps its type, and no attempt names an account its      *)
(* provider does not have.                                                 *)
THEOREM LoopTypeCorrect == Spec => []TypeOK
<1>1. TypeInv => TypeOK
  <2> SUFFICES ASSUME TypeInv PROVE TypeOK
    OBVIOUS
  <2>1. GoodHop \subseteq Hop /\ GoodAttempt \subseteq Attempt
    BY DEF GoodHop, GoodAttempt
  <2>2. Seq(GoodHop) \subseteq Seq(Hop) /\ Seq(GoodAttempt) \subseteq Seq(Attempt)
    BY <2>1
  <2>3. ASSUME NEW r \in Requests, NEW i \in DOMAIN attempts[r]
        PROVE  attempts[r][i].account <= Accounts[attempts[r][i].provider]
    <3>1. attempts[r][i] \in GoodAttempt
      BY DEF TypeInv
    <3> QED
      BY <3>1 DEF GoodAttempt
  <2> QED
    BY <2>1, <2>2, <2>3 DEF TypeInv, TypeOK
<1> QED
  BY <1>1, InvAlways, PTL DEF IInv

(* An attempt is superseded for a failure that another attempt may cure,   *)
(* and its successor tells why it was made.                                *)
THEOREM AttemptsHaveCauses == Spec => []SupersededForCause
<1>1. RequestsInv => SupersededForCause
  BY DEF RequestsInv, RequestInv, Causes, Follows, Curable, SupersededForCause
<1> QED
  BY <1>1, InvAlways, PTL DEF IInv

(* Every attempt is reported by exactly one event, in order.               *)
THEOREM AttemptsAreReported == Spec => []EveryAttemptReported
<1>1. TypeInv /\ RequestsInv => EveryAttemptReported
  <2> SUFFICES ASSUME TypeInv, RequestsInv, NEW r \in Requests
               PROVE  LET n == Len(attempts[r]) IN
                      /\ Len(events[r]) = IF pc[r] \in {"new", "done"} THEN n ELSE n - 1
                      /\ \A i \in DOMAIN events[r] :
                           events[r][i] =
                             [kind |-> IF pc[r] = "done" /\ i = n THEN "logical_request"
                                       ELSE "attempt",
                              attempt |-> i, outcome |-> attempts[r][i].outcome]
    BY DEF EveryAttemptReported
  <2>1. RequestInv(pc[r], queue[r], hop[r], attempts[r], events[r], aborted[r])
    BY DEF RequestsInv
  <2>2. DOMAIN events[r] = 1 .. Len(events[r]) /\ Len(events[r]) \in Nat
    BY DEF TypeInv
  <2>3. CASE pc[r] = "new"
    <3>1. events[r] = <<>> /\ attempts[r] = <<>>
      BY <2>1, <2>3 DEF RequestInv, Place
    <3> QED
      BY <2>3, <3>1
  <2>4. CASE pc[r] = "done"
    <3>1. (pc[r] \in {"new", "done"}) = TRUE
      BY <2>4
    <3>2. Reports(TRUE, events[r], attempts[r])
      BY <2>1, <3>1 DEF RequestInv
    <3> QED
      BY <2>2, <2>4, <3>2 DEF Reports
  <2>5. CASE pc[r] \notin {"new", "done"}
    <3>1. (pc[r] \in {"new", "done"}) = FALSE
      BY <2>5
    <3>2. Reports(FALSE, events[r], attempts[r])
      BY <2>1, <3>1 DEF RequestInv
    <3> QED
      BY <2>2, <2>5, <3>2 DEF Reports
  <2> QED
    BY <2>3, <2>4, <2>5
<1> QED
  BY <1>1, InvAlways, PTL DEF IInv

(* A request fails on a transient error only when its route is exhausted.  *)
THEOREM CandidatesAreExhausted == Spec => []TransientFailureExhaustsRoute
<1>1. RequestsInv => TransientFailureExhaustsRoute
  BY DEF RequestsInv, RequestInv, Place, TransientFailureExhaustsRoute, Current, Last
<1> QED
  BY <1>1, InvAlways, PTL DEF IInv

(* After its client has gone a request starts at most one more attempt,    *)
(* which reaches no upstream.                                              *)
THEOREM DisconnectEndsRequest == Spec => []AbortEndsRequest
<1>1. RequestsInv => AbortEndsRequest
  BY DEF RequestsInv, RequestInv, LateLast, LateEndings, AbortEndsRequest
<1> QED
  BY <1>1, InvAlways, PTL DEF IInv

(* No provider cools down but for its own transient failures, and for as   *)
(* many as the threshold.                                                  *)
THEOREM BreakerIsEarned == Spec => []CooldownIsEarned
<1>1. BreakerInv => CooldownIsEarned
  BY DEF BreakerInv, CooldownIsEarned
<1> QED
  BY <1>1, InvAlways, PTL DEF IInv

=============================================================================
