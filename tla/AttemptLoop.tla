----------------------------- MODULE AttemptLoop -----------------------------
(***************************************************************************)
(* The attempt loop of POST /v1/messages (handleMessages and its helpers   *)
(* in src/gateway/server.ts) for several concurrent requests that share    *)
(* the provider cooldown breaker (src/routing/cooldown.ts).                *)
(*                                                                         *)
(* A request works through a queue of hops: same-model retries after a     *)
(* backoff, rotation to another account, fallback to the next candidate.   *)
(* Every attempt it starts is reported by one usage event.                 *)
(*                                                                         *)
(* A step is what one request does between two awaits: up to a dispatch;   *)
(* from the answer to the backoff (or to the await of a decision already   *)
(* taken); from there to the next dispatch or to the final error.          *)
(*                                                                         *)
(* Models, headers and bodies are left out: a hop is a provider, and a     *)
(* failure is one of the classes the loop tells apart.  Time is too: a     *)
(* failure leaves the sliding window, and a cooldown elapses, at any       *)
(* moment.                                                                 *)
(***************************************************************************)
EXTENDS Integers, Sequences, FiniteSets, SequencesExt

CONSTANTS
  Requests,
  Providers,
  Routes,         \* primary and fallbacks a routing decision may give
  Registered,     \* the providers the registry has an adapter for
  Accounts,       \* accountsFor: how many accounts a provider has (or 0)
  MaxRetries,     \* routing.retry.maxRetries
  Downgrading,    \* a budget downgrade may replace the primary model
  Triggering,     \* classes whose statuses are in triggerStatuses
  AllowedFails    \* routing.cooldown.allowedFails

ASSUME LoopAssumption ==
  /\ Providers # {}
  /\ Routes \subseteq Seq(Providers) \ {<<>>}
  /\ Registered \subseteq Providers
  /\ Accounts \in [Providers -> Nat]
  /\ MaxRetries \in Nat
  /\ Downgrading \in BOOLEAN
  /\ Triggering \subseteq {"auth", "invalid", "internal"}
  /\ AllowedFails \in Nat \ {0}

VARIABLES
  pc,         \* where each request is
  route,      \* its routing decision
  queue,      \* its hops still to try
  hop,        \* the hop it tries
  used,       \* its account cursor
  attempts,   \* ctx.attempts
  events,     \* the usage events it has emitted
  aborted,    \* its client has disconnected
  health      \* the breaker's record of each provider

rvars == <<pc, route, queue, hop, used, attempts, events>>

vars == <<pc, route, queue, hop, used, attempts, events, aborted, health>>

-----------------------------------------------------------------------------

Steps == {"new", "waiting", "superseded", "failed", "streaming", "done"}

(* Failures of a call: rate limit or overload; timeout or connection;      *)
(* credentials; a deterministic fault; anything else.                      *)
Answers == {"overloaded", "connection", "auth", "invalid", "internal"}

Failures == Answers \cup {"cancelled"}

(* Outcomes of an attempt that is never dispatched.                        *)
GateOutcomes == {"cache_hit", "budget_exceeded", "policy_rejected"}

Undispatched == GateOutcomes \cup {"cooling", "unregistered"}

Outcomes == Failures \cup Undispatched \cup {"pending", "success"}

Triggers == {"none", "downgrade", "rotation", "reliability"}

Hop == [provider : Providers, account : Nat, retries : Nat, trigger : Triggers]

Attempt == [provider : Providers, account : Nat, trigger : Triggers,
            outcome : Outcomes, late : BOOLEAN]

Event == [kind : {"attempt", "logical_request"}, attempt : Nat,
          outcome : Outcomes]

(* cooledUntil is unset, ahead, or behind.                                 *)
Health == [fails : Nat, cooled : {"no", "ahead", "behind"}]

Hop0(p, account, trigger) ==
  [provider |-> p, account |-> account, retries |-> 0, trigger |-> trigger]

-----------------------------------------------------------------------------
(* The breaker.                                                            *)

IsAvailable(p) == health[p].cooled # "ahead"

(* The check that finds the cooldown elapsed clears the record.            *)
Checked(h) == IF h.cooled = "behind" THEN [fails |-> 0, cooled |-> "no"] ELSE h

(* recordFailure(), of which the failures out of the window are forgotten  *)
(* by FailureExpires.                                                      *)
AfterFailure(h) ==
  [fails |-> h.fails + 1,
   cooled |-> IF h.fails + 1 >= AllowedFails THEN "ahead" ELSE h.cooled]

AfterSuccess(h) == [fails |-> 0, cooled |-> "no"]

FailureExpires(p) ==
  /\ health[p].fails > 0
  /\ health' = [health EXCEPT ![p].fails = @ - 1]
  /\ UNCHANGED <<rvars, aborted>>

CooldownElapses(p) ==
  /\ health[p].cooled = "ahead"
  /\ health' = [health EXCEPT ![p].cooled = "behind"]
  /\ UNCHANGED <<rvars, aborted>>

-----------------------------------------------------------------------------
(* Failure classes.                                                        *)

(* isReliabilityCategory or isReliabilityStatus.                           *)
Reliability(c) == c \in {"overloaded", "connection"} \cup Triggering

NeverRetried(c) == c \in {"invalid", "cancelled"}

(* Mutant: every failed attempt counts against its provider.               *)
AnyFailure(c) == TRUE

(* recordProviderFailure().                                                *)
CountsAgainstProvider(c) == Reliability(c)

PreStreamRetry(c, h) == c = "connection" /\ h.retries < MaxRetries

Rotates(c, h, r) == c = "auth" /\ used[r][h.provider] + 1 < Accounts[h.provider]

(* Mutant: any failure falls back.                                         *)
FallsBackAlways(c, r) == queue[r] # <<>> /\ c # "auth"

(* Mutant: an overload ends the request.                                   *)
FallsBackOnConnection(c, r) == queue[r] # <<>> /\ c = "connection"

FallsBack(c, r) ==
  /\ ~NeverRetried(c)
  /\ c # "auth"
  /\ queue[r] # <<>>
  /\ Reliability(c)

-----------------------------------------------------------------------------
(* Attempts and events.                                                    *)

Started(r, h, outcome) ==
  Append(attempts[r], [provider |-> h.provider, account |-> h.account,
                       trigger |-> h.trigger, outcome |-> outcome,
                       late |-> aborted[r]])

EventOf(kind, as) ==
  [kind |-> kind, attempt |-> Len(as), outcome |-> Last(as).outcome]

(* Mutant: no event for an attempt that another one supersedes.            *)
EmitLogicalOnly(kind, r, as) ==
  IF kind = "attempt" THEN events[r]
  ELSE Append(events[r], EventOf(kind, as))

Emit(kind, r, as) == Append(events[r], EventOf(kind, as))

(* An attempt that is recorded but not dispatched ends the request.        *)
EndsWith(r, h, outcome, es) ==
  LET as == Started(r, h, outcome) IN
  /\ attempts' = [attempts EXCEPT ![r] = as]
  /\ events' = [events EXCEPT ![r] = Append(es, EventOf("logical_request", as))]
  /\ hop' = [hop EXCEPT ![r] = h]
  /\ pc' = [pc EXCEPT ![r] = "done"]

(* The hop at i of q, relinked when the one before it was skipped.         *)
Linked(q, i) == IF i = 1 THEN q[1] ELSE [q[i] EXCEPT !.trigger = "reliability"]

(* The hops at the head of q whose providers are cooling down.             *)
Skipped(q) ==
  {i \in DOMAIN q : \A j \in 1 .. i : ~IsAvailable(q[j].provider)}

(* The loop from its head, for the hops in q, after the events in es: skip *)
(* cooling providers, then dispatch, or end on the last hop.               *)
Loop(r, q, es) ==
  LET i == Cardinality(Skipped(q)) + 1
      h == Linked(q, i) IN
  \/ /\ i > Len(q)
     /\ EndsWith(r, Linked(q, Len(q)), "cooling", es)
     /\ queue' = [queue EXCEPT ![r] = <<>>]
     /\ UNCHANGED health
  \/ /\ i <= Len(q)
     /\ queue' = [queue EXCEPT ![r] = SubSeq(q, i + 1, Len(q))]
     /\ health' = [health EXCEPT ![h.provider] = Checked(@)]
     /\ IF h.provider \notin Registered
        THEN EndsWith(r, h, "unregistered", es)
        ELSE /\ attempts' = [attempts EXCEPT ![r] = Started(r, h, "pending")]
             /\ events' = [events EXCEPT ![r] = es]
             /\ hop' = [hop EXCEPT ![r] = h]
             /\ pc' = [pc EXCEPT ![r] = "waiting"]

-----------------------------------------------------------------------------
(* The handler's steps.                                                    *)

FirstAccount(p) == IF Accounts[p] > 0 THEN 1 ELSE 0

Hops(rt, trigger) ==
  [i \in DOMAIN rt |-> IF i = 1 THEN Hop0(rt[1], FirstAccount(rt[1]), trigger)
                                ELSE Hop0(rt[i], 0, "none")]

PrimaryTriggers == {"none"} \cup IF Downgrading THEN {"downgrade"} ELSE {}

(* A request is planned, perhaps downgraded, and either answered before    *)
(* any dispatch (cache, budget, tool policy) or dispatched.                *)
Start(r) ==
  /\ pc[r] = "new"
  /\ \E rt \in Routes, trigger \in PrimaryTriggers :
       LET q == Hops(rt, trigger) IN
       /\ route' = [route EXCEPT ![r] = rt]
       /\ \/ \E outcome \in GateOutcomes :
               /\ EndsWith(r, q[1], outcome, <<>>)
               /\ queue' = [queue EXCEPT ![r] = q]
               /\ UNCHANGED health
          \/ Loop(r, q, <<>>)
  /\ UNCHANGED <<used, aborted>>

Abort(r) ==
  /\ ~aborted[r]
  /\ pc[r] \in {"waiting", "superseded", "failed"}
  /\ aborted' = [aborted EXCEPT ![r] = TRUE]
  /\ UNCHANGED <<rvars, health>>

Current(r) == Last(attempts[r])

Completed(r, outcome) ==
  [attempts[r] EXCEPT ![Len(attempts[r])].outcome = outcome]

(* Mutant: an aborted call is taken for a timeout of the provider.         *)
AbortIsTimeout(r, c) == c # "cancelled"

(* A call made with an aborted signal is refused at once; a call whose     *)
(* signal is aborted rejects, unless its answer was already there.         *)
MayEndIn(r, c) ==
  IF c = "cancelled" THEN aborted[r] ELSE ~Current(r).late

(* The winning answer; that of a stream is reported when it has ended.     *)
CallSucceeds(r) ==
  /\ pc[r] = "waiting"
  /\ MayEndIn(r, "success")
  /\ LET as == Completed(r, "success") IN
     /\ attempts' = [attempts EXCEPT ![r] = as]
     /\ \/ /\ events' = [events EXCEPT ![r] = Emit("logical_request", r, as)]
           /\ pc' = [pc EXCEPT ![r] = "done"]
        \/ /\ UNCHANGED events
           /\ pc' = [pc EXCEPT ![r] = "streaming"]
  /\ health' = [health EXCEPT ![hop[r].provider] = AfterSuccess(@)]
  /\ UNCHANGED <<route, queue, hop, used, aborted>>

StreamEnds(r) ==
  /\ pc[r] = "streaming"
  /\ events' = [events EXCEPT ![r] = Emit("logical_request", r, attempts[r])]
  /\ pc' = [pc EXCEPT ![r] = "done"]
  /\ UNCHANGED <<route, queue, hop, used, attempts, aborted, health>>

Retried(h) == [h EXCEPT !.retries = @ + 1, !.trigger = "reliability"]

Rotated(r, h) ==
  /\ used' = [used EXCEPT ![r][h.provider] = @ + 1]
  /\ queue' = [queue EXCEPT ![r] =
                 <<Hop0(h.provider, used[r][h.provider] + 2, "rotation")>> \o @]

(* advanceAfterFailure() and nextFallbackHop().                            *)
Advance(r, c) ==
  LET h == hop[r] IN
  \/ /\ PreStreamRetry(c, h)
     /\ queue' = [queue EXCEPT ![r] = <<Retried(h)>> \o @]
     /\ pc' = [pc EXCEPT ![r] = "superseded"]
     /\ UNCHANGED used
  \/ /\ ~PreStreamRetry(c, h)
     /\ Rotates(c, h, r)
     /\ Rotated(r, h)
     /\ pc' = [pc EXCEPT ![r] = "superseded"]
  \/ /\ ~PreStreamRetry(c, h)
     /\ FallsBack(c, r)
     /\ queue' = [queue EXCEPT ![r][1].trigger = "reliability"]
     /\ pc' = [pc EXCEPT ![r] = "superseded"]
     /\ UNCHANGED used
  \/ /\ ~PreStreamRetry(c, h) /\ ~Rotates(c, h, r) /\ ~FallsBack(c, r)
     /\ pc' = [pc EXCEPT ![r] = "failed"]
     /\ UNCHANGED <<queue, used>>

CallFails(r, c) ==
  /\ pc[r] = "waiting"
  /\ MayEndIn(r, c)
  /\ attempts' = [attempts EXCEPT ![r] = Completed(r, c)]
  /\ health' = [health EXCEPT ![hop[r].provider] =
                  IF CountsAgainstProvider(c) THEN AfterFailure(@) ELSE @]
  /\ Advance(r, c)
  /\ UNCHANGED <<route, hop, events, aborted>>

(* Mutant: wait for the cooldown instead of skipping the provider.         *)
NextHopWaits(r) ==
  /\ pc[r] = "superseded"
  /\ IsAvailable(queue[r][1].provider)
  /\ Loop(r, queue[r], Emit("attempt", r, attempts[r]))
  /\ UNCHANGED <<route, used, aborted>>

(* The backoff is over: report the superseded attempt and go on.           *)
NextHop(r) ==
  /\ pc[r] = "superseded"
  /\ Loop(r, queue[r], Emit("attempt", r, attempts[r]))
  /\ UNCHANGED <<route, used, aborted>>

FinalError(r) ==
  /\ pc[r] = "failed"
  /\ events' = [events EXCEPT ![r] = Emit("logical_request", r, attempts[r])]
  /\ pc' = [pc EXCEPT ![r] = "done"]
  /\ UNCHANGED <<route, queue, hop, used, attempts, aborted, health>>

-----------------------------------------------------------------------------

NoHop == Hop0(CHOOSE p \in Providers : TRUE, 0, "none")

Init ==
  /\ pc = [r \in Requests |-> "new"]
  /\ route = [r \in Requests |-> <<>>]
  /\ queue = [r \in Requests |-> <<>>]
  /\ hop = [r \in Requests |-> NoHop]
  /\ used = [r \in Requests |-> [p \in Providers |-> 0]]
  /\ attempts = [r \in Requests |-> <<>>]
  /\ events = [r \in Requests |-> <<>>]
  /\ aborted = [r \in Requests |-> FALSE]
  /\ health = [p \in Providers |-> [fails |-> 0, cooled |-> "no"]]

CallEnds(r) == CallSucceeds(r) \/ \E c \in Failures : CallFails(r, c)

GoesOn(r) == NextHop(r) \/ FinalError(r) \/ StreamEnds(r)

Next ==
  \/ \E r \in Requests : Start(r) \/ CallEnds(r) \/ GoesOn(r) \/ Abort(r)
  \/ \E p \in Providers : FailureExpires(p) \/ CooldownElapses(p)

Spec == Init /\ [][Next]_vars

(* A call ends (fetch has its own timeouts), a backoff timer fires, and a  *)
(* stream ends.                                                            *)
Fairness == \A r \in Requests : WF_vars(CallEnds(r)) /\ WF_vars(GoesOn(r))

FairSpec == Spec /\ Fairness

-----------------------------------------------------------------------------

(* Every variable keeps its type, and no attempt names an account that its *)
(* provider does not have.                                                 *)
TypeOK ==
  /\ pc \in [Requests -> Steps]
  /\ route \in [Requests -> Seq(Providers)]
  /\ queue \in [Requests -> Seq(Hop)]
  /\ hop \in [Requests -> Hop]
  /\ used \in [Requests -> [Providers -> Nat]]
  /\ attempts \in [Requests -> Seq(Attempt)]
  /\ \A r \in Requests : \A i \in DOMAIN attempts[r] :
       attempts[r][i].account <= Accounts[attempts[r][i].provider]
  /\ events \in [Requests -> Seq(Event)]
  /\ aborted \in [Requests -> BOOLEAN]
  /\ health \in [Providers -> Health]

(* Every attempt is reported by exactly one event, in order, with its      *)
(* outcome; the last one by the logical-request event that closes the      *)
(* request, the ones before it by an attempt event before the next starts. *)
EveryAttemptReported ==
  \A r \in Requests :
    LET n == Len(attempts[r]) IN
    /\ Len(events[r]) = IF pc[r] \in {"new", "done"} THEN n ELSE n - 1
    /\ \A i \in DOMAIN events[r] :
         events[r][i] =
           [kind |-> IF pc[r] = "done" /\ i = n THEN "logical_request"
                     ELSE "attempt",
            attempt |-> i, outcome |-> attempts[r][i].outcome]

(* An attempt is superseded only after a failed login or a transient       *)
(* failure, never after a deterministic fault, a cancellation, a success   *)
(* or an answer without a dispatch; and the trigger of its successor tells *)
(* which it was (FallbackTrigger): a rotation when the credentials of the  *)
(* same provider failed, unless that provider is cooling down by now and   *)
(* its other models are passed over as well; only a first attempt lacks a  *)
(* trigger or is a downgrade.                                              *)
SupersededForCause ==
  \A r \in Requests : \A i \in 2 .. Len(attempts[r]) :
    LET a == attempts[r][i]
        b == attempts[r][i - 1] IN
    /\ b.outcome = "auth" \/ (Reliability(b.outcome) /\ ~NeverRetried(b.outcome))
    /\ a.trigger \in {"rotation", "reliability"}
    /\ a.trigger = "rotation" => b.outcome = "auth" /\ b.provider = a.provider
    /\ b.outcome = "auth" /\ b.provider = a.provider =>
         a.trigger = "rotation" \/ a.outcome = "cooling"

(* A request fails on a transient error, or because everything left is     *)
(* cooling down, only when no candidate of its route is left.              *)
TransientFailureExhaustsRoute ==
  \A r \in Requests :
    pc[r] \in {"failed", "done"} /\ Current(r).outcome \in
      {"overloaded", "connection", "cooling"} => queue[r] = <<>>

(* Once its client is gone a request starts at most one more attempt, and  *)
(* that one fails without reaching an upstream.                            *)
AbortEndsRequest ==
  \A r \in Requests :
    LET late == {i \in DOMAIN attempts[r] : attempts[r][i].late} IN
    /\ late \subseteq {Len(attempts[r])}
    /\ \A i \in late : attempts[r][i].outcome \in
         {"pending", "cancelled", "cooling", "unregistered"}

(* The calls to a provider that failed for a transient reason.             *)
TransientFailures(p) ==
  UNION {{r} \X {i \in DOMAIN attempts[r] :
                    /\ attempts[r][i].provider = p
                    /\ Reliability(attempts[r][i].outcome)} : r \in Requests}

(* A provider cools down only after as many transient failures of its own  *)
(* as the threshold, whoever made the calls: faults of clients, their      *)
(* requests and their disconnects never trip the breaker.                  *)
CooldownIsEarned ==
  \A p \in Providers :
    health[p].cooled # "no" =>
      Cardinality(TransientFailures(p)) >= AllowedFails

(* Every request that was started is answered and reported.                *)
EveryRequestAnswered ==
  \A r \in Requests : pc[r] # "new" ~> pc[r] = "done"

=============================================================================
