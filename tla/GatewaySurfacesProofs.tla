------------------------ MODULE GatewaySurfacesProofs -------------------------
(***************************************************************************)
(* The gateway's surfaces, for every configuration, registry, set of       *)
(* clients and of upstream answers: a request ends with the one event that *)
(* tells what it was answered, a cache hit repeats an answer that was      *)
(* given to the same question, the cache makes room by age alone, what     *)
(* reaches an upstream carries the tools that may, goes where the plan     *)
(* says and says what the client said, and what the upstream answered is   *)
(* told whole.                                                             *)
(*                                                                         *)
(* IInv says of a request how far its handler can be with the events, the  *)
(* attempts and the key it holds, and of a row of the cache which finished *)
(* request put it there.  CarryInv says of a body that was sent which      *)
(* translation of the client's it is, and of an answer that it is whole.   *)
(***************************************************************************)
EXTENDS GatewaySurfaces, FiltersProofs, FiniteSetTheorems, FunctionTheorems, SequenceTheorems

------------------------------------------------------------------------------
(* The inductive invariant                                                 *)

RequestFields ==
  {"pc", "body", "hops", "reason", "key", "sent", "upstream", "status", "form",
   "reply", "events", "at"}

(* A handler's record, with its list of attempts a sequence.               *)
IsRequest(s) ==
  /\ s = [f \in RequestFields |-> s[f]]
  /\ s.sent \in Seq({s.sent[i] : i \in DOMAIN s.sent})

(* What EventTellsTheAnswer asks of a finished request's event.            *)
Tells(s, e) ==
  /\ (e.outcome \in {"success", "cache_hit"}) = (s.status = 200)
  /\ e.exported = (e.outcome # "cache_hit")
  /\ e.outcome = "success" => s.sent # <<>> /\ s.upstream # NoAnswer
  /\ e.outcome \in {"cache_hit", "budget_exceeded", "policy_rejected"} => s.sent = <<>>

(* A handler that asks an upstream, or relays its stream, was planned, has *)
(* an attempt and no event yet.                                            *)
UnderWay(s, planned) == planned /\ s.sent # <<>> /\ s.events = <<>>

(* How a finished request was reported: with one event, or with none.      *)
Reported(s, q, planned) ==
  IF ~ planned \/ q.surface = "count_tokens" THEN s.events = <<>>
  ELSE \E e \in {s.events[1]} : s.events = <<e>> /\ Tells(s, e)

RequestInv(s, q, planned) ==
  /\ IsRequest(s)
  /\ s.pc \in {"new", "waiting", "streaming", "done"}
  /\ s.pc = "new" => s = Idle(q.body)
  /\ s.pc = "waiting" =>
       /\ UnderWay(s, planned)
       /\ s.hops[1].provider \in Registered /\ s.key \in {NoKey, CacheKey(q)}
  /\ s.pc = "streaming" =>
       /\ UnderWay(s, planned)
       /\ q.surface # "count_tokens" /\ s.status = 200 /\ s.upstream # NoAnswer
  /\ s.pc = "done" => Reported(s, q, planned)

RequestsInv ==
  /\ req = [r \in DOMAIN inbox |-> req[r]]
  /\ \A r \in DOMAIN inbox : RequestInv(req[r], inbox[r], Planned(r))

(* Request r was answered, whole, what the row under k holds.              *)
Stored(row, k, s, q) ==
  /\ s.pc = "done" /\ s.upstream # NoAnswer
  /\ s.form = IF q.body.stream THEN "sse" ELSE "json"
  /\ CacheKey(q) = k
  /\ s.reply = row.answer /\ s.at = row.created

RowInv(k) ==
  /\ k # NoKey
  /\ table[k].created \in Nat /\ table[k].created <= now
  /\ table[k].expires = table[k].created + CacheTtl
  /\ SizeOf(table[k].answer) \in Nat
  /\ \E r \in DOMAIN inbox : Stored(table[k], k, req[r], inbox[r])

CacheInv ==
  /\ now \in Nat
  /\ table = [k \in DOMAIN table |-> table[k]] /\ IsFiniteSet(DOMAIN table)
  /\ TotalSize(table) <= CacheBudget
  /\ \A k \in DOMAIN table : RowInv(k)

IInv == RequestsInv /\ CacheInv /\ HitIsDeserved

------------------------------------------------------------------------------
(* What the handlers make of a request's record                            *)

LEMMA IdleRequest ==
  ASSUME NEW b
  PROVE  LET t == Idle(b) IN
         /\ IsRequest(t) /\ t.pc = "new" /\ t.events = <<>> /\ t.sent = <<>>
         /\ t.upstream = NoAnswer /\ t.at = 0
<1> DEFINE t == Idle(b)
<1>1. t = [f \in RequestFields |-> t[f]]
  BY DEF Idle, RequestFields
<1>2. t.sent = <<>> /\ t.pc = "new" /\ t.events = <<>> /\ t.upstream = NoAnswer /\ t.at = 0
  BY DEF Idle
<1>3. t.sent \in Seq({t.sent[i] : i \in DOMAIN t.sent})
  <2> HIDE DEF t
  <2> QED BY <1>2
<1> QED BY <1>1, <1>2, <1>3 DEF IsRequest

(* Ending a request leaves everything but the answer alone.                *)
LEMMA EndedRequest ==
  ASSUME NEW s, IsRequest(s), NEW status, NEW es
  PROVE  LET t == Ended(s, status, es) IN
         /\ IsRequest(t)
         /\ t.pc = "done" /\ t.status = status /\ t.at = now /\ t.form = "json"
         /\ t.events = s.events \o es
         /\ t.sent = s.sent /\ t.upstream = s.upstream /\ t.key = s.key
         /\ t.hops = s.hops
<1> DEFINE t == Ended(s, status, es)
<1>1. t = [f \in RequestFields |-> t[f]]
  BY DEF Ended, RequestFields, IsRequest
<1>2. /\ t.pc = "done" /\ t.status = status /\ t.at = now /\ t.form = "json"
      /\ t.events = s.events \o es
      /\ t.sent = s.sent /\ t.upstream = s.upstream /\ t.key = s.key
      /\ t.hops = s.hops
  BY DEF Ended, RequestFields, IsRequest
<1>3. IsRequest(t)
  <2> HIDE DEF t
  <2> QED BY <1>1, <1>2 DEF IsRequest
<1> QED BY <1>2, <1>3

LEMMA SameAttempts ==
  ASSUME NEW s, IsRequest(s), NEW t, t = [f \in RequestFields |-> t[f]], t.sent = s.sent
  PROVE  IsRequest(t)
<1> DEFINE w == s.sent
<1>1. w \in Seq({w[i] : i \in DOMAIN w})
  BY DEF IsRequest
<1>2. t.sent = w
  OBVIOUS
<1> HIDE DEF w
<1> QED BY <1>1, <1>2 DEF IsRequest

LEMMA AppendedSequence ==
  ASSUME NEW s, s \in Seq({s[i] : i \in DOMAIN s}), NEW x
  PROVE  LET w == Append(s, x) IN
         w # <<>> /\ w \in Seq({w[i] : i \in DOMAIN w})
<1> DEFINE w == Append(s, x)
<1> DEFINE S == {s[i] : i \in DOMAIN s} \cup {x}
<1>1. s \in Seq(S) /\ x \in S
  OBVIOUS
<1> HIDE DEF S
<1>2. /\ w \in Seq(S) /\ Len(w) = Len(s) + 1 /\ Len(s) \in Nat
  BY <1>1
<1> HIDE DEF w
<1>3. w # <<>>
  BY <1>2
<1>4. w = [i \in 1..Len(w) |-> w[i]] /\ DOMAIN w = 1..Len(w) /\ Len(w) \in Nat
  BY <1>2
<1>5. w \in Seq({w[i] : i \in DOMAIN w})
  BY <1>4
<1> QED BY <1>3, <1>5 DEF w

LEMMA OneEvent ==
  ASSUME NEW es, es = <<>>, NEW more, more = <<>> \/ \E e : more = <<e>>
  PROVE  es \o more = more
OBVIOUS

(* A handler that waits for its first hop.                                 *)
Asking(t, s) ==
  /\ IsRequest(t)
  /\ t.pc = "waiting" /\ t.sent # <<>> /\ t.events = s.events
  /\ t.hops[1].provider \in Registered
  /\ t.key = s.key

LEMMA AskedRequest ==
  ASSUME NEW s, IsRequest(s), NEW hops, hops[1].provider \in Registered, NEW x
  PROVE  Asking([s EXCEPT !.pc = "waiting", !.hops = hops, !.sent = Append(@, x)], s)
<1> DEFINE w == Append(s.sent, x)
<1> DEFINE t == [s EXCEPT !.pc = "waiting", !.hops = hops, !.sent = w]
<1>1. t = [f \in RequestFields |-> t[f]]
  BY DEF RequestFields, IsRequest
<1>2. /\ t.pc = "waiting" /\ t.hops = hops /\ t.sent = w
      /\ t.events = s.events /\ t.key = s.key
  BY DEF RequestFields, IsRequest
<1>3. w # <<>> /\ w \in Seq({w[i] : i \in DOMAIN w})
  <2> DEFINE u == s.sent
  <2>1. u \in Seq({u[i] : i \in DOMAIN u})
    BY DEF IsRequest
  <2> HIDE DEF u
  <2>2. LET v == Append(u, x) IN v # <<>> /\ v \in Seq({v[i] : i \in DOMAIN v})
    BY ZenonT(40), <2>1, AppendedSequence
  <2> QED BY <2>2 DEF u
<1>4. Asking(t, s)
  <2> HIDE DEF t, w
  <2> QED BY <1>1, <1>2, <1>3 DEF IsRequest, Asking
<1> QED BY <1>4

(* A refusal by the gateway itself: status and event fit.                  *)
Refused(t, surface, s) ==
  /\ IsRequest(t)
  /\ t.pc = "done" /\ t.status # 200 /\ t.at = now
  /\ t.sent = s.sent
  /\ IF surface = "count_tokens" THEN t.events = <<>>
     ELSE \E outcome \in {"capability_unsupported", "policy_rejected", "budget_exceeded"} :
            /\ t.events = <<Event(outcome, TRUE)>>
            /\ outcome = "capability_unsupported" \/ s.sent = <<>>

LEMMA DispatchSays ==
  ASSUME NEW s, IsRequest(s), s.events = <<>>, NEW surface, NEW hops
  PROVE  LET t == Dispatch(s, surface, hops)
         IN  Asking(t, s) \/ Refused(t, surface, s)
<1> DEFINE t == Dispatch(s, surface, hops)
<1>1. CASE hops[1].provider \in Registered
  <2>1. Asking(t, s)
    BY <1>1, AskedRequest DEF Dispatch
  <2> QED BY <2>1
<1>2. CASE hops[1].provider \notin Registered
  <2> DEFINE h == [s EXCEPT !.hops = hops]
  <2> DEFINE es == IF surface = "count_tokens" THEN <<>>
                   ELSE <<Event("capability_unsupported", TRUE)>>
  <2>1. t = Ended(h, 404, es)
    BY <1>2 DEF Dispatch
  <2>2. h = [f \in RequestFields |-> h[f]] /\ h.events = s.events /\ h.sent = s.sent
    BY DEF RequestFields, IsRequest
  <2>3. IsRequest(h)
    <3> HIDE DEF h
    <3> QED BY <2>2 DEF IsRequest
  <2>4. h.events \o es = es
    <3> HIDE DEF h
    <3> QED BY <2>2, OneEvent
  <2>5. Refused(t, surface, s)
    <3>0. IF surface = "count_tokens" THEN es = <<>>
          ELSE es = <<Event("capability_unsupported", TRUE)>>
      OBVIOUS
    <3> HIDE DEF h, t, es
    <3>1. /\ IsRequest(t) /\ t.pc = "done" /\ t.status = 404 /\ t.at = now
          /\ t.events = h.events \o es /\ t.sent = h.sent
      BY <2>1, <2>3, EndedRequest
    <3>2. t.events = es /\ t.status # 200 /\ t.sent = s.sent
      BY <3>1, <2>2, <2>4
    <3>3. CASE surface = "count_tokens"
      BY <3>0, <3>1, <3>2, <3>3 DEF Refused
    <3>4. CASE surface # "count_tokens"
      BY <3>0, <3>1, <3>2, <3>4 DEF Refused
    <3> QED BY <3>3, <3>4
  <2> QED BY <2>5
<1> QED BY <1>1, <1>2

LEMMA EndedIsRefused ==
  ASSUME NEW s, IsRequest(s), s.events = <<>>, NEW surface, surface # "count_tokens",
         NEW status, status # 200,
         NEW outcome \in {"capability_unsupported", "policy_rejected", "budget_exceeded"},
         outcome = "capability_unsupported" \/ s.sent = <<>>
  PROVE  Refused(Ended(s, status, <<Event(outcome, TRUE)>>), surface, s)
<1> DEFINE e == Event(outcome, TRUE)
<1> DEFINE t == Ended(s, status, <<e>>)
<1>1. /\ IsRequest(t) /\ t.pc = "done" /\ t.status = status /\ t.at = now
      /\ t.events = s.events \o <<e>> /\ t.sent = s.sent
  <2> HIDE DEF e
  <2> QED BY EndedRequest
<1>2. s.events \o <<e>> = <<e>>
  <2> HIDE DEF e
  <2> QED BY OneEvent
<1>3. t.events = <<Event(outcome, TRUE)>>
  <2> HIDE DEF t
  <2> QED BY <1>1, <1>2
<1> HIDE DEF t
<1>4. Refused(t, surface, s)
  BY <1>1, <1>3 DEF Refused
<1> QED BY <1>4 DEF t

LEMMA DecidedSays ==
  ASSUME NEW s, IsRequest(s), s.events = <<>>, s.sent = <<>>, NEW q, NEW hops, NEW decided
  PROVE  LET t == Decided(s, q, hops, decided)
         IN  (Asking(t, s) \/ Refused(t, q.surface, s))
<1> DEFINE t == Decided(s, q, hops, decided)
<1> DEFINE unasked == \/ q.surface = "count_tokens"
                      \/ q.surface # "messages" /\ hops[1].provider \notin Registered
<1> DEFINE h == [s EXCEPT !.body.tools = decided.tools]
<1>1. CASE ~ unasked /\ decided.action = "reject"
  <2>1. t = Ended(s, 403, <<Event("policy_rejected", TRUE)>>)
    BY <1>1 DEF Decided
  <2>2. q.surface # "count_tokens"
    BY <1>1
  <2>3. Refused(Ended(s, 403, <<Event("policy_rejected", TRUE)>>), q.surface, s)
    <3> DEFINE o == "policy_rejected"
    <3> DEFINE status == 403
    <3>1. /\ status # 200
          /\ o \in {"capability_unsupported", "policy_rejected", "budget_exceeded"}
          /\ o = "capability_unsupported" \/ s.sent = <<>>
      OBVIOUS
    <3> HIDE DEF o, status
    <3>2. Refused(Ended(s, status, <<Event(o, TRUE)>>), q.surface, s)
      BY <2>2, <3>1, EndedIsRefused
    <3> QED BY <3>2 DEF o, status
  <2> QED BY <2>1, <2>3
<1>2. CASE /\ ~ unasked /\ decided.action # "reject"
           /\ q.surface = "responses" /\ ~ HostedPass(q.body.hosted, hops[1].provider)
  <2>1. t = Ended(s, 400, <<Event("capability_unsupported", TRUE)>>)
    BY <1>2 DEF Decided
  <2>2. q.surface # "count_tokens"
    BY <1>2
  <2>3. Refused(Ended(s, 400, <<Event("capability_unsupported", TRUE)>>), q.surface, s)
    <3> DEFINE o == "capability_unsupported"
    <3> DEFINE status == 400
    <3>1. /\ status # 200
          /\ o \in {"capability_unsupported", "policy_rejected", "budget_exceeded"}
          /\ o = "capability_unsupported" \/ s.sent = <<>>
      OBVIOUS
    <3> HIDE DEF o, status
    <3>2. Refused(Ended(s, status, <<Event(o, TRUE)>>), q.surface, s)
      BY <2>2, <3>1, EndedIsRefused
    <3> QED BY <3>2 DEF o, status
  <2> QED BY <2>1, <2>3
<1>3. CASE /\ ~ (~ unasked /\ decided.action = "reject")
           /\ ~ (/\ ~ unasked /\ decided.action # "reject"
                 /\ q.surface = "responses" /\ ~ HostedPass(q.body.hosted, hops[1].provider))
  <2> DEFINE g == IF unasked THEN s ELSE h
  <2>1. t = Dispatch(g, q.surface, hops)
    BY <1>3 DEF Decided
  <2>2. h = [f \in RequestFields |-> h[f]] /\ h.events = s.events /\ h.sent = s.sent
        /\ h.key = s.key
    BY DEF RequestFields, IsRequest
  <2>3. IsRequest(h)
    <3> HIDE DEF h
    <3> QED BY <2>2 DEF IsRequest
  <2>4. IsRequest(g) /\ g.events = s.events /\ g.sent = s.sent /\ g.key = s.key
    <3> HIDE DEF h, unasked
    <3> QED BY <2>2, <2>3
  <2>5. Asking(t, g) \/ Refused(t, q.surface, g)
    <3> HIDE DEF g, t
    <3> QED BY <2>1, <2>4, DispatchSays
  <2>6. Asking(t, s) \/ Refused(t, q.surface, s)
    <3> HIDE DEF g, t
    <3> QED BY <2>4, <2>5 DEF Asking, Refused
  <2> QED BY <2>6
<1> QED
  <2> HIDE DEF t, unasked
  <2> QED BY <1>1, <1>2, <1>3

(* What Start makes of a new request: it is not understood, it is answered *)
(* from the cache, it asks an upstream, or it is refused.                  *)
NotUnderstood(t) == IsRequest(t) /\ t.pc = "done" /\ t.events = <<>> /\ t.at = now

Replayed(t, q) ==
  /\ IsRequest(t) /\ q.surface = "messages"
  /\ t.pc = "done" /\ t.status = 200 /\ t.at = now
  /\ t.events = <<Event("cache_hit", FALSE)>> /\ t.sent = <<>>
  /\ CacheHit(table, CacheKey(q), now)
  /\ t.reply = table[CacheKey(q)].answer

Asks(t, q) ==
  /\ IsRequest(t)
  /\ t.pc = "waiting" /\ t.sent # <<>> /\ t.events = <<>>
  /\ t.hops[1].provider \in Registered
  /\ t.key \in {NoKey, CacheKey(q)}

LEMMA NothingSent ==
  ASSUME NEW s, s = [f \in RequestFields |-> s[f]], s.sent = <<>>
  PROVE  IsRequest(s)
<1> DEFINE w == s.sent
<1>1. w = <<>>
  OBVIOUS
<1> HIDE DEF w
<1>2. w \in Seq({w[i] : i \in DOMAIN w})
  BY <1>1
<1> QED BY <1>2 DEF w, IsRequest

LEMMA AuthorizedSays ==
  ASSUME NEW s, IsRequest(s), s.events = <<>>, s.sent = <<>>, NEW q,
         s.key \in {NoKey, CacheKey(q)}, NEW hops, NEW b
  PROVE  LET t == Authorized(s, q, hops)
         IN  Asks(t, q) \/ Refused(t, q.surface, Idle(b))
<1> DEFINE t == Authorized(s, q, hops)
<1>1. Asking(t, s) \/ Refused(t, q.surface, s)
  <2> DEFINE decided == ToolsOf(q)
  <2>1. t = Decided(s, q, hops, decided)
    BY DEF Authorized
  <2> HIDE DEF decided, t
  <2> QED BY <2>1, DecidedSays
<1> HIDE DEF t
<1>2. Asking(t, s) => Asks(t, q)
  BY DEF Asking, Asks
<1>3. Refused(t, q.surface, s) => Refused(t, q.surface, Idle(b))
  BY IdleRequest DEF Refused
<1>4. Asks(t, q) \/ Refused(t, q.surface, Idle(b))
  BY <1>1, <1>2, <1>3
<1> QED BY <1>4 DEF t

LEMMA StartMessagesSays ==
  ASSUME NEW q, q.surface = "messages", NEW decision, NEW blocked \in BOOLEAN,
         NEW spent \in BOOLEAN
  PROVE  LET t == StartMessages(q, decision, blocked, spent)
         IN  Asks(t, q) \/ Replayed(t, q) \/ Refused(t, q.surface, Idle(q.body))
<1> DEFINE t == StartMessages(q, decision, blocked, spent)
<1> DEFINE hops == <<Downgraded(decision, spent)>> \o decision.fallbacks
<1> DEFINE key == CacheKey(q)
<1> DEFINE s == [Idle(q.body) EXCEPT !.reason = decision.reason, !.key = key,
                                     !.hops = hops]
<1>1. IsRequest(s) /\ s.events = <<>> /\ s.sent = <<>> /\ s.key = key
  <2> HIDE DEF key, hops
  <2>1. s = [f \in RequestFields |-> s[f]] /\ s.events = <<>> /\ s.sent = <<>> /\ s.key = key
    BY DEF Idle, RequestFields
  <2> HIDE DEF s
  <2> QED BY <2>1, NothingSent
<1>2. CASE CacheHit(table, key, now)
  <2> DEFINE e == Event("cache_hit", FALSE)
  <2> DEFINE h == Ended(s, 200, <<e>>)
  <2> DEFINE w == [h EXCEPT !.reply = table[key].answer]
  <2>1. t = w
    BY <1>2 DEF StartMessages
  <2>2. /\ IsRequest(h) /\ h.pc = "done" /\ h.status = 200 /\ h.at = now
        /\ h.events = s.events \o <<e>> /\ h.sent = s.sent
    <3> DEFINE status == 200
    <3> HIDE DEF s, e, status
    <3>1. LET u == Ended(s, status, <<e>>) IN
          /\ IsRequest(u) /\ u.pc = "done" /\ u.status = status /\ u.at = now
          /\ u.events = s.events \o <<e>> /\ u.sent = s.sent
      BY <1>1, EndedRequest
    <3> QED BY <3>1 DEF status
  <2>3. h.events = <<e>> /\ h.sent = <<>>
    <3> HIDE DEF s, e, h
    <3> QED BY <1>1, <2>2, OneEvent
  <2> HIDE DEF h
  <2>4. /\ w = [f \in RequestFields |-> w[f]] /\ w.pc = h.pc /\ w.status = h.status
        /\ w.at = h.at /\ w.events = h.events /\ w.sent = h.sent
        /\ w.reply = table[key].answer
    <3> HIDE DEF key
    <3> QED BY <2>2 DEF IsRequest, RequestFields
  <2>5. Replayed(w, q)
    <3> HIDE DEF w
    <3>1. IsRequest(w)
      BY <2>3, <2>4, NothingSent
    <3> QED BY <1>2, <2>2, <2>3, <2>4, <3>1 DEF Replayed
  <2> QED BY <2>1, <2>5
<1>3. CASE ~ CacheHit(table, key, now) /\ blocked
  <2> DEFINE o == "budget_exceeded"
  <2> DEFINE status == 429
  <2>1. t = Ended(s, status, <<Event(o, TRUE)>>)
    BY <1>3 DEF StartMessages
  <2>2. /\ status # 200 /\ q.surface # "count_tokens"
        /\ o \in {"capability_unsupported", "policy_rejected", "budget_exceeded"}
    OBVIOUS
  <2> HIDE DEF o, status, s, t
  <2>3. Refused(t, q.surface, s)
    BY <1>1, <2>1, <2>2, EndedIsRefused
  <2>4. Refused(t, q.surface, Idle(q.body))
    BY <2>3, <1>1, IdleRequest DEF Refused
  <2> QED BY <2>4 DEF t
<1>4. CASE ~ CacheHit(table, key, now) /\ ~ blocked
  <2>1. t = Authorized(s, q, hops)
    BY <1>4 DEF StartMessages
  <2> DEFINE b == q.body
  <2>2. s.key \in {NoKey, CacheKey(q)}
    <3> HIDE DEF s
    <3> QED BY <1>1
  <2>3. Asks(t, q) \/ Refused(t, q.surface, Idle(b))
    <3> HIDE DEF s, t, hops, b
    <3>1. IsRequest(s) /\ s.events = <<>> /\ s.sent = <<>>
      BY <1>1
    <3>2. LET u == Authorized(s, q, hops)
          IN  Asks(u, q) \/ Refused(u, q.surface, Idle(b))
      BY <3>1, <2>2, AuthorizedSays
    <3> QED BY <2>1, <3>2
  <2> QED BY <2>3
<1> QED
  <2> HIDE DEF t, key
  <2> QED BY <1>2, <1>3, <1>4

LEMMA StartSays ==
  ASSUME NEW q, NEW decision, NEW blocked \in BOOLEAN, NEW spent \in BOOLEAN
  PROVE  LET t == Start(q, decision, blocked, spent) IN
         IF ~ Parsed(q) \/ decision = Unresolved THEN NotUnderstood(t)
         ELSE Asks(t, q) \/ Replayed(t, q) \/ Refused(t, q.surface, Idle(q.body))
<1> DEFINE t == Start(q, decision, blocked, spent)
<1>1. CASE ~ Parsed(q) \/ decision = Unresolved
  <2> DEFINE s == Idle(q.body)
  <2> DEFINE status == 400
  <2>1. t = Ended(s, status, <<>>)
    BY <1>1 DEF Start
  <2>2. IsRequest(s) /\ s.events = <<>>
    BY IdleRequest
  <2> HIDE DEF s, status, t
  <2>3. NotUnderstood(t)
    <3> DEFINE none == <<>>
    <3>1. s.events \o none = <<>>
      BY <2>2, OneEvent
    <3> HIDE DEF none
    <3>2. LET v == Ended(s, status, none) IN
          IsRequest(v) /\ v.pc = "done" /\ v.at = now /\ v.events = s.events \o none
      <4>1. IsRequest(s)
        BY <2>2
      <4> QED BY <4>1, EndedRequest
    <3>3. t = Ended(s, status, none)
      BY <2>1 DEF none
    <3> QED BY <3>1, <3>2, <3>3 DEF NotUnderstood
  <2> QED BY <1>1, <2>3 DEF t
<1>2. CASE /\ ~ (~ Parsed(q) \/ decision = Unresolved)
           /\ q.surface = "messages"
  <2>1. t = StartMessages(q, decision, blocked, spent)
    BY <1>2 DEF Start
  <2> HIDE DEF t
  <2>2. LET u == StartMessages(q, decision, blocked, spent)
        IN  Asks(u, q) \/ Replayed(u, q) \/ Refused(u, q.surface, Idle(q.body))
    BY <1>2, StartMessagesSays
  <2>3. Asks(t, q) \/ Replayed(t, q) \/ Refused(t, q.surface, Idle(q.body))
    BY <2>1, <2>2
  <2> QED BY <1>2, <2>3 DEF t
<1>3. CASE /\ ~ (~ Parsed(q) \/ decision = Unresolved)
           /\ q.surface # "messages"
  <2> DEFINE hops == <<decision.primary>>
  <2> DEFINE s == [Idle(q.body) EXCEPT !.reason = decision.reason, !.hops = hops]
  <2> DEFINE b == q.body
  <2>1. t = Authorized(s, q, hops)
    BY <1>3 DEF Start
  <2>2. s = [f \in RequestFields |-> s[f]] /\ s.events = <<>> /\ s.sent = <<>> /\ s.key = NoKey
    <3> HIDE DEF hops
    <3> QED BY DEF Idle, RequestFields
  <2> HIDE DEF s, hops, b, t
  <2>3. IsRequest(s)
    BY <2>2, NothingSent
  <2>4. LET u == Authorized(s, q, hops)
        IN  Asks(u, q) \/ Refused(u, q.surface, Idle(b))
    <3>1. s.key \in {NoKey, CacheKey(q)}
      BY <2>2
    <3> QED BY <2>2, <2>3, <3>1, AuthorizedSays
  <2>5. Asks(t, q) \/ Replayed(t, q) \/ Refused(t, q.surface, Idle(b))
    BY <2>1, <2>4
  <2> QED BY <1>3, <2>5 DEF t, b
<1> QED
  <2> HIDE DEF t
  <2> QED BY <1>1, <1>2, <1>3

------------------------------------------------------------------------------
(* A step of one request leaves the others, and what they stored, alone.   *)

LEMMA KeySays ==
  ASSUME NEW q
  PROVE  /\ CacheKey(q) # NoKey =>
              /\ q.surface = "messages" /\ q.body.temperature = 0
              /\ CacheKey(q) = ComputeCacheKey(q.name, q.body)
         /\ q.surface = "messages" /\ q.body.temperature = 0 => CacheKey(q) # NoKey
<1>1. ComputeCacheKey(q.name, q.body) # NoKey
  <2>1. "model" \in DOMAIN ComputeCacheKey(q.name, q.body)
    BY DEF ComputeCacheKey
  <2>2. "model" \notin DOMAIN NoKey
    BY DEF NoKey
  <2> QED BY <2>1, <2>2
<1> QED BY <1>1 DEF CacheKey, ShouldBypass

LEMMA SameKeySameQuestion ==
  ASSUME NEW q, NEW p, CacheKey(q) = CacheKey(p), CacheKey(q) # NoKey
  PROVE  SameQuestion(q, p) /\ q.body.temperature = 0
<1>1. ComputeCacheKey(q.name, q.body) = ComputeCacheKey(p.name, p.body)
  BY KeySays
<1>2. q.body.temperature = 0
  BY KeySays
<1> DEFINE k == ComputeCacheKey(q.name, q.body)
<1> DEFINE l == ComputeCacheKey(p.name, p.body)
<1>3. /\ k.model = q.name /\ k.system = q.body.system /\ k.messages = q.body.turns
      /\ k.tools = q.body.tools /\ k.choice = q.body.choice
      /\ k.maxTokens = q.body.maxTokens /\ k.temperature = q.body.temperature
  BY DEF ComputeCacheKey
<1>4. /\ l.model = p.name /\ l.system = p.body.system /\ l.messages = p.body.turns
      /\ l.tools = p.body.tools /\ l.choice = p.body.choice
      /\ l.maxTokens = p.body.maxTokens /\ l.temperature = p.body.temperature
  BY DEF ComputeCacheKey
<1>5. k = l
  BY <1>1
<1> HIDE DEF k, l
<1> QED BY <1>2, <1>3, <1>4, <1>5 DEF SameQuestion

LEMMA EventFields ==
  ASSUME NEW outcome, NEW exported
  PROVE  /\ Event(outcome, exported).outcome = outcome
         /\ Event(outcome, exported).exported = exported
BY DEF Event

LEMMA TupleDiffers ==
  ASSUME NEW e, NEW h
  PROVE  (<<e>> = <<h>> => e = h) /\ <<>> # <<h>>
<1>1. <<e>>[1] = e /\ <<h>>[1] = h /\ Len(<<h>>) = 1 /\ Len(<<>>) = 0
  OBVIOUS
<1> QED BY <1>1

LEMMA OneReport ==
  ASSUME NEW t, NEW e, t.events = <<e>>, Tells(t, e), NEW q, NEW planned, planned,
         q.surface # "count_tokens"
  PROVE  Reported(t, q, planned)
<1>1. t.events[1] = e
  OBVIOUS
<1> QED BY <1>1 DEF Reported

(* An exported event that is no success is what the gateway says of a      *)
(* request that was not answered.                                          *)
LEMMA FailureReport ==
  ASSUME NEW t, NEW outcome, t.events = <<Event(outcome, TRUE)>>, t.status # 200,
         outcome \notin {"success", "cache_hit"},
         outcome \in {"budget_exceeded", "policy_rejected"} => t.sent = <<>>,
         NEW q, NEW planned, planned, q.surface # "count_tokens"
  PROVE  Reported(t, q, planned) /\ t.events # <<Event("cache_hit", FALSE)>>
<1> DEFINE e == Event(outcome, TRUE)
<1>1. e.outcome = outcome /\ e.exported = TRUE
  BY EventFields
<1>2. t.events = <<e>>
  OBVIOUS
<1> HIDE DEF e
<1>3. Tells(t, e)
  <2>1. (e.outcome \in {"success", "cache_hit"}) = FALSE
    BY <1>1
  <2>2. (t.status = 200) = FALSE
    OBVIOUS
  <2>3. (e.outcome # "cache_hit") = TRUE
    BY <1>1
  <2>4. e.outcome \in {"cache_hit", "budget_exceeded", "policy_rejected"} => t.sent = <<>>
    BY <1>1
  <2> QED BY <1>1, <2>1, <2>2, <2>3, <2>4 DEF Tells
<1>4. Reported(t, q, planned)
  BY <1>2, <1>3, OneReport
<1>5. t.events # <<Event("cache_hit", FALSE)>>
  <2> DEFINE h == Event("cache_hit", FALSE)
  <2>1. h.outcome = "cache_hit"
    BY DEF Event
  <2> HIDE DEF h
  <2>2. e # h
    BY <1>1, <2>1
  <2>3. t.events # <<h>>
    BY <1>2, <2>2, TupleDiffers
  <2> QED BY <2>3 DEF h
<1> QED BY <1>4, <1>5

LEMMA RefusedHolds ==
  ASSUME NEW t, NEW s, NEW q, Refused(t, q.surface, s), NEW planned, planned
  PROVE  /\ RequestInv(t, q, planned) /\ Reported(t, q, planned)
         /\ t.events # <<Event("cache_hit", FALSE)>>
<1>1. Reported(t, q, planned) /\ t.events # <<Event("cache_hit", FALSE)>>
  <2>1. CASE q.surface = "count_tokens"
    <3>1. t.events = <<>>
      BY <2>1 DEF Refused
    <3>2. Reported(t, q, planned)
      BY <2>1, <3>1 DEF Reported
    <3> DEFINE h == Event("cache_hit", FALSE)
    <3>3. t.events # <<h>>
      <4> HIDE DEF h
      <4> QED BY <3>1, TupleDiffers
    <3> QED BY <3>2, <3>3
  <2>2. CASE q.surface # "count_tokens"
    <3>1. PICK outcome \in {"capability_unsupported", "policy_rejected", "budget_exceeded"} :
            /\ t.events = <<Event(outcome, TRUE)>>
            /\ outcome = "capability_unsupported" \/ s.sent = <<>>
      BY <2>2 DEF Refused
    <3>2. t.status # 200 /\ t.sent = s.sent
      BY DEF Refused
    <3>3. outcome \in {"budget_exceeded", "policy_rejected"} => t.sent = <<>>
      BY <3>1, <3>2
    <3>4. outcome \notin {"success", "cache_hit"}
      OBVIOUS
    <3> QED BY <2>2, <3>1, <3>2, <3>3, <3>4, FailureReport
  <2> QED BY <2>1, <2>2
<1>2. RequestInv(t, q, planned)
  <2>1. IsRequest(t) /\ t.pc = "done"
    BY DEF Refused
  <2> QED BY <1>1, <2>1 DEF RequestInv
<1> QED BY <1>1, <1>2

------------------------------------------------------------------------------
(* The size of a table                                                     *)

Sized(rows) ==
  IsFiniteSet(DOMAIN rows) /\ \A k \in DOMAIN rows : SizeOf(rows[k].answer) \in Nat

LEMMA OneTo ==
  ASSUME NEW n \in Nat
  PROVE  IsFiniteSet(1..n) /\ Cardinality(1..n) = n
<1> DEFINE a == 1
<1>1. a \in Int /\ n \in Int /\ a = 1
  OBVIOUS
<1> HIDE DEF a
<1>2. IsFiniteSet(a..n) /\ Cardinality(a..n) = IF a > n THEN 0 ELSE n - a + 1
  BY <1>1, FS_Interval
<1> QED BY <1>1, <1>2

LEMMA UnitsFinite ==
  ASSUME NEW rows, Sized(rows)
  PROVE  IsFiniteSet(Units(rows))
<1> DEFINE D == DOMAIN rows
<1> DEFINE f == [k \in D |-> {k} \X (1..SizeOf(rows[k].answer))]
<1> DEFINE T == {f[k] : k \in D}
<1>1. IsFiniteSet(D)
  BY DEF Sized
<1>2. ASSUME NEW k \in D
      PROVE  IsFiniteSet(f[k])
  <2> DEFINE n == SizeOf(rows[k].answer)
  <2>1. n \in Nat
    BY DEF Sized
  <2> HIDE DEF n
  <2>2. IsFiniteSet({k}) /\ IsFiniteSet(1..n)
    BY <2>1, FS_Singleton, OneTo
  <2>3. IsFiniteSet({k} \X (1..n))
    BY <2>2, FS_Product
  <2> QED BY <2>3 DEF n
<1>3. Units(rows) = UNION T
  BY DEF Units
<1> HIDE DEF D
<1>4. IsFiniteSet(T)
  <2>1. f \in [D -> T]
    OBVIOUS
  <2>2. \A y \in T : \E x \in D : f[x] = y
    OBVIOUS
  <2> HIDE DEF f, T
  <2>3. f \in Surjection(D, T)
    BY <2>1, <2>2, Fun_IsSurj
  <2> QED BY <1>1, <2>3, FS_Surjection
<1>5. \A y \in T : IsFiniteSet(y)
  <2> HIDE DEF f
  <2> QED BY <1>2
<1> HIDE DEF T
<1>6. IsFiniteSet(UNION T)
  BY <1>4, <1>5, FS_UNION
<1> QED BY <1>3, <1>6

(* What is stored fits in the whole, and less is not larger.               *)
LEMMA SizesAdd ==
  ASSUME NEW rows, Sized(rows)
  PROVE  /\ TotalSize(rows) \in Nat
         /\ \A k \in DOMAIN rows : SizeOf(rows[k].answer) <= TotalSize(rows)
         /\ \A K \in SUBSET DOMAIN rows :
              Sized(Restrict(rows, K)) /\ TotalSize(Restrict(rows, K)) <= TotalSize(rows)
<1>1. IsFiniteSet(Units(rows))
  BY UnitsFinite
<1>2. TotalSize(rows) \in Nat
  BY <1>1, FS_CardinalityType DEF TotalSize
<1>3. ASSUME NEW k \in DOMAIN rows
      PROVE  SizeOf(rows[k].answer) <= TotalSize(rows)
  <2> DEFINE n == SizeOf(rows[k].answer)
  <2> DEFINE U == {k} \X (1..n)
  <2>1. n \in Nat
    BY DEF Sized
  <2>2. U \in SUBSET Units(rows)
    BY DEF Units
  <2> HIDE DEF n
  <2>3. /\ IsFiniteSet({k}) /\ Cardinality({k}) = 1
        /\ IsFiniteSet(1..n) /\ Cardinality(1..n) = n
    BY <2>1, FS_Singleton, OneTo
  <2>4. Cardinality(U) = 1 * n
    BY ZenonT(40), <2>3, FS_Product
  <2> HIDE DEF U
  <2>5. Cardinality(U) <= Cardinality(Units(rows))
    BY <1>1, <2>2, FS_Subset
  <2>6. n <= TotalSize(rows)
    BY <2>1, <2>4, <2>5 DEF TotalSize
  <2> QED BY <2>6 DEF n
<1>4. ASSUME NEW K \in SUBSET DOMAIN rows
      PROVE  /\ Sized(Restrict(rows, K))
             /\ TotalSize(Restrict(rows, K)) <= TotalSize(rows)
  <2> DEFINE less == Restrict(rows, K)
  <2>1. DOMAIN less = K /\ \A k \in K : less[k] = rows[k]
    BY DEF Restrict
  <2>2. IsFiniteSet(DOMAIN rows)
    BY DEF Sized
  <2>3. IsFiniteSet(K)
    BY <2>2, FS_Subset
  <2> HIDE DEF less
  <2>4. Sized(less)
    BY <2>1, <2>3 DEF Sized
  <2>5. Units(less) \in SUBSET Units(rows)
    BY <2>1 DEF Units
  <2>6. Cardinality(Units(less)) <= Cardinality(Units(rows))
    BY <1>1, <2>5, FS_Subset
  <2> QED BY <2>4, <2>6 DEF TotalSize, less
<1> QED BY <1>2, <1>3, <1>4

LEMMA EmptyHasNoSize ==
  ASSUME NEW rows, DOMAIN rows = {}
  PROVE  TotalSize(rows) = 0 /\ Sized(rows)
<1>1. Units(rows) = {}
  BY DEF Units
<1> QED BY <1>1, FS_EmptySet DEF TotalSize, Sized

------------------------------------------------------------------------------
(* A step of one request leaves the others, and what they stored, alone.   *)

LEMMA RequestsKept ==
  ASSUME RequestsInv, NEW r \in DOMAIN inbox, NEW t,
         req' = [req EXCEPT ![r] = t], config' = config, inbox' = inbox,
         RequestInv(t, inbox[r], Planned(r))
  PROVE  RequestsInv'
<1>1. req' = [o \in DOMAIN inbox |-> IF o = r THEN t ELSE req[o]]
  BY DEF RequestsInv
<1>2. \A o \in DOMAIN inbox : Planned(o)' = Planned(o)
  BY DEF Planned, Plan
<1>3. \A o \in DOMAIN inbox : RequestInv(req'[o], inbox'[o], Planned(o)')
  <2> TAKE o \in DOMAIN inbox
  <2>1. Planned(o)' = Planned(o) /\ inbox'[o] = inbox[o]
    BY <1>2
  <2>2. CASE o = r
    <3>1. req'[o] = t
      BY <1>1, <2>2
    <3> QED BY <2>1, <2>2, <3>1
  <2>3. CASE o # r
    <3>1. req'[o] = req[o]
      BY <1>1, <2>3
    <3>2. RequestInv(req[o], inbox[o], Planned(o))
      BY DEF RequestsInv
    <3> QED BY <2>1, <3>1, <3>2
  <2> QED BY <2>2, <2>3
<1>4. req' = [o \in DOMAIN inbox |-> req'[o]]
  BY <1>1
<1> QED BY <1>3, <1>4 DEF RequestsInv

(* A request that is done stays as it is, and so does a row it stored.     *)
LEMMA RowKept ==
  ASSUME RequestsInv, NEW r \in DOMAIN inbox, NEW t,
         req' = [req EXCEPT ![r] = t], inbox' = inbox, req[r].pc # "done",
         now \in Nat, now' \in Nat, now <= now',
         NEW k \in DOMAIN table, RowInv(k), table'[k] = table[k]
  PROVE  RowInv(k)'
<1>1. PICK o \in DOMAIN inbox : Stored(table[k], k, req[o], inbox[o])
  BY DEF RowInv
<1>2. o # r
  BY <1>1 DEF Stored
<1>3. req'[o] = req[o]
  BY <1>2 DEF RequestsInv
<1>4. Stored(table'[k], k, req'[o], inbox'[o])
  BY <1>1, <1>3
<1>5. /\ k # NoKey
      /\ table[k].created \in Nat /\ table[k].created <= now
      /\ table[k].expires = table[k].created + CacheTtl
      /\ SizeOf(table[k].answer) \in Nat
  BY DEF RowInv
<1> DEFINE c == table[k].created
<1>6. c <= now'
  <2>1. c \in Nat /\ c <= now
    BY <1>5
  <2> HIDE DEF c
  <2> QED BY <2>1
<1>7. /\ k # NoKey
      /\ table'[k].created \in Nat /\ table'[k].created <= now'
      /\ table'[k].expires = table'[k].created + CacheTtl
      /\ SizeOf(table'[k].answer) \in Nat
  BY <1>5, <1>6
<1>8. \E x \in DOMAIN inbox' : Stored(table'[k], k, req'[x], inbox'[x])
  BY <1>4
<1> QED BY <1>7, <1>8 DEF RowInv

LEMMA TableIsSized ==
  CacheInv => Sized(table)
BY DEF CacheInv, RowInv, Sized

LEMMA CacheShrinks ==
  ASSUME RequestsInv, CacheInv, NEW r \in DOMAIN inbox, NEW t,
         req' = [req EXCEPT ![r] = t], inbox' = inbox, req[r].pc # "done", now' = now,
         NEW K \in SUBSET DOMAIN table, table' = Restrict(table, K)
  PROVE  CacheInv'
<1>1. DOMAIN table' = K /\ \A k \in K : table'[k] = table[k]
  BY DEF Restrict
<1>2. now \in Nat /\ IsFiniteSet(DOMAIN table) /\ TotalSize(table) <= CacheBudget
  BY DEF CacheInv
<1>3. \A k \in DOMAIN table' : RowInv(k)'
  <2> TAKE k \in DOMAIN table'
  <2>1. k \in DOMAIN table /\ table'[k] = table[k]
    BY <1>1
  <2>2. RowInv(k)
    BY <2>1 DEF CacheInv
  <2>3. now' \in Nat /\ now <= now'
    BY <1>2
  <2> QED BY <1>2, <2>1, <2>2, <2>3, RowKept
<1>4. IsFiniteSet(DOMAIN table')
  BY <1>1, <1>2, FS_Subset
<1>5. TotalSize(table') <= CacheBudget
  <2>1. Sized(table)
    BY TableIsSized
  <2>2. TotalSize(table) \in Nat /\ TotalSize(Restrict(table, K)) <= TotalSize(table)
    BY <2>1, SizesAdd
  <2>3. Sized(Restrict(table, K))
    BY <2>1, SizesAdd
  <2>4. TotalSize(Restrict(table, K)) \in Nat
    BY <2>3, SizesAdd
  <2>5. TotalSize(table)' = TotalSize(table') /\ CacheBudget \in Nat
    BY CacheAssumption DEF TotalSize, Units
  <2> QED BY <1>2, <2>2, <2>4, <2>5
<1>6. table' = [k \in DOMAIN table' |-> table'[k]]
  BY DEF Restrict
<1>7. TotalSize(table)' <= CacheBudget
  BY <1>5 DEF TotalSize, Units
<1> QED BY <1>2, <1>3, <1>4, <1>6, <1>7 DEF CacheInv

LEMMA TableKept ==
  ASSUME RequestsInv, CacheInv, NEW r \in DOMAIN inbox, NEW t,
         req' = [req EXCEPT ![r] = t], inbox' = inbox, req[r].pc # "done", now' = now,
         table' = table
  PROVE  CacheInv'
<1>1. table' = Restrict(table, DOMAIN table)
  BY DEF CacheInv, Restrict
<1>2. DOMAIN table \in SUBSET DOMAIN table
  OBVIOUS
<1> QED BY <1>1, <1>2, CacheShrinks

LEMMA HitsKept ==
  ASSUME RequestsInv, HitIsDeserved, NEW r \in DOMAIN inbox, NEW t,
         req' = [req EXCEPT ![r] = t], inbox' = inbox, req[r].pc # "done",
         t.events # <<Event("cache_hit", FALSE)>>
  PROVE  HitIsDeserved'
<1>1. \A o \in DOMAIN inbox : req'[o] = IF o = r THEN t ELSE req[o]
  BY DEF RequestsInv
<1>2. ASSUME NEW h \in DOMAIN inbox, req'[h].events = <<Event("cache_hit", FALSE)>>
      PROVE  /\ inbox[h].body.temperature = 0
             /\ \E o \in DOMAIN inbox \ {h} : Repeats(req'[h], inbox[h], req'[o], inbox[o])
  <2>1. h # r /\ req'[h] = req[h]
    BY <1>1, <1>2
  <2>2. /\ inbox[h].body.temperature = 0
        /\ \E o \in DOMAIN inbox \ {h} : Repeats(req[h], inbox[h], req[o], inbox[o])
    BY <1>2, <2>1 DEF HitIsDeserved
  <2>3. PICK o \in DOMAIN inbox \ {h} : Repeats(req[h], inbox[h], req[o], inbox[o])
    BY <2>2
  <2>4. o # r
    BY <2>3 DEF Repeats
  <2>5. req'[o] = req[o]
    BY <1>1, <2>4
  <2> QED BY <2>1, <2>2, <2>3, <2>5
<1> QED BY <1>2 DEF HitIsDeserved

------------------------------------------------------------------------------
(* The invariant holds at first and is kept by every action                *)

LEMMA StepKeeps ==
  ASSUME IInv, NEW r \in DOMAIN inbox, NEW t,
         req' = [req EXCEPT ![r] = t], UNCHANGED <<config, inbox, table, now>>,
         req[r].pc # "done", RequestInv(t, inbox[r], Planned(r)),
         t.events # <<Event("cache_hit", FALSE)>>
  PROVE  IInv'
<1>1. RequestsInv'
  BY RequestsKept DEF IInv
<1>2. CacheInv'
  BY TableKept DEF IInv
<1>3. HitIsDeserved'
  BY HitsKept DEF IInv
<1> QED BY <1>1, <1>2, <1>3 DEF IInv

LEMMA InitHolds == Init => IInv
<1> SUFFICES ASSUME Init PROVE IInv
  OBVIOUS
<1>1. \A r \in DOMAIN inbox : req[r] = Idle(inbox[r].body)
  BY DEF Init
<1>2. \A r \in DOMAIN inbox :
        /\ RequestInv(req[r], inbox[r], Planned(r))
        /\ req[r].events # <<Event("cache_hit", FALSE)>>
  <2> TAKE r \in DOMAIN inbox
  <2> DEFINE b == inbox[r].body
  <2> DEFINE h == Event("cache_hit", FALSE)
  <2>1. /\ IsRequest(Idle(b)) /\ Idle(b).pc = "new" /\ Idle(b).events = <<>>
    BY IdleRequest
  <2>2. req[r] = Idle(b)
    BY <1>1
  <2>3. req[r].events # <<h>>
    <3> HIDE DEF h
    <3> QED BY <2>1, <2>2, TupleDiffers
  <2>4. RequestInv(req[r], inbox[r], Planned(r))
    BY <2>1, <2>2 DEF RequestInv
  <2> QED BY <2>3, <2>4
<1>3. RequestsInv
  BY <1>2 DEF RequestsInv, Init
<1>4. CacheInv
  <2>1. now = 0 /\ table = EmptyTable /\ DOMAIN table = {}
    BY DEF Init, EmptyTable
  <2>2. TotalSize(table) = 0 /\ Sized(table)
    BY <2>1, EmptyHasNoSize
  <2>3. table = [k \in DOMAIN table |-> table[k]]
    BY <2>1 DEF EmptyTable
  <2> QED BY <2>1, <2>2, <2>3, CacheAssumption DEF CacheInv, Sized
<1>5. HitIsDeserved
  BY <1>2 DEF HitIsDeserved
<1> QED BY <1>3, <1>4, <1>5 DEF IInv

(* A replayed answer was the answer to the same question.                  *)
LEMMA ReplayedIsDeserved ==
  ASSUME CacheInv, NEW q, NEW t, Replayed(t, q)
  PROVE  /\ q.body.temperature = 0
         /\ \E o \in DOMAIN inbox :
              req[o].pc = "done" /\ Repeats(t, q, req[o], inbox[o])
<1> DEFINE k == CacheKey(q)
<1>1. k \in DOMAIN table /\ table[k].expires > now /\ t.reply = table[k].answer
      /\ t.at = now
  BY DEF Replayed, CacheHit, Fresh
<1> HIDE DEF k
<1>2. /\ k # NoKey /\ now \in Nat
      /\ table[k].created \in Nat
      /\ table[k].expires = table[k].created + CacheTtl
  BY <1>1 DEF CacheInv, RowInv
<1>3. PICK o \in DOMAIN inbox : Stored(table[k], k, req[o], inbox[o])
  BY <1>1 DEF CacheInv, RowInv
<1>4. SameQuestion(q, inbox[o]) /\ q.body.temperature = 0
  BY <1>2, <1>3, SameKeySameQuestion DEF Stored, k
<1>5. t.at - req[o].at < CacheTtl
  <2> DEFINE c == table[k].created
  <2> DEFINE e == table[k].expires
  <2>1. c \in Nat /\ e = c + CacheTtl /\ e > now /\ now \in Nat /\ CacheTtl \in Nat
    BY <1>1, <1>2, CacheAssumption
  <2>2. req[o].at = c
    BY <1>3 DEF Stored
  <2> HIDE DEF c, e
  <2> QED BY <1>1, <2>1, <2>2
<1>6. req[o].pc = "done" /\ Repeats(t, q, req[o], inbox[o])
  BY <1>1, <1>3, <1>4, <1>5 DEF Repeats, Stored
<1> QED BY <1>4, <1>6

LEMMA ReplayedReport ==
  ASSUME NEW t, NEW q, Replayed(t, q), NEW planned, planned
  PROVE  RequestInv(t, q, planned)
<1> DEFINE e == Event("cache_hit", FALSE)
<1>1. e.outcome = "cache_hit" /\ e.exported = FALSE
  BY DEF Event
<1>2. /\ IsRequest(t) /\ t.pc = "done" /\ t.status = 200 /\ t.sent = <<>>
      /\ t.events = <<e>> /\ q.surface = "messages"
  BY DEF Replayed
<1> HIDE DEF e
<1>3. Tells(t, e)
  <2>1. (e.outcome \in {"success", "cache_hit"}) = TRUE
    BY <1>1
  <2>2. (t.status = 200) = TRUE
    BY <1>2
  <2>3. (e.outcome # "cache_hit") = FALSE
    BY <1>1
  <2>4. e.outcome # "success"
    BY <1>1
  <2> QED BY <1>1, <1>2, <2>1, <2>2, <2>3, <2>4 DEF Tells
<1>4. q.surface # "count_tokens"
  BY <1>2
<1>5. Reported(t, q, planned)
  BY ZenonT(40), <1>2, <1>3, <1>4, OneReport
<1> QED BY <1>2, <1>5 DEF RequestInv

LEMMA AsksHolds ==
  ASSUME NEW t, NEW q, Asks(t, q), NEW planned, planned
  PROVE  RequestInv(t, q, planned) /\ t.events # <<Event("cache_hit", FALSE)>>
<1> DEFINE h == Event("cache_hit", FALSE)
<1>1. t.events # <<h>>
  <2> HIDE DEF h
  <2> QED BY TupleDiffers DEF Asks
<1>2. RequestInv(t, q, planned)
  BY DEF Asks, RequestInv, UnderWay
<1> QED BY <1>1, <1>2

LEMMA ReceiveKeeps ==
  ASSUME IInv, NEW r \in DOMAIN inbox, Receive(r)
  PROVE  IInv'
<1> DEFINE q == inbox[r]
<1> DEFINE decision == Plan(q)
<1> DEFINE T(blocked, spent) == Start(q, decision, blocked, spent)
<1> DEFINE K == IF Parsed(q) /\ decision # Unresolved
                THEN AfterLookup(table, CacheKey(q), now) ELSE table
<1>1. /\ req[r].pc = "new"
      /\ \E blocked, spent \in BOOLEAN : req' = [req EXCEPT ![r] = T(blocked, spent)]
      /\ table' = K
      /\ config' = config /\ inbox' = inbox /\ now' = now
  BY DEF Receive
<1>2. PICK blocked \in BOOLEAN, spent \in BOOLEAN : req' = [req EXCEPT ![r] = T(blocked, spent)]
  BY <1>1
<1>3. PICK t : t = T(blocked, spent)
  OBVIOUS
<1>4. req' = [req EXCEPT ![r] = t]
  BY <1>2, <1>3
<1>5. IF ~ Planned(r) THEN NotUnderstood(t)
      ELSE Asks(t, q) \/ Replayed(t, q) \/ Refused(t, q.surface, Idle(q.body))
  <2>1. LET u == Start(q, decision, blocked, spent) IN
        IF ~ Parsed(q) \/ decision = Unresolved THEN NotUnderstood(u)
        ELSE Asks(u, q) \/ Replayed(u, q) \/ Refused(u, q.surface, Idle(q.body))
    <3> HIDE DEF q, decision
    <3> QED BY StartSays
  <2> QED BY <1>3, <2>1 DEF Planned
<1>6. \E S \in SUBSET DOMAIN table : table' = Restrict(table, S)
  <2>1. table = Restrict(table, DOMAIN table)
    BY DEF IInv, CacheInv, Restrict
  <2>2. K \in {table, Restrict(table, DOMAIN table \ {CacheKey(q)})}
    BY DEF AfterLookup
  <2> HIDE DEF K
  <2> QED BY <1>1, <2>1, <2>2
<1> HIDE DEF q, decision, T, K
<1>7. RequestInv(t, q, Planned(r))
  <2>1. CASE ~ Planned(r)
    <3>1. IsRequest(t) /\ t.pc = "done" /\ t.events = <<>>
      BY <1>5, <2>1 DEF NotUnderstood
    <3> QED BY <2>1, <3>1 DEF RequestInv, Reported
  <2>2. CASE Planned(r) /\ Asks(t, q)
    BY <2>2, AsksHolds
  <2>3. CASE Planned(r) /\ Replayed(t, q)
    BY <2>3, ReplayedReport
  <2>4. CASE Planned(r) /\ Refused(t, q.surface, Idle(q.body))
    BY <2>4, RefusedHolds
  <2> QED BY <1>5, <2>1, <2>2, <2>3, <2>4
<1>8. RequestsInv'
  BY <1>1, <1>4, <1>7, RequestsKept DEF IInv, q
<1>9. CacheInv'
  BY <1>1, <1>4, <1>6, CacheShrinks DEF IInv
<1>10. CASE t.events # <<Event("cache_hit", FALSE)>>
  <2>1. HitIsDeserved'
    BY <1>1, <1>4, <1>10, HitsKept DEF IInv
  <2> QED BY <1>8, <1>9, <2>1 DEF IInv
<1>11. CASE t.events = <<Event("cache_hit", FALSE)>>
  <2>1. Replayed(t, q)
    <3>1. ~ NotUnderstood(t)
      <4> DEFINE h == Event("cache_hit", FALSE)
      <4> HIDE DEF h
      <4>1. <<>> # <<h>>
        BY TupleDiffers
      <4> QED BY <1>11, <4>1 DEF NotUnderstood, h
    <3>2. Planned(r)
      BY <1>5, <3>1
    <3>3. ~ Asks(t, q)
      BY <1>11, <3>2, AsksHolds
    <3>4. ~ Refused(t, q.surface, Idle(q.body))
      BY <1>11, <3>2, RefusedHolds
    <3> QED BY <1>5, <3>2, <3>3, <3>4
  <2>2. /\ q.body.temperature = 0
        /\ \E o \in DOMAIN inbox :
             req[o].pc = "done" /\ Repeats(t, q, req[o], inbox[o])
    BY <2>1, ReplayedIsDeserved DEF IInv
  <2>3. PICK o \in DOMAIN inbox : req[o].pc = "done" /\ Repeats(t, q, req[o], inbox[o])
    BY <2>2
  <2>4. o # r
    BY <1>1, <2>3
  <2>5. \A x \in DOMAIN inbox : req'[x] = IF x = r THEN t ELSE req[x]
    BY <1>4 DEF IInv, RequestsInv
  <2>6. ASSUME NEW h \in DOMAIN inbox, req'[h].events = <<Event("cache_hit", FALSE)>>
        PROVE  /\ inbox[h].body.temperature = 0
               /\ \E x \in DOMAIN inbox \ {h} : Repeats(req'[h], inbox[h], req'[x], inbox[x])
    <3>1. CASE h = r
      <4>1. req'[h] = t /\ req'[o] = req[o]
        BY <2>4, <2>5, <3>1
      <4> QED BY <2>2, <2>3, <2>4, <3>1, <4>1 DEF q
    <3>2. CASE h # r
      <4>1. req'[h] = req[h]
        BY <2>5, <3>2
      <4>2. /\ inbox[h].body.temperature = 0
            /\ \E x \in DOMAIN inbox \ {h} : Repeats(req[h], inbox[h], req[x], inbox[x])
        BY <2>6, <4>1 DEF IInv, HitIsDeserved
      <4>3. PICK x \in DOMAIN inbox \ {h} : Repeats(req[h], inbox[h], req[x], inbox[x])
        BY <4>2
      <4>4. x # r
        BY <1>1, <4>3 DEF Repeats
      <4>5. req'[x] = req[x]
        BY <2>5, <4>4
      <4> QED BY <4>1, <4>2, <4>3, <4>5
    <3> QED BY <3>1, <3>2
  <2>7. HitIsDeserved'
    BY <1>1, <2>6 DEF HitIsDeserved
  <2> QED BY <1>8, <1>9, <2>7 DEF IInv
<1> QED BY <1>10, <1>11

LEMMA FallBackKeeps ==
  ASSUME IInv, NEW r \in DOMAIN inbox, FallBack(r)
  PROVE  IInv'
<1> DEFINE s == req[r]
<1> DEFINE t == Dispatch(s, "messages", Tail(s.hops))
<1> DEFINE q == inbox[r]
<1>1. /\ s.pc = "waiting" /\ q.surface = "messages"
      /\ req' = [req EXCEPT ![r] = t] /\ UNCHANGED <<config, inbox, table, now>>
  BY DEF FallBack, IInv, RequestsInv
<1>2. RequestInv(s, q, Planned(r))
  BY DEF IInv, RequestsInv
<1>3. /\ IsRequest(s) /\ Planned(r) /\ s.events = <<>> /\ s.key \in {NoKey, CacheKey(q)}
  BY <1>1, <1>2 DEF RequestInv, UnderWay
<1>4. Asking(t, s) \/ Refused(t, q.surface, s)
  <2> DEFINE surface == "messages"
  <2> DEFINE hops == Tail(s.hops)
  <2> HIDE DEF s, surface, hops
  <2>1. LET u == Dispatch(s, surface, hops) IN Asking(u, s) \/ Refused(u, surface, s)
    BY <1>3, DispatchSays
  <2> QED BY <1>1, <2>1 DEF surface, hops
<1> HIDE DEF s, t, q
<1>5. CASE Asking(t, s)
  <2>1. Asks(t, q)
    BY <1>3, <1>5 DEF Asks, Asking
  <2> QED BY <1>1, <1>3, <2>1, AsksHolds, StepKeeps DEF q, s
<1>6. CASE Refused(t, q.surface, s)
  <2>1. RequestInv(t, q, Planned(r)) /\ t.events # <<Event("cache_hit", FALSE)>>
    BY <1>3, <1>6, RefusedHolds
  <2> QED BY <1>1, <2>1, StepKeeps DEF q, s
<1> QED BY <1>4, <1>5, <1>6

LEMMA FailureIsNoSuccess ==
  ASSUME NEW surface, NEW category
  PROVE  ErrorStatus(surface, category) # 200
<1>1. CASE category \in {"provider_auth_error", "client_auth_error"}
  BY <1>1 DEF ErrorStatus
<1>2. CASE category \in {"policy_rejected", "provider_rate_limited"}
  BY <1>2 DEF ErrorStatus
<1>3. CASE category = "provider_overloaded"
  BY <1>3 DEF ErrorStatus
<1>4. CASE category \in {"provider_validation_error", "client_validation_error"}
  BY <1>4 DEF ErrorStatus
<1>5. CASE category \notin {"provider_auth_error", "client_auth_error", "policy_rejected",
                           "provider_rate_limited", "provider_overloaded",
                           "provider_validation_error", "client_validation_error"}
  BY <1>5 DEF ErrorStatus
<1> QED BY <1>1, <1>2, <1>3, <1>4, <1>5

LEMMA FailKeeps ==
  ASSUME IInv, NEW r \in DOMAIN inbox, Fail(r)
  PROVE  /\ IInv' /\ req'[r].status # 200
         /\ req' = [req EXCEPT ![r] = req'[r]]
<1> DEFINE s == req[r]
<1> DEFINE q == inbox[r]
<1> DEFINE es(category) == IF q.surface = "count_tokens" THEN <<>>
                           ELSE <<Event(category, TRUE)>>
<1>1. PICK category \in FailureCategories :
        req' = [req EXCEPT ![r] = Ended(s, ErrorStatus(q.surface, category), es(category))]
  BY DEF Fail, IInv, RequestsInv
<1>2. s.pc = "waiting" /\ UNCHANGED <<config, inbox, table, now>>
  BY DEF Fail
<1>3. PICK status : status = ErrorStatus(q.surface, category)
  OBVIOUS
<1>4. PICK e : e = es(category)
  OBVIOUS
<1>5. PICK t : t = Ended(s, status, e)
  OBVIOUS
<1>6. req' = [req EXCEPT ![r] = t]
  BY <1>1, <1>3, <1>4, <1>5
<1>7. status # 200
  BY <1>3, FailureIsNoSuccess
<1>8. IF q.surface = "count_tokens" THEN e = <<>> ELSE e = <<Event(category, TRUE)>>
  BY <1>4
<1>9. RequestInv(s, q, Planned(r))
  BY DEF IInv, RequestsInv
<1> HIDE DEF s, q, es
<1>10. IsRequest(s) /\ Planned(r) /\ s.events = <<>>
  BY <1>2, <1>9 DEF RequestInv, UnderWay
<1>11. /\ IsRequest(t) /\ t.pc = "done" /\ t.status = status /\ t.events = s.events \o e
  <2>1. LET u == Ended(s, status, e) IN
        /\ IsRequest(u) /\ u.pc = "done" /\ u.status = status /\ u.events = s.events \o e
    <3>1. IsRequest(s)
      BY <1>10
    <3> QED BY <3>1, EndedRequest
  <2> QED BY <1>5, <2>1
<1>12. t.events = e
  <2>1. e = <<>> \/ \E x : e = <<x>>
    BY <1>8
  <2> QED BY <1>10, <1>11, <2>1, OneEvent
<1>13. Reported(t, q, Planned(r)) /\ t.events # <<Event("cache_hit", FALSE)>>
  <2>1. CASE q.surface = "count_tokens"
    <3> DEFINE h == Event("cache_hit", FALSE)
    <3>1. t.events = <<>>
      BY <1>8, <1>12, <2>1
    <3>2. t.events # <<h>>
      <4> HIDE DEF h
      <4> QED BY <3>1, TupleDiffers
    <3> QED BY <2>1, <3>1, <3>2 DEF Reported
  <2>2. CASE q.surface # "count_tokens"
    <3>1. category \notin {"success", "cache_hit", "budget_exceeded", "policy_rejected"}
      BY UpstreamAssumption
    <3>2. t.events = <<Event(category, TRUE)>> /\ t.status # 200
      BY <1>7, <1>8, <1>11, <1>12, <2>2
    <3> QED BY <1>10, <2>2, <3>1, <3>2, FailureReport
  <2> QED BY <2>1, <2>2
<1>14. RequestInv(t, q, Planned(r))
  BY <1>11, <1>13 DEF RequestInv
<1>15. IInv'
  BY <1>2, <1>6, <1>13, <1>14, StepKeeps DEF s, q
<1>16. req'[r] = t
  BY <1>6 DEF IInv, RequestsInv
<1> QED BY <1>6, <1>7, <1>11, <1>15, <1>16

LEMMA AnswerProtocolKnown ==
  ASSUME NEW surface, NEW p
  PROVE  AnswerProtocol(surface, p) \in Protocols
<1>1. UpstreamProtocols(p) \subseteq Protocols /\ UpstreamProtocols(p) # {}
  BY DEF UpstreamProtocols, Protocols
<1>2. (CHOOSE x \in UpstreamProtocols(p) : TRUE) \in UpstreamProtocols(p)
  BY <1>1
<1> QED BY <1>1, <1>2 DEF AnswerProtocol

Succeeded(t, q) ==
  /\ t.events = <<Event("success", TRUE)>> /\ t.status = 200
  /\ t.sent # <<>> /\ t.upstream # NoAnswer /\ q.surface # "count_tokens"

LEMMA SuccessReport ==
  ASSUME NEW t, NEW q, Succeeded(t, q)
  PROVE  Reported(t, q, TRUE) /\ t.events # <<Event("cache_hit", FALSE)>>
<1> DEFINE e == Event("success", TRUE)
<1> DEFINE h == Event("cache_hit", FALSE)
<1>1. e.outcome = "success" /\ e.exported = TRUE /\ h.outcome = "cache_hit"
  BY DEF Event
<1>2. t.events = <<e>>
  BY Zenon DEF Succeeded
<1> HIDE DEF e, h
<1>10. t.status = 200 /\ t.sent # <<>> /\ t.upstream # NoAnswer /\ q.surface # "count_tokens"
  BY DEF Succeeded
<1>3. Tells(t, e)
  <2>1. (e.outcome \in {"success", "cache_hit"}) = TRUE
    BY <1>1
  <2>2. (t.status = 200) = TRUE
    BY <1>10
  <2>3. (e.outcome # "cache_hit") = TRUE
    BY <1>1
  <2>4. e.outcome \notin {"cache_hit", "budget_exceeded", "policy_rejected"}
    BY <1>1
  <2> QED BY <1>1, <1>10, <2>1, <2>2, <2>3, <2>4 DEF Tells
<1>4. Reported(t, q, TRUE)
  <2>1. PICK planned : planned = TRUE
    OBVIOUS
  <2>2. q.surface # "count_tokens" /\ planned
    BY <1>10, <2>1
  <2>3. Reported(t, q, planned)
    BY Zenon, <1>2, <1>3, <2>2, OneReport
  <2> QED BY Zenon, <2>1, <2>3
<1>5. t.events # <<h>>
  <2>1. e # h
    BY <1>1
  <2>2. <<e>> # <<h>>
    BY <2>1, TupleDiffers
  <2> QED BY <1>2, <2>2
<1> QED BY <1>4, <1>5 DEF h

LEMMA AnswerStreamedKeeps ==
  ASSUME IInv, NEW r \in DOMAIN inbox, AnswerStreamed(r)
  PROVE  IInv'
<1> DEFINE s == req[r]
<1> DEFINE q == inbox[r]
<1> DEFINE p == Hop(r).provider
<1> DEFINE T(a) == [s EXCEPT !.pc = "streaming", !.status = 200, !.form = "sse",
                             !.upstream = a]
<1>1. PICK a \in UpstreamAnswers[AnswerProtocol(q.surface, p)] :
        req' = [req EXCEPT ![r] = T(a)]
  BY DEF AnswerStreamed, IInv, RequestsInv
<1>2. /\ s.pc = "waiting" /\ q.surface # "count_tokens"
      /\ UNCHANGED <<config, inbox, table, now>>
  BY DEF AnswerStreamed
<1>3. PICK t : t = T(a)
  OBVIOUS
<1>4. req' = [req EXCEPT ![r] = t]
  BY <1>1, <1>3
<1>5. RequestInv(s, q, Planned(r))
  BY DEF IInv, RequestsInv
<1>7. t = [s EXCEPT !.pc = "streaming", !.status = 200, !.form = "sse", !.upstream = a]
  BY <1>3
<1>8. a # NoAnswer
  BY UpstreamAssumption, AnswerProtocolKnown
<1> HIDE DEF s, q, p, T
<1>9. IsRequest(s) /\ UnderWay(s, Planned(r))
  BY <1>2, <1>5 DEF RequestInv
<1>10. /\ t = [f \in RequestFields |-> t[f]]
       /\ t.pc = "streaming" /\ t.status = 200 /\ t.upstream = a
       /\ t.sent = s.sent /\ t.events = s.events
  BY <1>7, <1>9 DEF IsRequest, RequestFields
<1>11. IsRequest(t) /\ UnderWay(t, Planned(r))
  <2>1. IsRequest(t)
    BY <1>9, <1>10, SameAttempts
  <2> QED BY <1>9, <1>10, <2>1 DEF UnderWay
<1>12. RequestInv(t, q, Planned(r))
  BY <1>2, <1>8, <1>10, <1>11 DEF RequestInv
<1>13. t.events # <<Event("cache_hit", FALSE)>>
  <2> DEFINE h == Event("cache_hit", FALSE)
  <2> HIDE DEF h
  <2>1. t.events = <<>> /\ <<>> # <<h>>
    BY <1>11, TupleDiffers DEF UnderWay
  <2> QED BY <2>1 DEF h
<1> QED BY <1>2, <1>4, <1>12, <1>13, StepKeeps DEF s, q

LEMMA EndStreamKeeps ==
  ASSUME IInv, NEW r \in DOMAIN inbox, EndStream(r)
  PROVE  IInv'
<1> DEFINE s == req[r]
<1> DEFINE q == inbox[r]
<1> DEFINE e == Event("success", TRUE)
<1>1. PICK t : t = Settled(s)
  OBVIOUS
<1>2. /\ req' = [req EXCEPT ![r] = t] /\ s.pc = "streaming"
      /\ UNCHANGED <<config, inbox, table, now>>
  BY <1>1 DEF EndStream, IInv, RequestsInv
<1>3. RequestInv(s, q, Planned(r))
  BY DEF IInv, RequestsInv
<1> HIDE DEF s, q, e
<1>4. /\ IsRequest(s) /\ UnderWay(s, Planned(r))
      /\ q.surface # "count_tokens" /\ s.status = 200 /\ s.upstream # NoAnswer
  BY <1>2, <1>3 DEF RequestInv
<1>5. /\ t = [f \in RequestFields |-> t[f]]
      /\ t.pc = "done" /\ t.status = s.status /\ t.upstream = s.upstream
      /\ t.sent = s.sent /\ t.events = Append(s.events, e)
  BY ZenonT(40), <1>1, <1>4 DEF Settled, e, IsRequest, RequestFields
<1>6. IsRequest(t)
  BY <1>4, <1>5, SameAttempts
<1>7. t.events = <<e>>
  <2>1. s.events = <<>>
    BY <1>4 DEF UnderWay
  <2>2. Append(<<>>, e) = <<e>>
    OBVIOUS
  <2> QED BY <1>5, <2>1, <2>2
<1>8. Reported(t, q, Planned(r)) /\ t.events # <<Event("cache_hit", FALSE)>>
  <2>1. /\ t.events = <<Event("success", TRUE)>> /\ t.status = 200
        /\ t.sent # <<>> /\ t.upstream # NoAnswer /\ Planned(r)
    BY <1>4, <1>5, <1>7 DEF e, UnderWay
  <2>2. Planned(r) = TRUE
    BY <2>1
  <2>3. q.surface # "count_tokens"
    BY <1>4
  <2>4. Reported(t, q, TRUE) /\ t.events # <<Event("cache_hit", FALSE)>>
    <3>1. Succeeded(t, q)
      BY Zenon, <2>1, <2>3 DEF Succeeded
    <3> QED BY Zenon, <3>1, SuccessReport
  <2> QED BY <2>2, <2>4
<1>9. RequestInv(t, q, Planned(r))
  BY <1>5, <1>6, <1>8 DEF RequestInv
<1> QED BY <1>2, <1>8, <1>9, StepKeeps DEF s, q

LEMMA AnswerCountKeeps ==
  ASSUME IInv, NEW r \in DOMAIN inbox, AnswerCount(r)
  PROVE  IInv'
<1> DEFINE s == req[r]
<1> DEFINE q == inbox[r]
<1>1. PICK status \in {200, 400} : req' = [req EXCEPT ![r] = Ended(s, status, <<>>)]
  BY DEF AnswerCount, IInv, RequestsInv
<1>2. /\ s.pc = "waiting" /\ q.surface = "count_tokens"
      /\ UNCHANGED <<config, inbox, table, now>>
  BY DEF AnswerCount
<1>3. PICK es : es = <<>>
  OBVIOUS
<1>4. PICK t : t = Ended(s, status, es)
  OBVIOUS
<1>5. req' = [req EXCEPT ![r] = t]
  BY <1>1, <1>3, <1>4
<1>6. RequestInv(s, q, Planned(r))
  BY DEF IInv, RequestsInv
<1> HIDE DEF s, q
<1>7. IsRequest(s)
  BY <1>6 DEF RequestInv
<1>8. s.events = <<>>
  BY <1>2, <1>6 DEF RequestInv, UnderWay
<1>9. IsRequest(t) /\ t.pc = "done" /\ t.events = s.events \o es
  <2>1. LET u == Ended(s, status, es) IN
        IsRequest(u) /\ u.pc = "done" /\ u.events = s.events \o es
    BY <1>7, EndedRequest
  <2> QED BY <1>4, <2>1
<1>10. t.events = <<>>
  BY <1>3, <1>8, <1>9, OneEvent
<1>11. t.events # <<Event("cache_hit", FALSE)>>
  <2> DEFINE h == Event("cache_hit", FALSE)
  <2> HIDE DEF h
  <2>1. <<>> # <<h>>
    BY TupleDiffers
  <2> QED BY <1>10, <2>1 DEF h
<1>12. RequestInv(t, q, Planned(r))
  BY <1>2, <1>9, <1>10 DEF RequestInv, Reported
<1> QED BY <1>2, <1>5, <1>11, <1>12, StepKeeps DEF s, q

LEMMA TickKeeps ==
  ASSUME IInv, Tick
  PROVE  IInv'
<1>1. /\ now' = now + 1 /\ config' = config /\ inbox' = inbox /\ req' = req
      /\ table' = table
  BY DEF Tick
<1>2. \A o \in DOMAIN inbox : Planned(o)' = Planned(o)
  BY <1>1 DEF Planned, Plan
<1>3. RequestsInv'
  BY <1>1, <1>2 DEF IInv, RequestsInv
<1>4. now \in Nat /\ now' \in Nat /\ now <= now'
  BY <1>1 DEF IInv, CacheInv
<1>5. \A k \in DOMAIN table' : RowInv(k)'
  <2> TAKE k \in DOMAIN table'
  <2> DEFINE c == table[k].created
  <2>1. RowInv(k)
    BY <1>1 DEF IInv, CacheInv
  <2>2. c \in Nat /\ c <= now
    BY <2>1 DEF RowInv
  <2>3. c <= now'
    <3> HIDE DEF c
    <3> QED BY <1>4, <2>2
  <2> QED BY <1>1, <2>1, <2>3 DEF RowInv
<1>6. CacheInv'
  BY <1>1, <1>4, <1>5 DEF IInv, CacheInv, TotalSize, Units
<1>7. HitIsDeserved'
  BY <1>1 DEF IInv, HitIsDeserved
<1> QED BY <1>3, <1>6, <1>7 DEF IInv

------------------------------------------------------------------------------
(* A store                                                                 *)

(* What a store may leave: rows as they were and, if it stays, the new     *)
(* one; the oldest went, and no more than had to.                          *)
Remains(next, rows, key, answer, clock) ==
  /\ next = [k \in DOMAIN next |-> next[k]] /\ Sized(next)
  /\ DOMAIN next \subseteq DOMAIN rows \cup {key}
  /\ \A k \in DOMAIN next \ {key} : next[k] = rows[k]
  /\ key \in DOMAIN next =>
       /\ next[key].answer = answer /\ next[key].created = clock
       /\ next[key].expires = clock + CacheTtl
  /\ TotalSize(next) <= CacheBudget
  /\ \A g \in ((DOMAIN rows \cup {key}) \ DOMAIN next) \ {key},
        k \in DOMAIN next \ {key} : rows[g].created <= rows[k].created
  /\ \/ key \in DOMAIN next
     \/ SizeOf(answer) > CacheBudget
     \/ \E k \in DOMAIN next : rows[k].created = clock

LEMMA StoreLeaves ==
  ASSUME NEW rows, Sized(rows), TotalSize(rows) <= CacheBudget,
         NEW clock \in Nat,
         \A k \in DOMAIN rows : rows[k].created \in Nat /\ rows[k].created <= clock,
         NEW key, NEW model, NEW answer, SizeOf(answer) \in Nat,
         NEW next \in AfterStore(rows, key, model, answer, clock)
  PROVE  Remains(next, rows, key, answer, clock)
<1> DEFINE row == [answer |-> answer, model |-> model, created |-> clock,
                   expires |-> clock + CacheTtl]
<1> DEFINE D == DOMAIN rows \cup {key}
<1> DEFINE stored == [k \in D |-> IF k = key THEN row ELSE rows[k]]
<1>1. PICK kept \in Evicted(stored) : next = Restrict(stored, kept)
  BY DEF AfterStore
<1>2. row.answer = answer /\ row.created = clock /\ row.expires = clock + CacheTtl
  OBVIOUS
<1>3. /\ DOMAIN stored = D /\ stored[key] = row
      /\ \A k \in D \ {key} : k \in DOMAIN rows /\ stored[k] = rows[k]
  <2> HIDE DEF row
  <2> QED OBVIOUS
<1> HIDE DEF row, stored
<1>4. IsFiniteSet(D)
  BY FS_AddElement DEF Sized
<1>5. Sized(stored)
  <2>1. ASSUME NEW k \in D PROVE SizeOf(stored[k].answer) \in Nat
    <3>1. CASE k = key
      BY <1>2, <1>3, <3>1
    <3>2. CASE k # key
      BY <1>3, <3>2 DEF Sized
    <3> QED BY <3>1, <3>2
  <2> QED BY <1>3, <1>4, <2>1 DEF Sized
<1> DEFINE gone == D \ kept
<1>6. /\ kept \subseteq D /\ TotalSize(Restrict(stored, kept)) <= CacheBudget
      /\ \A g \in gone, k \in kept : stored[g].created <= stored[k].created
      /\ gone # {} =>
           \E last \in gone :
             /\ \A g \in gone : stored[g].created <= stored[last].created
             /\ TotalSize(Restrict(stored, kept)) + SizeOf(stored[last].answer) > CacheBudget
  <2> HIDE DEF D
  <2> QED BY <1>3 DEF Evicted
<1>7. /\ DOMAIN next = kept /\ \A k \in kept : next[k] = stored[k]
      /\ next = [k \in kept |-> stored[k]]
  BY <1>1 DEF Restrict
<1>8. Sized(next) /\ TotalSize(next) <= CacheBudget
  <2>1. kept \in SUBSET DOMAIN stored
    BY <1>3, <1>6
  <2>2. Sized(Restrict(stored, kept))
    BY <1>5, <2>1, SizesAdd
  <2> QED BY <1>1, <1>6, <2>2
<1>9. \A g \in (D \ kept) \ {key}, k \in kept \ {key} : rows[g].created <= rows[k].created
  <2> TAKE g \in (D \ kept) \ {key}, k \in kept \ {key}
  <2>1. stored[g] = rows[g] /\ stored[k] = rows[k]
    BY <1>3, <1>6
  <2>2. stored[g].created <= stored[k].created
    BY <1>6
  <2> QED BY <2>1, <2>2
<1>10. \/ key \in kept
       \/ SizeOf(answer) > CacheBudget
       \/ \E k \in kept : rows[k].created = clock
  <2> SUFFICES ASSUME key \notin kept, SizeOf(answer) <= CacheBudget
               PROVE  \E k \in kept : rows[k].created = clock
    BY CacheAssumption
  <2>1. key \in gone
    OBVIOUS
  <2>2. PICK last \in gone :
          /\ \A g \in gone : stored[g].created <= stored[last].created
          /\ TotalSize(Restrict(stored, kept)) + SizeOf(stored[last].answer) > CacheBudget
    BY <1>6, <2>1
  <2>3. SizeOf(stored[last].answer) <= CacheBudget
    <3>1. CASE last = key
      BY <1>2, <1>3, <3>1
    <3>2. CASE last # key
      <4>1. last \in DOMAIN rows /\ stored[last] = rows[last]
        BY <1>3, <3>2
      <4>2. SizeOf(rows[last].answer) <= TotalSize(rows) /\ TotalSize(rows) \in Nat
        BY <4>1, SizesAdd
      <4>3. SizeOf(rows[last].answer) \in Nat
        BY <4>1 DEF Sized
      <4> QED BY <4>1, <4>2, <4>3, CacheAssumption
    <3> QED BY <3>1, <3>2
  <2>4. kept # {}
    <3> SUFFICES ASSUME kept = {} PROVE FALSE
      OBVIOUS
    <3>1. TotalSize(next) = 0
      BY <1>7, EmptyHasNoSize
    <3>2. SizeOf(stored[last].answer) \in Nat
      BY <1>3, <1>5 DEF Sized
    <3> QED BY <1>1, <2>2, <2>3, <3>1, <3>2, CacheAssumption
  <2>5. PICK k \in kept : TRUE
    BY <2>4
  <2>6. k # key /\ k \in D
    BY <1>6
  <2>7. k \in DOMAIN rows /\ stored[k] = rows[k]
    BY <1>3, <2>6
  <2>8. clock <= rows[k].created
    <3>1. stored[key].created <= stored[k].created
      BY <1>6, <2>1
    <3>2. stored[key].created = clock
      BY <1>2, <1>3
    <3> QED BY <2>7, <3>1, <3>2
  <2>9. rows[k].created \in Nat /\ rows[k].created <= clock
    BY <2>7
  <2>10. rows[k].created = clock
    BY <2>8, <2>9
  <2> QED BY <2>10
<1>11. DOMAIN next \subseteq D /\ next = [k \in DOMAIN next |-> next[k]]
  BY <1>6, <1>7
<1>12. \A k \in DOMAIN next \ {key} : next[k] = rows[k]
  BY <1>3, <1>6, <1>7
<1>13. key \in DOMAIN next =>
         /\ next[key].answer = answer /\ next[key].created = clock
         /\ next[key].expires = clock + CacheTtl
  BY <1>2, <1>3, <1>7
<1> QED BY <1>7, <1>8, <1>9, <1>10, <1>11, <1>12, <1>13 DEF Remains

(* A whole answer ends its request with a success, and is stored if the    *)
(* request has a key.                                                      *)
Answered(t, s, q, a, reply) ==
  /\ IsRequest(t)
  /\ t.pc = "done" /\ t.status = 200 /\ t.at = now
  /\ t.events = <<Event("success", TRUE)>>
  /\ t.sent = s.sent /\ t.upstream = a /\ t.reply = reply
  /\ t.form = IF q.body.stream THEN "sse" ELSE "json"

LEMMA AnsweredRequest ==
  ASSUME NEW s, IsRequest(s), s.events = <<>>, NEW q, NEW a, NEW reply
  PROVE  LET t == [Ended(s, 200, <<Event("success", TRUE)>>) EXCEPT
                     !.upstream = a, !.reply = reply,
                     !.form = IF q.body.stream THEN "sse" ELSE "json"]
         IN  Answered(t, s, q, a, reply)
<1> DEFINE e == Event("success", TRUE)
<1> DEFINE status == 200
<1> DEFINE h == Ended(s, status, <<e>>)
<1> DEFINE form == IF q.body.stream THEN "sse" ELSE "json"
<1> DEFINE t == [h EXCEPT !.upstream = a, !.reply = reply, !.form = form]
<1>1. /\ IsRequest(h) /\ h.pc = "done" /\ h.status = status /\ h.at = now
      /\ h.events = s.events \o <<e>> /\ h.sent = s.sent
  <2> HIDE DEF e, status, h
  <2>1. LET u == Ended(s, status, <<e>>) IN
        /\ IsRequest(u) /\ u.pc = "done" /\ u.status = status /\ u.at = now
        /\ u.events = s.events \o <<e>> /\ u.sent = s.sent
    BY EndedRequest
  <2> QED BY <2>1 DEF h
<1>2. h.events = <<e>>
  <2> HIDE DEF e, h
  <2> QED BY <1>1, OneEvent
<1> HIDE DEF h, e, form
<1>3. /\ t = [f \in RequestFields |-> t[f]]
      /\ t.pc = h.pc /\ t.status = h.status /\ t.at = h.at /\ t.events = h.events
      /\ t.sent = h.sent /\ t.upstream = a /\ t.reply = reply /\ t.form = form
  BY <1>1 DEF IsRequest, RequestFields
<1>4. Answered(t, s, q, a, reply)
  <2> HIDE DEF t, status
  <2>1. IsRequest(t)
    BY <1>1, <1>3, SameAttempts
  <2> QED BY <1>1, <1>2, <1>3, <2>1 DEF Answered, e, form, status
<1> QED BY <1>4 DEF h, e, form

(* What the upstream said and the client got is of a size when it came for *)
(* a Messages request.                                                     *)
LEMMA AnswerHasSize ==
  ASSUME NEW p \in Registered, NEW b, NEW asked, asked = Asked("messages", b, p),
         NEW a \in UpstreamAnswers[AnswerProtocol("messages", p)]
  PROVE  SizeOf(Render("messages", p, ParseResponse(a, p, asked))) \in Nat
<1>1. asked \in BOOLEAN
  BY DEF Asked
<1> QED BY <1>1, UpstreamAssumption

LEMMA AnswerWholeSays ==
  ASSUME IInv, NEW r \in DOMAIN inbox, AnswerWhole(r)
  PROVE  \E t, a, reply :
           /\ req' = [req EXCEPT ![r] = t] /\ Answered(t, req[r], inbox[r], a, reply)
           /\ a # NoAnswer
           /\ IF req[r].key = NoKey THEN table' = table
              ELSE Remains(table', table, req[r].key, reply, now)
<1> DEFINE s == req[r]
<1> DEFINE q == inbox[r]
<1> DEFINE p == Hop(r).provider
<1> DEFINE asked == Asked(q.surface, s.body, p)
<1> DEFINE Said(a) == Render(q.surface, p, ParseResponse(a, p, asked))
<1>1. PICK a \in UpstreamAnswers[AnswerProtocol(q.surface, p)] :
        /\ req' = [req EXCEPT ![r] =
                     [Ended(s, 200, <<Event("success", TRUE)>>) EXCEPT
                        !.upstream = a, !.reply = Said(a),
                        !.form = IF q.body.stream THEN "sse" ELSE "json"]]
        /\ IF s.key = NoKey THEN table' = table
           ELSE table' \in AfterStore(table, s.key, Hop(r).model, Said(a), now)
  BY DEF AnswerWhole, IInv, RequestsInv
<1>2. s.pc = "waiting" /\ RequestInv(s, q, Planned(r))
  BY DEF AnswerWhole, IInv, RequestsInv
<1>3. PICK reply : reply = Said(a)
  OBVIOUS
<1>4. PICK t : t = [Ended(s, 200, <<Event("success", TRUE)>>) EXCEPT
                      !.upstream = a, !.reply = reply,
                      !.form = IF q.body.stream THEN "sse" ELSE "json"]
  OBVIOUS
<1>5. req' = [req EXCEPT ![r] = t]
  BY <1>1, <1>3, <1>4
<1>6. IsRequest(s) /\ s.events = <<>> /\ p \in Registered /\ s.key \in {NoKey, CacheKey(q)}
  BY <1>2 DEF RequestInv, UnderWay, Hop
<1>7. Answered(t, s, q, a, reply)
  <2> HIDE DEF s, q
  <2> QED BY <1>4, <1>6, AnsweredRequest
<1>8. a # NoAnswer
  BY UpstreamAssumption, AnswerProtocolKnown
<1>9. ASSUME s.key # NoKey
      PROVE  Remains(table', table, s.key, reply, now)
  <2>1. q.surface = "messages"
    <3> HIDE DEF q, s
    <3> QED BY <1>6, <1>9, KeySays
  <2>2. SizeOf(reply) \in Nat
    <3>1. /\ asked = Asked("messages", s.body, p)
          /\ a \in UpstreamAnswers[AnswerProtocol("messages", p)]
          /\ reply = Render("messages", p, ParseResponse(a, p, asked))
      BY <1>3, <2>1
    <3> HIDE DEF s, p, asked
    <3>2. SizeOf(Render("messages", p, ParseResponse(a, p, asked))) \in Nat
      BY <1>6, <3>1, AnswerHasSize
    <3> QED BY <3>1, <3>2
  <2>3. PICK next : next = table'
    OBVIOUS
  <2>4. PICK model : model = Hop(r).model
    OBVIOUS
  <2>5. PICK key : key = s.key
    OBVIOUS
  <2>6. next \in AfterStore(table, key, model, reply, now)
    BY <1>1, <1>3, <1>9, <2>3, <2>4, <2>5
  <2>7. Sized(table)
    BY TableIsSized DEF IInv
  <2>8. /\ TotalSize(table) <= CacheBudget /\ now \in Nat
        /\ \A k \in DOMAIN table : table[k].created \in Nat /\ table[k].created <= now
    BY DEF IInv, CacheInv, RowInv
  <2> HIDE DEF s, q, p, asked, Said
  <2>9. Remains(next, table, key, reply, now)
    BY <2>2, <2>6, <2>7, <2>8, StoreLeaves
  <2> QED BY <2>3, <2>5, <2>9
<1> HIDE DEF asked, Said, p
<1> QED BY <1>1, <1>5, <1>7, <1>8, <1>9

LEMMA AnswerWholeKeeps ==
  ASSUME IInv, NEW r \in DOMAIN inbox, AnswerWhole(r)
  PROVE  IInv'
<1> DEFINE s == req[r]
<1> DEFINE q == inbox[r]
<1>1. PICK t, a, reply :
        /\ req' = [req EXCEPT ![r] = t] /\ Answered(t, s, q, a, reply)
        /\ a # NoAnswer
        /\ IF s.key = NoKey THEN table' = table
           ELSE Remains(table', table, s.key, reply, now)
  BY AnswerWholeSays
<1>2. /\ s.pc = "waiting" /\ q.surface # "count_tokens"
      /\ config' = config /\ inbox' = inbox /\ now' = now
  BY DEF AnswerWhole
<1>3. RequestInv(s, q, Planned(r))
  BY DEF IInv, RequestsInv
<1>4. UnderWay(s, Planned(r)) /\ s.key \in {NoKey, CacheKey(q)}
  BY <1>2, <1>3 DEF RequestInv
<1> HIDE DEF s, q
<1>5. Reported(t, q, Planned(r)) /\ t.events # <<Event("cache_hit", FALSE)>>
  <2>1. /\ t.events = <<Event("success", TRUE)>> /\ t.status = 200
        /\ t.sent # <<>> /\ t.upstream # NoAnswer /\ Planned(r)
    BY <1>1, <1>4 DEF Answered, UnderWay
  <2>2. q.surface # "count_tokens"
    BY <1>2
  <2>3. Planned(r) = TRUE
    BY <2>1
  <2>4. Reported(t, q, TRUE) /\ t.events # <<Event("cache_hit", FALSE)>>
    <3>1. Succeeded(t, q)
      BY Zenon, <2>1, <2>2 DEF Succeeded
    <3> QED BY Zenon, <3>1, SuccessReport
  <2> QED BY <2>3, <2>4
<1>6. RequestInv(t, q, Planned(r))
  BY <1>1, <1>5 DEF RequestInv, Answered
<1>7. RequestsInv'
  BY <1>1, <1>2, <1>6, RequestsKept DEF IInv, q
<1>8. HitIsDeserved'
  BY <1>1, <1>2, <1>5, HitsKept DEF IInv, s
<1>9. CASE s.key = NoKey
  <2>1. CacheInv'
    BY <1>1, <1>2, <1>9, TableKept DEF IInv, s
  <2> QED BY <1>7, <1>8, <2>1 DEF IInv
<1>10. CASE s.key # NoKey
  <2>1. Remains(table', table, s.key, reply, now) /\ s.key = CacheKey(q)
    BY <1>1, <1>4, <1>10
  <2>2. now \in Nat /\ now' \in Nat /\ now <= now'
    BY <1>2 DEF IInv, CacheInv
  <2>3. \A k \in DOMAIN table' : RowInv(k)'
    <3> TAKE k \in DOMAIN table'
    <3>1. CASE k = s.key
      <4>1. /\ table'[k].answer = reply /\ table'[k].created = now
            /\ table'[k].expires = now + CacheTtl /\ SizeOf(table'[k].answer) \in Nat
        BY <2>1, <3>1 DEF Remains, Sized
      <4>2. req'[r] = t
        BY <1>1 DEF IInv, RequestsInv
      <4>3. Stored(table'[k], k, req'[r], inbox[r])
        BY <1>1, <2>1, <3>1, <4>1, <4>2 DEF Stored, Answered, q
      <4>4. \E x \in DOMAIN inbox' : Stored(table'[k], k, req'[x], inbox'[x])
        BY <1>2, <4>3
      <4> QED BY <1>2, <1>10, <2>2, <3>1, <4>1, <4>4 DEF RowInv
    <3>2. CASE k # s.key
      <4>1. k \in DOMAIN table /\ table'[k] = table[k]
        BY <2>1, <3>2 DEF Remains
      <4>2. RowInv(k)
        BY <4>1 DEF IInv, CacheInv
      <4> QED BY <1>1, <1>2, <2>2, <4>1, <4>2, RowKept DEF IInv, s
    <3> QED BY <3>1, <3>2
  <2>4. /\ table' = [k \in DOMAIN table' |-> table'[k]] /\ IsFiniteSet(DOMAIN table')
        /\ TotalSize(table)' <= CacheBudget
    BY <2>1 DEF Remains, Sized, TotalSize, Units
  <2>5. CacheInv'
    BY <2>2, <2>3, <2>4 DEF CacheInv
  <2> QED BY <1>7, <1>8, <2>5 DEF IInv
<1> QED BY <1>9, <1>10

------------------------------------------------------------------------------
(* The theorems                                                            *)

LEMMA NextKeeps == IInv /\ [Next]_vars => IInv'
<1> SUFFICES ASSUME IInv, [Next]_vars
             PROVE  IInv'
  OBVIOUS
<1>1. ASSUME NEW r \in DOMAIN inbox, Receive(r)
      PROVE  IInv'
  BY <1>1, ReceiveKeeps
<1>2. ASSUME NEW r \in DOMAIN inbox, FallBack(r)
      PROVE  IInv'
  BY <1>2, FallBackKeeps
<1>3. ASSUME NEW r \in DOMAIN inbox, Fail(r)
      PROVE  IInv'
  BY <1>3, FailKeeps
<1>4. ASSUME NEW r \in DOMAIN inbox, AnswerStreamed(r)
      PROVE  IInv'
  BY <1>4, AnswerStreamedKeeps
<1>5. ASSUME NEW r \in DOMAIN inbox, EndStream(r)
      PROVE  IInv'
  BY <1>5, EndStreamKeeps
<1>6. ASSUME NEW r \in DOMAIN inbox, AnswerWhole(r)
      PROVE  IInv'
  BY <1>6, AnswerWholeKeeps
<1>7. ASSUME NEW r \in DOMAIN inbox, AnswerCount(r)
      PROVE  IInv'
  BY <1>7, AnswerCountKeeps
<1>8. CASE Tick
  BY <1>8, TickKeeps
<1>9. CASE UNCHANGED vars
  <2>1. /\ config' = config /\ inbox' = inbox /\ req' = req /\ table' = table
        /\ now' = now
    BY <1>9 DEF vars
  <2>2. RequestsInv'
    <3>1. \A o \in DOMAIN inbox : Planned(o)' = Planned(o)
      BY <2>1 DEF Planned, Plan
    <3> QED BY <2>1, <3>1 DEF IInv, RequestsInv
  <2>3. CacheInv'
    <3>1. \A k \in DOMAIN table' : RowInv(k)'
      BY <2>1 DEF IInv, CacheInv, RowInv
    <3> QED BY <2>1, <3>1 DEF IInv, CacheInv, TotalSize, Units
  <2>4. HitIsDeserved'
    BY <2>1 DEF IInv, HitIsDeserved
  <2> QED BY <2>2, <2>3, <2>4 DEF IInv
<1> QED BY <1>1, <1>2, <1>3, <1>4, <1>5, <1>6, <1>7, <1>8, <1>9 DEF Next

LEMMA InvariantHolds == Spec => []IInv
<1> QED BY InitHolds, NextKeeps, PTL DEF Spec

(* Whatever early return a planned request takes, through whatever hops,   *)
(* it ends with the one usage event that tells what it was answered        *)
(* (EventTellsTheAnswer), for every configuration and registry.            *)
THEOREM EventsTellTheAnswer == Spec => []EventTellsTheAnswer
<1>1. IInv => EventTellsTheAnswer
  <2> SUFFICES ASSUME IInv, NEW r \in DOMAIN inbox
               PROVE  IF ~ Planned(r) \/ inbox[r].surface = "count_tokens"
                      THEN req[r].events = <<>>
                      ELSE /\ Len(req[r].events) = IF Done(r) THEN 1 ELSE 0
                           /\ Done(r) => Tells(req[r], LastEvent(r))
    BY DEF EventTellsTheAnswer, Tells
  <2>1. RequestInv(req[r], inbox[r], Planned(r))
    BY DEF IInv, RequestsInv
  <2>2. CASE req[r].pc \in {"new", "waiting", "streaming"}
    <3>1. req[r].events = <<>>
      <4>1. CASE req[r].pc = "new"
        <5>1. req[r] = Idle(inbox[r].body)
          BY <2>1, <4>1 DEF RequestInv
        <5> QED BY <5>1, IdleRequest
      <4>2. CASE req[r].pc \in {"waiting", "streaming"}
        BY <2>1, <4>2 DEF RequestInv, UnderWay
      <4> QED BY <2>2, <4>1, <4>2
    <3>2. ~ Done(r)
      BY <2>2 DEF Done
    <3> QED BY <3>1, <3>2
  <2>3. CASE req[r].pc = "done"
    <3>1. Reported(req[r], inbox[r], Planned(r))
      BY <2>1, <2>3 DEF RequestInv
    <3>2. CASE ~ Planned(r) \/ inbox[r].surface = "count_tokens"
      BY <3>1, <3>2 DEF Reported
    <3>3. CASE ~ (~ Planned(r) \/ inbox[r].surface = "count_tokens")
      <4>1. PICK e : req[r].events = <<e>> /\ Tells(req[r], e)
        BY <3>1, <3>3 DEF Reported
      <4>2. Len(<<e>>) = 1 /\ <<e>>[1] = e
        OBVIOUS
      <4>3. Len(req[r].events) = 1 /\ LastEvent(r) = e
        BY <4>1, <4>2 DEF LastEvent
      <4> QED BY <2>3, <3>3, <4>1, <4>3 DEF Done
    <3> QED BY <3>2, <3>3
  <2> QED BY <2>1, <2>2, <2>3 DEF RequestInv
<1> QED BY <1>1, InvariantHolds, PTL

(* A cache hit repeats an answer that was given, whole and within the time *)
(* to live, to the same question (HitIsDeserved), whatever was evicted,    *)
(* replaced or let expire in between.                                      *)
THEOREM HitsAreDeserved == Spec => []HitIsDeserved
<1>1. IInv => HitIsDeserved
  BY DEF IInv
<1> QED BY <1>1, InvariantHolds, PTL

LEMMA StoringStep ==
  ASSUME IInv, [Next]_vars, NEW r \in DOMAIN inbox,
         req[r].pc = "waiting", req'[r].pc = "done", req'[r].status = 200,
         req[r].key # NoKey
  PROVE  \E reply : /\ req'[r].reply = reply
                    /\ Remains(table', table, req[r].key, reply, now)
<1>1. RequestInv(req[r], inbox[r], Planned(r))
  BY DEF IInv, RequestsInv
<1>2. inbox[r].surface = "messages"
  <2>1. req[r].key = CacheKey(inbox[r])
    BY <1>1 DEF RequestInv
  <2> QED BY <2>1, KeySays
<1>3. PICK o \in DOMAIN inbox :
        \/ Receive(o) \/ FallBack(o) \/ Fail(o)
        \/ AnswerStreamed(o) \/ EndStream(o) \/ AnswerWhole(o) \/ AnswerCount(o)
  <2>1. req' # req
    OBVIOUS
  <2> QED BY <2>1 DEF Next, Tick, vars
<1>4. o = r
  <2>1. \E t : req' = [req EXCEPT ![o] = t]
    <3>1. CASE Receive(o)
      BY <3>1 DEF Receive
    <3>2. CASE FallBack(o)
      BY <3>2 DEF FallBack, IInv, RequestsInv
    <3>3. CASE Fail(o)
      BY <3>3, FailKeeps
    <3>4. CASE AnswerStreamed(o)
      BY <3>4 DEF AnswerStreamed, IInv, RequestsInv
    <3>5. CASE EndStream(o)
      BY <3>5 DEF EndStream, IInv, RequestsInv
    <3>6. CASE AnswerWhole(o)
      BY <3>6, AnswerWholeSays
    <3>7. CASE AnswerCount(o)
      BY <3>7 DEF AnswerCount, IInv, RequestsInv
    <3> QED BY <1>3, <3>1, <3>2, <3>3, <3>4, <3>5, <3>6, <3>7
  <2>2. PICK t : req' = [req EXCEPT ![o] = t]
    BY <2>1
  <2>3. req' = [x \in DOMAIN inbox |-> IF x = o THEN t ELSE req[x]]
    BY <2>2 DEF IInv, RequestsInv
  <2>4. req'[r] # req[r]
    OBVIOUS
  <2> QED BY <2>3, <2>4
<1>5. ~ Receive(r) /\ ~ EndStream(r) /\ ~ AnswerCount(r)
  BY <1>2 DEF Receive, EndStream, AnswerCount
<1>6. ~ Fail(r)
  BY FailKeeps
<1>7. ~ FallBack(r)
  <2> SUFFICES ASSUME FallBack(r) PROVE FALSE
    OBVIOUS
  <2> DEFINE s == req[r]
  <2>1. PICK hops : hops = Tail(s.hops)
    OBVIOUS
  <2>2. PICK surface : surface = "messages"
    OBVIOUS
  <2>3. req' = [req EXCEPT ![r] = Dispatch(s, surface, hops)]
    BY <2>1, <2>2 DEF FallBack, IInv, RequestsInv
  <2>4. req'[r] = Dispatch(s, surface, hops)
    BY <2>3 DEF IInv, RequestsInv
  <2>5. IsRequest(s) /\ s.events = <<>>
    BY <1>1 DEF RequestInv, UnderWay
  <2> HIDE DEF s
  <2>6. LET t == Dispatch(s, surface, hops) IN Asking(t, s) \/ Refused(t, surface, s)
    BY <2>5, DispatchSays
  <2> QED BY <2>4, <2>6 DEF Asking, Refused
<1>8. ~ AnswerStreamed(r)
  <2> SUFFICES ASSUME AnswerStreamed(r) PROVE FALSE
    OBVIOUS
  <2> DEFINE s == req[r]
  <2> DEFINE q == inbox[r]
  <2> DEFINE p == Hop(r).provider
  <2> DEFINE T(x) == [s EXCEPT !.pc = "streaming", !.status = 200, !.form = "sse",
                               !.upstream = x]
  <2>1. PICK a \in UpstreamAnswers[AnswerProtocol(q.surface, p)] :
          req' = [req EXCEPT ![r] = T(a)]
    BY DEF AnswerStreamed, IInv, RequestsInv
  <2>3. PICK t : t = [s EXCEPT !.pc = "streaming", !.status = 200, !.form = "sse",
                               !.upstream = a]
    OBVIOUS
  <2>4. req'[r] = t
    BY <2>1, <2>3 DEF IInv, RequestsInv
  <2>5. IsRequest(s)
    BY <1>1 DEF RequestInv
  <2> HIDE DEF s
  <2>6. t.pc = "streaming"
    BY <2>3, <2>5 DEF IsRequest, RequestFields
  <2> QED BY <2>4, <2>6
<1>9. AnswerWhole(r)
  BY <1>3, <1>4, <1>5, <1>6, <1>7, <1>8
<1>10. PICK t, a, reply :
         /\ req' = [req EXCEPT ![r] = t] /\ Answered(t, req[r], inbox[r], a, reply)
         /\ IF req[r].key = NoKey THEN table' = table
            ELSE Remains(table', table, req[r].key, reply, now)
  BY <1>9, AnswerWholeSays
<1>11. req'[r] = t
  BY <1>10 DEF IInv, RequestsInv
<1> QED BY <1>10, <1>11 DEF Answered

(* A store evicts the oldest rows and no more than it must, and the answer *)
(* just stored stays unless it is too large or no younger than another     *)
(* (StoreMakesRoom), for every size and every time to live.                *)
THEOREM RoomIsMade == Spec => StoreMakesRoom
<1>1. IInv /\ [Next]_vars =>
        [\A r \in DOMAIN inbox :
           /\ req[r].pc = "waiting" /\ req'[r].pc = "done" /\ req'[r].status = 200
           /\ req[r].key # NoKey
           => LET key  == req[r].key
                  gone == (DOMAIN table \cup {key}) \ DOMAIN table'
              IN  /\ TotalSize(table') <= CacheBudget
                  /\ \A g \in gone \ {key}, k \in DOMAIN table' \ {key} :
                       table[g].created <= table[k].created
                  /\ \/ key \in DOMAIN table' /\ table'[key].answer = req'[r].reply
                     \/ SizeOf(req'[r].reply) > CacheBudget
                     \/ \E k \in DOMAIN table' : table[k].created = now]_vars
  <2> SUFFICES ASSUME IInv, [Next]_vars, NEW r \in DOMAIN inbox,
                      req[r].pc = "waiting", req'[r].pc = "done", req'[r].status = 200,
                      req[r].key # NoKey
               PROVE  LET key  == req[r].key
                          gone == (DOMAIN table \cup {key}) \ DOMAIN table'
                      IN  /\ TotalSize(table') <= CacheBudget
                          /\ \A g \in gone \ {key}, k \in DOMAIN table' \ {key} :
                               table[g].created <= table[k].created
                          /\ \/ key \in DOMAIN table' /\ table'[key].answer = req'[r].reply
                             \/ SizeOf(req'[r].reply) > CacheBudget
                             \/ \E k \in DOMAIN table' : table[k].created = now
    OBVIOUS
  <2>1. PICK reply : req'[r].reply = reply /\ Remains(table', table, req[r].key, reply, now)
    BY StoringStep
  <2> QED BY <2>1 DEF Remains
<1> QED BY <1>1, InvariantHolds, PTL DEF Spec, StoreMakesRoom

------------------------------------------------------------------------------
(* Tools                                                                   *)

(* The order of authorization.ts's rules says what MayUse says without it. *)
LEMMA PolicyAgrees ==
  ASSUME NEW q, NEW tool
  PROVE  (EffectivePolicy(tool, ActivePacks(q.headers.toolTask, q.headers.toolAgent),
                          q.headers.toolAgent) = "allow")
         <=> MayUse(tool, q)
<1> DEFINE agent == q.headers.toolAgent
<1> DEFINE packs == ActivePacks(q.headers.toolTask, agent)
<1> DEFINE I == {i \in 1..Len(packs) : Lists(Packs[packs[i]], tool)}
<1> DEFINE first == IF I # {} THEN Min(I) ELSE 0
<1> DEFINE says(i) == /\ Lists(Packs[packs[i]], tool)
                      /\ EntryPolicy(Packs[packs[i]], tool) = "allow"
                      /\ \A j \in 1..(i - 1) : ~ Lists(Packs[packs[j]], tool)
<1> DEFINE packed == IF first = 0 THEN "deny"
                     ELSE EntryPolicy(Packs[packs[first]], tool)
<1> DEFINE overridden == agent \in DOMAIN Agents /\ tool \in DOMAIN Agents[agent].overrides
<1>1. EffectivePolicy(tool, packs, agent) =
        IF tool \in DenyList THEN "deny"
        ELSE IF overridden THEN Agents[agent].overrides[tool]
        ELSE packed
  <2> HIDE DEF packs
  <2> QED BY DEF EffectivePolicy, SelectInSeq
<1>2. MayUse(tool, q) <=>
        /\ tool \notin DenyList
        /\ \/ overridden /\ Agents[agent].overrides[tool] = "allow"
           \/ ~ overridden /\ \E i \in 1..Len(packs) : says(i)
  BY DEF MayUse
<1> HIDE DEF packs, agent
<1>3. packed = "allow" <=> \E i \in 1..Len(packs) : says(i)
  <2>1. CASE I = {}
    <3>1. \A i \in 1..Len(packs) : ~ Lists(Packs[packs[i]], tool)
      BY <2>1
    <3>2. first = 0
      BY <2>1
    <3> QED BY <3>1, <3>2
  <2>2. CASE I # {}
    <3>1. I \in SUBSET Nat /\ \A i \in I : i >= 1
      OBVIOUS
    <3>2. Min(I) \in I /\ \A i \in I : Min(I) <= i
      <4> HIDE DEF I
      <4>1. \E x \in I : \A y \in I : x <= y
        BY <2>2, <3>1, LeastElement
      <4> QED BY <4>1 DEF Min
    <3>3. PICK m : m = Min(I)
      OBVIOUS
    <3>4. /\ m \in 1..Len(packs) /\ m \in Nat /\ m >= 1
          /\ Lists(Packs[packs[m]], tool)
      BY <3>1, <3>2, <3>3
    <3>5. \A i \in 1..Len(packs) : Lists(Packs[packs[i]], tool) => m <= i
      BY <3>2, <3>3
    <3>6. packed = EntryPolicy(Packs[packs[m]], tool)
      BY <2>2, <3>3, <3>4
    <3> HIDE DEF packed, first, I
    <3>7. \A j \in 1..(m - 1) : ~ Lists(Packs[packs[j]], tool)
      <4> SUFFICES ASSUME NEW j \in 1..(m - 1), Lists(Packs[packs[j]], tool)
                   PROVE  FALSE
        OBVIOUS
      <4>1. j \in 1..Len(packs) /\ j < m /\ j \in Int
        BY <3>4
      <4> QED BY <3>4, <3>5, <4>1
    <3>8. ASSUME NEW i \in 1..Len(packs), says(i)
          PROVE  i = m
      <4>1. m <= i
        BY <3>5, <3>8
      <4>2. ~ (m < i)
        <5> SUFFICES ASSUME m < i PROVE FALSE
          OBVIOUS
        <5>1. m \in 1..(i - 1)
          BY <3>4
        <5> QED BY <3>4, <3>8, <5>1
      <4> QED BY <3>4, <4>1, <4>2
    <3>9. says(m) <=> EntryPolicy(Packs[packs[m]], tool) = "allow"
      BY <3>4, <3>7
    <3> HIDE DEF says
    <3> QED BY <3>4, <3>6, <3>8, <3>9
  <2> QED BY <2>1, <2>2
<1> HIDE DEF packed, says
<1>4. EffectivePolicy(tool, packs, agent) = "allow" <=> MayUse(tool, q)
  BY <1>1, <1>2, <1>3
<1> QED BY <1>4 DEF packs, agent

LEMMA NamesSay ==
  ASSUME NEW tools \in Seq(STRING)
  PROVE  RequestedNames(tools) \in Seq(STRING)
<1>1. PICK S : S = ToSet(tools) \ {""}
  OBVIOUS
<1>2. Keep(tools, S) \in Seq(STRING)
  BY KeepSays
<1> QED BY <1>1, <1>2 DEF RequestedNames

LEMMA KeptAllOf ==
  ASSUME NEW R, NEW s \in Seq(R), NEW S, Keep(s, S) = s
  PROVE  \A t \in ToSet(s) : t \in S
<1>1. \A i \in 1..Len(s) : s[i] \in S
  BY KeepSays DEF Subsequence
<1>2. DOMAIN s = 1..Len(s)
  OBVIOUS
<1> QED BY <1>1, <1>2 DEF ToSet

LEMMA KeptAll ==
  ASSUME NEW R, NEW s \in Seq(R), NEW S, \A t \in ToSet(s) : t \in S
  PROVE  Keep(s, S) = s
<1>1. PICK T : T = ToSet(s)
  OBVIOUS
<1>2. s \in Seq(T)
  <2>1. \A i \in DOMAIN s : s[i] \in T
    BY <1>1 DEF ToSet
  <2> QED BY <2>1
<1>3. T \subseteq S
  BY <1>1
<1> QED BY <1>2, <1>3, KeepAll

LEMMA ToolsOfSays ==
  ASSUME NEW q, q.body.tools \in Seq(STRING)
  PROVE  /\ ToolsOf(q).tools = Permitted(q)
         /\ ToolsOf(q).action # "reject" /\ Permitted(q) = <<>> => q.body.tools = <<>>
<1> DEFINE agent == q.headers.toolAgent
<1> DEFINE packs == ActivePacks(q.headers.toolTask, agent)
<1>1. PICK tools \in Seq(STRING) : tools = q.body.tools
  OBVIOUS
<1>2. PICK named \in Seq(STRING) : named = RequestedNames(tools)
  BY NamesSay
<1>3. PICK S : S = {t \in ToSet(named) : MayUse(t, q)}
  OBVIOUS
<1>4. {t \in ToSet(named) : EffectivePolicy(t, packs, agent) = "allow"} = S
  BY <1>3, PolicyAgrees
<1>5. PICK allowed : allowed = CheckTools(named, packs, agent)
  OBVIOUS
<1>6. allowed = IF ~ ToolsEnforced THEN named ELSE Keep(named, S)
  BY <1>4, <1>5 DEF CheckTools
<1>7. ToolsOf(q) = IF allowed = named
                   THEN [action |-> "allow", tools |-> tools]
                   ELSE [action |-> IF allowed = <<>> THEN "reject" ELSE "strip",
                         tools |-> allowed]
  BY <1>1, <1>2, <1>5 DEF ToolsOf, Enforced
<1>8. Permitted(q) = IF ~ ToolsEnforced \/ \A t \in ToSet(named) : MayUse(t, q)
                     THEN tools ELSE Keep(named, S)
  BY <1>1, <1>2, <1>3 DEF Permitted
<1>9. allowed = named <=> ~ ToolsEnforced \/ \A t \in ToSet(named) : MayUse(t, q)
  <2>1. Keep(named, S) = named => \A t \in ToSet(named) : t \in S
    BY KeptAllOf
  <2>2. (\A t \in ToSet(named) : t \in S) => Keep(named, S) = named
    BY KeptAll
  <2>3. (\A t \in ToSet(named) : t \in S) <=> (\A t \in ToSet(named) : MayUse(t, q))
    BY <1>3
  <2> QED BY <1>6, <2>1, <2>2, <2>3
<1>10. CASE allowed = named
  <2>1. Permitted(q) = tools
    BY <1>8, <1>9, <1>10
  <2>2. ToolsOf(q).tools = tools
    BY <1>7, <1>10
  <2> QED BY <1>1, <2>1, <2>2
<1>11. CASE allowed # named
  <2>1. Permitted(q) = allowed
    BY <1>6, <1>8, <1>9, <1>11
  <2>2. ToolsOf(q).tools = allowed
    BY <1>7, <1>11
  <2>3. ToolsOf(q).action = IF allowed = <<>> THEN "reject" ELSE "strip"
    BY <1>7, <1>11
  <2> QED BY <2>1, <2>2, <2>3
<1> QED BY <1>10, <1>11

(* Translation loses and adds no tools; a hosted tool leaves the gateway   *)
(* on the Responses surface's way to OpenAI alone, if the body had it.     *)
HasFields(b) == b = [f \in DOMAIN Blank |-> b[f]]

LEMMA WireKeeps ==
  ASSUME NEW surface, NEW b, HasFields(b), NEW p
  PROVE  LET w == WireBody(surface, b, p)
         IN  /\ w.tools = b.tools
             /\ w.hosted \in {{}, b.hosted}
             /\ surface = "responses" /\ p # "openai" => w.hosted = {}
<1> DEFINE Fields == DOMAIN Blank
<1> DEFINE asked == Asked(surface, b, p)
<1>1. Fields = {"system", "turns", "tools", "hosted", "choice", "maxTokens",
                "temperature", "thinking", "effort", "parallel", "stream"}
      /\ Blank.hosted = {}
  BY DEF Blank
<1> DEFINE g == GatewayBody(surface, b, p)
<1>2. /\ "stream" \in DOMAIN g /\ "tools" \in DOMAIN g /\ "hosted" \in DOMAIN g
      /\ g.tools = b.tools
      /\ g.hosted \in {{}, b.hosted}
      /\ surface = "responses" /\ p # "openai" => g.hosted = {}
  <2>1. LET c == AnthropicToOpenAIRequest(b, p) IN
        DOMAIN c = Fields /\ c.tools = b.tools /\ c.hosted = {}
    BY <1>1 DEF AnthropicToOpenAIRequest, Blank
  <2>2. \A d, capable :
          LET c == ResponsesToChatBody(d, p, capable) IN
          DOMAIN c = Fields /\ c.tools = d.tools /\ c.hosted = {}
    BY ZenonT(40), <1>1 DEF ResponsesToChatBody, Blank
  <2>3. LET c == ChatToAnthropicRequest(b) IN
        DOMAIN c = Fields /\ c.tools = b.tools /\ c.hosted = {}
    BY <1>1 DEF ChatToAnthropicRequest, Blank
  <2>4. DOMAIN b = Fields
    BY DEF HasFields
  <2> DEFINE d == [b EXCEPT !.turns = [i \in DOMAIN @ |-> NormalizeItem(@[i])]]
  <2>5. d.tools = b.tools
    BY <1>1, <2>4
  <2>6. CASE surface = "messages" /\ p # "anthropic"
    <3>1. g = AnthropicToOpenAIRequest(b, p)
      BY <2>6 DEF GatewayBody
    <3> HIDE DEF g, Fields
    <3> QED BY <1>1, <2>1, <2>6, <3>1
  <2>7. CASE surface = "responses" /\ ProtocolTo(surface, p) = "openai_chat"
    <3>1. g = ResponsesToChatBody(d, p, Capable(p))
      BY <2>7 DEF GatewayBody
    <3> HIDE DEF g, d, Fields
    <3> QED BY <1>1, <2>2, <2>5, <3>1
  <2>8. CASE surface = "chat" /\ p = "anthropic"
    <3>1. g = ChatToAnthropicRequest(b)
      BY <2>8 DEF GatewayBody
    <3> HIDE DEF g, Fields
    <3> QED BY <1>1, <2>3, <2>8, <3>1
  <2>9. CASE /\ ~ (surface = "messages" /\ p # "anthropic")
             /\ ~ (surface = "responses" /\ ProtocolTo(surface, p) = "openai_chat")
             /\ ~ (surface = "chat" /\ p = "anthropic")
    <3>1. g = b
      BY <2>9 DEF GatewayBody
    <3>2. surface = "responses" => p = "openai"
      BY <2>9 DEF ProtocolTo, UpstreamProtocols
    <3> HIDE DEF g, Fields
    <3> QED BY <1>1, <2>4, <3>1, <3>2
  <2> QED BY <2>6, <2>7, <2>8, <2>9
<1> DEFINE h == [g EXCEPT !.stream = asked]
<1>3. h.tools = g.tools /\ h.hosted = g.hosted
  <2> HIDE DEF g, asked
  <2> QED BY <1>2
<1>4. WireBody(surface, b, p) = CASE p = "google" -> ChatToGeminiRequest(h)
                                  [] p = "ollama" -> ChatToOllamaRequest(h)
                                  [] OTHER -> h
  BY DEF WireBody
<1> HIDE DEF h, g
<1>5. ChatToGeminiRequest(h).tools = h.tools /\ ChatToGeminiRequest(h).hosted = {}
  BY <1>1 DEF ChatToGeminiRequest, Blank
<1>6. ChatToOllamaRequest(h).tools = h.tools /\ ChatToOllamaRequest(h).hosted = {}
  BY <1>1 DEF ChatToOllamaRequest, Blank
<1> DEFINE w == WireBody(surface, b, p)
<1>7. w.tools = h.tools /\ w.hosted \in {{}, h.hosted}
  BY <1>4, <1>5, <1>6
<1> HIDE DEF w
<1>8. /\ w.tools = b.tools /\ w.hosted \in {{}, b.hosted}
      /\ surface = "responses" /\ p # "openai" => w.hosted = {}
  BY <1>2, <1>3, <1>7
<1> QED BY <1>8 DEF w

------------------------------------------------------------------------------
(* What the handlers send                                                  *)

BodyOk(q) ==
  /\ HasFields(q.body) /\ q.body.tools \in Seq(STRING)
  /\ q.surface # "responses" => q.body.hosted = {}

(* A body that the tool policy has been applied to.                        *)
Cleared(b, q) ==
  /\ HasFields(b)
  /\ b.tools = Permitted(q) /\ (b.tools = <<>> => q.body.tools = <<>>)
  /\ b.hosted = q.body.hosted

Lawful(x, q) ==
  /\ x.body.tools = Permitted(q) /\ (x.body.tools = <<>> => q.body.tools = <<>>)
  /\ x.body.hosted # {} => x.hop.provider = "openai" /\ x.body.hosted \subseteq AllowedHosted

ToolsInv(s, q) ==
  q.surface # "count_tokens" =>
    /\ s.pc = "waiting" => Cleared(s.body, q)
    /\ \A i \in DOMAIN s.sent : Lawful(s.sent[i], q)

LEMMA SettledTools ==
  ASSUME NEW s, NEW q, ToolsInv(s, q), NEW t, t.pc # "waiting", t.sent = s.sent
  PROVE  ToolsInv(t, q)
<1> DEFINE w == s.sent
<1>1. t.sent = w /\ (q.surface # "count_tokens" => \A i \in DOMAIN w : Lawful(w[i], q))
  BY DEF ToolsInv
<1> HIDE DEF w
<1> QED BY <1>1 DEF ToolsInv

LEMMA UnsentTools ==
  ASSUME NEW q, NEW t, t.pc # "waiting", t.sent = <<>>
  PROVE  ToolsInv(t, q)
<1>1. DOMAIN t.sent = {}
  OBVIOUS
<1> QED BY <1>1 DEF ToolsInv

LEMMA LawfulHop ==
  ASSUME NEW q, BodyOk(q), NEW b, Cleared(b, q), NEW hop,
         q.surface = "responses" => HostedPass(q.body.hosted, hop.provider)
  PROVE  Lawful([hop |-> hop, body |-> WireBody(q.surface, b, hop.provider)], q)
<1> DEFINE p == hop.provider
<1>1. PICK w : w = WireBody(q.surface, b, p)
  OBVIOUS
<1>2. PICK surface : surface = q.surface
  OBVIOUS
<1>3. /\ w.tools = b.tools /\ w.hosted \in {{}, b.hosted}
      /\ surface = "responses" /\ p # "openai" => w.hosted = {}
  <2> HIDE DEF p
  <2>1. HasFields(b)
    BY DEF Cleared
  <2> QED BY <1>1, <1>2, <2>1, WireKeeps
<1> DEFINE x == [hop |-> hop, body |-> w]
<1>4. x.body = w /\ x.hop = hop
  OBVIOUS
<1> HIDE DEF x
<1>5. w.hosted # {} => p = "openai" /\ w.hosted \subseteq AllowedHosted
  BY <1>2, <1>3 DEF Cleared, BodyOk, HostedPass
<1>6. Lawful(x, q)
  BY <1>3, <1>4, <1>5 DEF Lawful, Cleared
<1> QED BY <1>1, <1>6 DEF x

LEMMA DispatchTools ==
  ASSUME NEW s, IsRequest(s), NEW q, BodyOk(q), NEW hops,
         hops[1].provider \in Registered =>
           /\ Cleared(s.body, q)
           /\ q.surface = "responses" => HostedPass(q.body.hosted, hops[1].provider),
         \A i \in DOMAIN s.sent : Lawful(s.sent[i], q)
  PROVE  ToolsInv(Dispatch(s, q.surface, hops), q)
<1>1. PICK surface : surface = q.surface
  OBVIOUS
<1>2. PICK t : t = Dispatch(s, surface, hops)
  OBVIOUS
<1>3. PICK hop : hop = hops[1]
  OBVIOUS
<1> DEFINE u == s.sent
<1>4. u \in Seq({u[i] : i \in DOMAIN u}) /\ \A i \in DOMAIN u : Lawful(u[i], q)
  BY DEF IsRequest
<1>5. CASE hop.provider \in Registered
  <2> DEFINE x == [hop |-> hop, body |-> WireBody(surface, s.body, hop.provider)]
  <2>1. t = [s EXCEPT !.pc = "waiting", !.hops = hops, !.sent = Append(u, x)]
    BY <1>2, <1>3, <1>5 DEF Dispatch
  <2>2. Lawful(x, q)
    <3>1. PICK b : b = s.body
      OBVIOUS
    <3>2. Cleared(b, q) /\ (q.surface = "responses" => HostedPass(q.body.hosted, hop.provider))
      BY <1>3, <1>5, <3>1
    <3> QED BY <1>1, <3>1, <3>2, LawfulHop
  <2> HIDE DEF x, u
  <2>3. t.sent = Append(u, x) /\ t.body = s.body
    BY <2>1 DEF IsRequest, RequestFields
  <2>4. \A i \in DOMAIN t.sent : Lawful(t.sent[i], q)
    <3> DEFINE S == {u[i] : i \in DOMAIN u} \cup {x}
    <3>1. u \in Seq(S) /\ x \in S
      BY <1>4
    <3> HIDE DEF S
    <3> DEFINE v == Append(u, x)
    <3>2. /\ DOMAIN v = 1..(Len(u) + 1) /\ DOMAIN u = 1..Len(u)
          /\ \A i \in 1..Len(u) : v[i] = u[i]
          /\ v[Len(u) + 1] = x /\ Len(u) \in Nat
      BY <3>1
    <3>3. t.sent = v
      BY <2>3
    <3> HIDE DEF v
    <3>4. \A i \in DOMAIN v : Lawful(v[i], q)
      <4> TAKE i \in DOMAIN v
      <4>1. CASE i = Len(u) + 1
        BY <2>2, <3>2, <4>1
      <4>2. CASE i # Len(u) + 1
        <5>1. i \in 1..Len(u)
          BY <3>2, <4>2
        <5> QED BY <1>4, <3>2, <5>1
      <4> QED BY <4>1, <4>2
    <3> QED BY <3>3, <3>4
  <2>5. Cleared(t.body, q)
    BY <1>3, <1>5, <2>3
  <2>6. ToolsInv(t, q)
    BY <2>4, <2>5 DEF ToolsInv
  <2> QED BY <1>1, <1>2, <2>6
<1>6. CASE hop.provider \notin Registered
  <2> DEFINE h == [s EXCEPT !.hops = hops]
  <2>1. PICK es : t = Ended(h, 404, es)
    BY <1>2, <1>3, <1>6 DEF Dispatch
  <2>2. PICK status : t = Ended(h, status, es)
    BY <2>1
  <2>3. h = [f \in RequestFields |-> h[f]] /\ h.sent = u
    BY DEF RequestFields, IsRequest
  <2> HIDE DEF h, u
  <2>4. IsRequest(h)
    BY <1>4, <2>3 DEF IsRequest
  <2>5. t.pc = "done" /\ t.sent = u
    BY <2>2, <2>3, <2>4, EndedRequest
  <2>6. \A i \in DOMAIN t.sent : Lawful(t.sent[i], q)
    BY <1>4, <2>5
  <2>7. ToolsInv(t, q)
    BY <2>5, <2>6 DEF ToolsInv
  <2> QED BY <1>1, <1>2, <2>7
<1> QED BY <1>5, <1>6

LEMMA AuthorizedTools ==
  ASSUME NEW s, IsRequest(s), s.sent = <<>>, NEW q, BodyOk(q), s.body = q.body,
         q.surface # "count_tokens", NEW hops
  PROVE  ToolsInv(Authorized(s, q, hops), q)
<1>1. PICK decided : decided = ToolsOf(q)
  OBVIOUS
<1>2. PICK t : t = Decided(s, q, hops, decided)
  OBVIOUS
<1> DEFINE unasked == q.surface # "messages" /\ hops[1].provider \notin Registered
<1> DEFINE h == [s EXCEPT !.body.tools = decided.tools]
<1>3. \/ \E status, es : t = Ended(s, status, es)
      \/ /\ ~ unasked /\ decided.action # "reject"
         /\ q.surface = "responses" => HostedPass(q.body.hosted, hops[1].provider)
         /\ t = Dispatch(h, q.surface, hops)
      \/ unasked /\ t = Dispatch(s, q.surface, hops)
  <2> HIDE DEF h
  <2>1. CASE unasked
    <3>1. t = Dispatch(s, q.surface, hops)
      BY <1>2, <2>1 DEF Decided
    <3> QED BY <2>1, <3>1
  <2>2. CASE ~ unasked /\ decided.action = "reject"
    <3>1. t = Ended(s, 403, <<Event("policy_rejected", TRUE)>>)
      BY <1>2, <2>2 DEF Decided
    <3> QED BY <3>1
  <2>3. CASE /\ ~ unasked /\ decided.action # "reject"
             /\ q.surface = "responses" /\ ~ HostedPass(q.body.hosted, hops[1].provider)
    <3>1. t = Ended(s, 400, <<Event("capability_unsupported", TRUE)>>)
      BY <1>2, <2>3 DEF Decided
    <3> QED BY <3>1
  <2>4. CASE /\ ~ unasked /\ decided.action # "reject"
             /\ q.surface = "responses" => HostedPass(q.body.hosted, hops[1].provider)
    <3>1. t = Dispatch(h, q.surface, hops)
      BY <1>2, <2>4 DEF Decided, h
    <3> QED BY <2>4, <3>1
  <2> QED BY <2>1, <2>2, <2>3, <2>4
<1>4. DOMAIN s.sent = {}
  OBVIOUS
<1>5. CASE \E status, es : t = Ended(s, status, es)
  <2>1. PICK status, es : t = Ended(s, status, es)
    BY <1>5
  <2>2. t.pc = "done" /\ t.sent = s.sent
    BY <2>1, EndedRequest
  <2>3. ToolsInv(t, q)
    BY <2>2, UnsentTools
  <2> QED BY <1>1, <1>2, <2>3 DEF Authorized
<1>6. CASE unasked /\ t = Dispatch(s, q.surface, hops)
  <2>1. hops[1].provider \notin Registered
    BY <1>6
  <2>2. ToolsInv(Dispatch(s, q.surface, hops), q)
    <3> HIDE DEF unasked
    <3> QED BY <1>4, <2>1, DispatchTools
  <2>3. ToolsInv(t, q)
    BY <1>6, <2>2
  <2> QED BY <1>1, <1>2, <2>3 DEF Authorized
<1>7. CASE /\ ~ unasked /\ decided.action # "reject"
           /\ q.surface = "responses" => HostedPass(q.body.hosted, hops[1].provider)
           /\ t = Dispatch(h, q.surface, hops)
  <2>1. decided.tools = Permitted(q) /\ (Permitted(q) = <<>> => q.body.tools = <<>>)
    BY <1>1, <1>7, ToolsOfSays DEF BodyOk
  <2> DEFINE b == s.body
  <2> DEFINE c == [b EXCEPT !.tools = decided.tools]
  <2>2. h = [s EXCEPT !.body = c]
    OBVIOUS
  <2>3. h = [f \in RequestFields |-> h[f]] /\ h.body = c /\ h.sent = s.sent
    <3> HIDE DEF h, c
    <3> QED BY <2>2 DEF RequestFields, IsRequest
  <2>4. Cleared(c, q)
    <3>1. HasFields(b) /\ b.hosted = q.body.hosted
      BY DEF BodyOk
    <3> HIDE DEF b
    <3>2. HasFields(c) /\ c.tools = decided.tools /\ c.hosted = b.hosted
      BY <3>1 DEF HasFields, Blank
    <3> HIDE DEF c
    <3> QED BY <2>1, <3>1, <3>2 DEF Cleared
  <2> HIDE DEF h, c, unasked, b
  <2>5. IsRequest(h) /\ h.sent = <<>>
    BY <2>3, NothingSent
  <2>6. DOMAIN h.sent = {}
    BY <2>5
  <2>7. Cleared(h.body, q)
    BY <2>3, <2>4
  <2>8. ToolsInv(Dispatch(h, q.surface, hops), q)
    BY <1>7, <2>5, <2>6, <2>7, DispatchTools
  <2>9. ToolsInv(t, q)
    BY <1>7, <2>8
  <2> QED BY <1>1, <1>2, <2>9 DEF Authorized
<1> QED
  <2> HIDE DEF unasked, h
  <2> QED BY <1>3, <1>5, <1>6, <1>7

LEMMA StartTools ==
  ASSUME NEW q, BodyOk(q), NEW decision, NEW blocked \in BOOLEAN, NEW spent \in BOOLEAN
  PROVE  ToolsInv(Start(q, decision, blocked, spent), q)
<1> SUFFICES ASSUME q.surface # "count_tokens"
             PROVE  ToolsInv(Start(q, decision, blocked, spent), q)
  BY DEF ToolsInv
<1>1. PICK t : t = Start(q, decision, blocked, spent)
  OBVIOUS
<1>2. CASE ~ Parsed(q) \/ decision = Unresolved
  <2>1. PICK s : s = Idle(q.body)
    OBVIOUS
  <2>2. IsRequest(s) /\ s.sent = <<>>
    BY <2>1, IdleRequest
  <2>3. PICK status, es : t = Ended(s, status, es)
    BY <1>1, <1>2, <2>1 DEF Start
  <2>4. t.pc = "done" /\ t.sent = s.sent
    BY <2>2, <2>3, EndedRequest
  <2> QED BY <1>1, <2>2, <2>4, UnsentTools
<1>3. CASE ~ (~ Parsed(q) \/ decision = Unresolved) /\ q.surface = "messages"
  <2>1. PICK hops : hops = <<Downgraded(decision, spent)>> \o decision.fallbacks
    OBVIOUS
  <2>2. PICK key : key = CacheKey(q)
    OBVIOUS
  <2>3. PICK s : s = [Idle(q.body) EXCEPT !.reason = decision.reason, !.key = key,
                                          !.hops = hops]
    OBVIOUS
  <2>4. t = StartMessages(q, decision, blocked, spent)
    BY <1>1, <1>3 DEF Start
  <2>5. /\ s = [f \in RequestFields |-> s[f]] /\ s.sent = <<>> /\ s.body = q.body
    BY <2>3 DEF Idle, RequestFields
  <2>6. IsRequest(s)
    BY <2>5, NothingSent
  <2>7. CASE CacheHit(table, key, now)
    <3>1. PICK h, answer, status, es :
            /\ h = Ended(s, status, es)
            /\ t = [h EXCEPT !.reply = answer]
      BY <2>1, <2>2, <2>3, <2>4, <2>7 DEF StartMessages
    <3>2. IsRequest(h) /\ h.pc = "done" /\ h.sent = s.sent
      BY <2>6, <3>1, EndedRequest
    <3>3. t.pc = "done" /\ t.sent = <<>>
      BY <2>5, <3>1, <3>2 DEF IsRequest, RequestFields
    <3> QED BY <1>1, <3>3, UnsentTools
  <2>8. CASE ~ CacheHit(table, key, now) /\ blocked
    <3>1. PICK status, es : t = Ended(s, status, es)
      BY <2>1, <2>2, <2>3, <2>4, <2>8 DEF StartMessages
    <3>2. t.pc = "done" /\ t.sent = s.sent
      BY <2>6, <3>1, EndedRequest
    <3> QED BY <1>1, <2>5, <3>2, UnsentTools
  <2>9. CASE ~ CacheHit(table, key, now) /\ ~ blocked
    <3>1. t = Authorized(s, q, hops)
      BY <2>1, <2>2, <2>3, <2>4, <2>9 DEF StartMessages
    <3>2. ToolsInv(Authorized(s, q, hops), q)
      BY <2>5, <2>6, AuthorizedTools
    <3> QED BY <1>1, <3>1, <3>2
  <2> QED BY <2>7, <2>8, <2>9
<1>4. CASE ~ (~ Parsed(q) \/ decision = Unresolved) /\ q.surface # "messages"
  <2>1. PICK hops : hops = <<decision.primary>>
    OBVIOUS
  <2>2. PICK s : s = [Idle(q.body) EXCEPT !.reason = decision.reason, !.hops = hops]
    OBVIOUS
  <2>3. t = Authorized(s, q, hops)
    BY <1>1, <1>4, <2>1, <2>2 DEF Start
  <2>4. /\ s = [f \in RequestFields |-> s[f]] /\ s.sent = <<>> /\ s.body = q.body
    BY <2>2 DEF Idle, RequestFields
  <2>5. IsRequest(s)
    BY <2>4, NothingSent
  <2>6. ToolsInv(Authorized(s, q, hops), q)
    BY <2>4, <2>5, AuthorizedTools
  <2> QED BY <1>1, <2>3, <2>6
<1> QED BY <1>2, <1>3, <1>4

(* The actions that send nothing.                                          *)
LEMMA UnsentStep ==
  ASSUME IInv, NEW r \in DOMAIN inbox,
         \/ Fail(r) \/ AnswerStreamed(r) \/ EndStream(r) \/ AnswerWhole(r) \/ AnswerCount(r)
  PROVE  \E t : req' = [req EXCEPT ![r] = t] /\ t.pc # "waiting" /\ t.sent = req[r].sent
<1> DEFINE s == req[r]
<1> DEFINE q == inbox[r]
<1>1. IsRequest(s)
  BY DEF IInv, RequestsInv, RequestInv
<1>2. CASE Fail(r)
  <2>1. PICK status, es : req' = [req EXCEPT ![r] = Ended(s, status, es)]
    BY <1>2 DEF Fail, IInv, RequestsInv
  <2>2. PICK t : t = Ended(s, status, es)
    OBVIOUS
  <2>3. t.pc = "done" /\ t.sent = s.sent
    <3> HIDE DEF s
    <3> QED BY <1>1, <2>2, EndedRequest
  <2> QED BY <2>1, <2>2, <2>3
<1>3. CASE AnswerStreamed(r)
  <2> DEFINE p == Hop(r).provider
  <2>1. PICK a : req' = [req EXCEPT ![r] = [s EXCEPT !.pc = "streaming", !.status = 200,
                                                     !.form = "sse", !.upstream = a]]
    BY <1>3 DEF AnswerStreamed, IInv, RequestsInv
  <2>3. PICK t : t = [s EXCEPT !.pc = "streaming", !.status = 200, !.form = "sse",
                               !.upstream = a]
    OBVIOUS
  <2>4. t.pc = "streaming" /\ t.sent = s.sent
    <3> HIDE DEF s
    <3> QED BY <1>1, <2>3 DEF IsRequest, RequestFields
  <2> QED BY <2>1, <2>3, <2>4
<1>4. CASE EndStream(r)
  <2>1. PICK t : t = Settled(s)
    OBVIOUS
  <2>2. req' = [req EXCEPT ![r] = t]
    BY <1>4, <2>1 DEF EndStream, IInv, RequestsInv
  <2>3. t.pc = "done" /\ t.sent = s.sent
    <3> HIDE DEF s
    <3> QED BY <1>1, <2>1 DEF Settled, IsRequest, RequestFields
  <2> QED BY <2>2, <2>3
<1>5. CASE AnswerWhole(r)
  <2>1. PICK t, a, reply :
          req' = [req EXCEPT ![r] = t] /\ Answered(t, req[r], inbox[r], a, reply)
    BY <1>5, AnswerWholeSays
  <2> QED BY <2>1 DEF Answered
<1>6. CASE AnswerCount(r)
  <2>1. PICK status, es : req' = [req EXCEPT ![r] = Ended(s, status, es)]
    BY <1>6 DEF AnswerCount, IInv, RequestsInv
  <2>2. PICK t : t = Ended(s, status, es)
    OBVIOUS
  <2>3. t.pc = "done" /\ t.sent = s.sent
    <3> HIDE DEF s
    <3> QED BY <1>1, <2>2, EndedRequest
  <2> QED BY <2>1, <2>2, <2>3
<1> QED BY <1>2, <1>3, <1>4, <1>5, <1>6

SentInv ==
  /\ \A r \in DOMAIN inbox : BodyOk(inbox[r])
  /\ \A r \in DOMAIN inbox : ToolsInv(req[r], inbox[r])

LEMMA SentInit == Init => SentInv
<1> SUFFICES ASSUME Init PROVE SentInv
  OBVIOUS
<1>1. ASSUME NEW r \in DOMAIN inbox
      PROVE  BodyOk(inbox[r])
  BY ScenarioAssumption DEF Init, BodyOk, HasFields
<1>2. ASSUME NEW r \in DOMAIN inbox
      PROVE  ToolsInv(req[r], inbox[r])
  <2>1. PICK b : b = inbox[r].body
    OBVIOUS
  <2>2. req[r] = Idle(b)
    BY <2>1 DEF Init
  <2>3. req[r].pc = "new" /\ req[r].sent = <<>>
    BY <2>2 DEF Idle
  <2> QED BY <2>3, UnsentTools
<1> QED BY <1>1, <1>2 DEF SentInv

(* One request moves, and what it has sent stays lawful.                   *)
LEMMA ToolsKept ==
  ASSUME IInv, SentInv, NEW r \in DOMAIN inbox, NEW t, req' = [req EXCEPT ![r] = t],
         inbox' = inbox, ToolsInv(t, inbox[r])
  PROVE  SentInv'
<1>1. \A o \in DOMAIN inbox : req'[o] = IF o = r THEN t ELSE req[o]
  BY DEF IInv, RequestsInv
<1>2. \A o \in DOMAIN inbox : ToolsInv(req'[o], inbox[o])
  BY <1>1 DEF SentInv
<1> QED BY <1>2 DEF SentInv

LEMMA SentStep == IInv /\ SentInv /\ [Next]_vars => SentInv'
<1> SUFFICES ASSUME IInv, SentInv, [Next]_vars
             PROVE  SentInv'
  OBVIOUS
<1>1. ASSUME NEW r \in DOMAIN inbox, Receive(r)
      PROVE  SentInv'
  <2> DEFINE q == inbox[r]
  <2>1. PICK decision : decision = Plan(q)
    OBVIOUS
  <2>2. PICK blocked \in BOOLEAN, spent \in BOOLEAN :
          req' = [req EXCEPT ![r] = Start(q, decision, blocked, spent)]
    BY <1>1, <2>1 DEF Receive
  <2>3. PICK t : t = Start(q, decision, blocked, spent)
    OBVIOUS
  <2>4. req' = [req EXCEPT ![r] = t] /\ inbox' = inbox
    BY <1>1, <2>2, <2>3 DEF Receive
  <2>5. BodyOk(q)
    BY DEF SentInv
  <2>6. ToolsInv(t, q)
    <3> HIDE DEF q
    <3> QED BY <2>3, <2>5, StartTools
  <2> QED BY <2>4, <2>6, ToolsKept
<1>2. ASSUME NEW r \in DOMAIN inbox, FallBack(r)
      PROVE  SentInv'
  <2> DEFINE s == req[r]
  <2> DEFINE q == inbox[r]
  <2>1. PICK hops : hops = Tail(s.hops)
    OBVIOUS
  <2>2. PICK t : t = Dispatch(s, q.surface, hops)
    OBVIOUS
  <2>3. /\ req' = [req EXCEPT ![r] = t] /\ inbox' = inbox
        /\ s.pc = "waiting" /\ q.surface = "messages"
    BY <1>2, <2>1, <2>2 DEF FallBack, IInv, RequestsInv
  <2>4. IsRequest(s)
    BY DEF IInv, RequestsInv, RequestInv
  <2>5. BodyOk(q) /\ ToolsInv(s, q)
    BY DEF SentInv
  <2>6. ToolsInv(t, q)
    <3> HIDE DEF s, q
    <3>1. Cleared(s.body, q) /\ \A i \in DOMAIN s.sent : Lawful(s.sent[i], q)
      BY <2>3, <2>5 DEF ToolsInv
    <3>2. q.surface # "responses"
      BY <2>3
    <3> QED BY <2>2, <2>4, <2>5, <3>1, <3>2, DispatchTools
  <2> QED BY <2>3, <2>6, ToolsKept
<1>3. ASSUME NEW r \in DOMAIN inbox,
             Fail(r) \/ AnswerStreamed(r) \/ EndStream(r) \/ AnswerWhole(r) \/ AnswerCount(r)
      PROVE  SentInv'
  <2>1. PICK t : req' = [req EXCEPT ![r] = t] /\ t.pc # "waiting" /\ t.sent = req[r].sent
    BY <1>3, UnsentStep
  <2>2. inbox' = inbox
    BY <1>3 DEF Fail, AnswerStreamed, EndStream, AnswerWhole, AnswerCount
  <2>3. ToolsInv(req[r], inbox[r])
    BY DEF SentInv
  <2>4. ToolsInv(t, inbox[r])
    BY <2>1, <2>3, SettledTools
  <2> QED BY <2>1, <2>2, <2>4, ToolsKept
<1>4. CASE Tick \/ UNCHANGED vars
  <2>1. inbox' = inbox /\ req' = req
    BY <1>4 DEF Tick, vars
  <2> QED BY <2>1 DEF SentInv
<1> QED BY <1>1, <1>2, <1>3, <1>4 DEF Next

(* What reaches an upstream carries the tools the policy permits, all of   *)
(* them and in the order of the request, after any number of fallbacks,    *)
(* and hosted tools only when it is OpenAI's (DeniedNeverSent), for every  *)
(* agent, pack and deny list.                                              *)
THEOREM DeniedIsNeverSent == Spec => []DeniedNeverSent
<1>1. SentInv => DeniedNeverSent
  <2> SUFFICES ASSUME SentInv, NEW r \in DOMAIN inbox, NEW i \in DOMAIN req[r].sent,
                      inbox[r].surface # "count_tokens"
               PROVE  /\ req[r].sent[i].body.tools = Permitted(inbox[r])
                      /\ req[r].sent[i].body.tools = <<>> => inbox[r].body.tools = <<>>
                      /\ req[r].sent[i].body.hosted # {} =>
                           /\ req[r].sent[i].hop.provider = "openai"
                           /\ req[r].sent[i].body.hosted \subseteq AllowedHosted
    BY DEF DeniedNeverSent
  <2>1. Lawful(req[r].sent[i], inbox[r])
    BY DEF SentInv, ToolsInv
  <2> QED BY <2>1 DEF Lawful
<1> QED BY <1>1, SentInit, SentStep, InvariantHolds, PTL DEF Spec
------------------------------------------------------------------------------
(* Where a request goes                                                    *)

IsSequence(s) == s \in Seq(ToSet(s))

LEMMA ResolvedIsCandidate ==
  ASSUME NEW n, NEW overrides
  PROVE  IsCandidate(ResolveModel(n, overrides))
<1>1. PICK c : c = ResolveModel(n, overrides)
  OBVIOUS
<1>2. PICK name : name = IF n \in DOMAIN overrides THEN overrides[n] ELSE n
  OBVIOUS
<1>3. PICK alias : alias = NormalizeAlias(name)
  OBVIOUS
<1>4. c = IF alias \in DOMAIN SmartAliases THEN SmartAliases[alias]
          ELSE IF alias \in DOMAIN ModelMapping THEN ModelMapping[alias]
          ELSE IF name.space = "" /\ name.id \in DOMAIN Family
               THEN Candidate(Family[name.id], name.id)
          ELSE IF name.space \in DOMAIN SlashProvider
               THEN Candidate(SlashProvider[name.space], name.id)
          ELSE Unresolved
  BY <1>1, <1>2, <1>3 DEF ResolveModel
<1>5. \A p, m : IsCandidate(Candidate(p, m))
  BY DEF IsCandidate, Candidate
<1>6. IsCandidate(Unresolved)
  BY <1>5 DEF Unresolved
<1>7. IsCandidate(c)
  BY <1>4, <1>5, <1>6, AliasAssumption
<1> QED BY <1>1, <1>7

LEMMA CoercedIsCandidate ==
  ASSUME NEW entry, NEW overrides
  PROVE  IsCandidate(CoerceModel(entry, overrides))
<1>1. CASE "provider" \in DOMAIN entry
  <2>1. PICK p, m : p = entry.provider /\ m = entry.model
    OBVIOUS
  <2>2. CoerceModel(entry, overrides) = Candidate(p, m)
    BY <1>1, <2>1 DEF CoerceModel
  <2> QED BY <2>2 DEF IsCandidate, Candidate
<1>2. CASE "provider" \notin DOMAIN entry
  <2>1. CoerceModel(entry, overrides) = ResolveModel(entry, overrides)
    BY <1>2 DEF CoerceModel
  <2> QED BY <2>1, ResolvedIsCandidate
<1> QED BY <1>1, <1>2

(* A filter keeps elements of its sequence, of its set.                    *)
LEMMA KeptElements ==
  ASSUME NEW s, IsSequence(s), NEW S
  PROVE  /\ IsSequence(Keep(s, S))
         /\ \A i \in DOMAIN Keep(s, S) : Keep(s, S)[i] \in S /\ Keep(s, S)[i] \in ToSet(s)
<1>1. PICK R : R = ToSet(s)
  OBVIOUS
<1>2. s \in Seq(R)
  BY <1>1 DEF IsSequence
<1>3. PICK k : k = Keep(s, S)
  OBVIOUS
<1>4. k \in Seq(R) /\ \E p : Subsequence(k, s, S, p)
  BY <1>2, <1>3, KeepSays
<1>5. PICK p : Subsequence(k, s, S, p)
  BY <1>4
<1>6. DOMAIN k = 1..Len(k) /\ k = [i \in 1..Len(k) |-> k[i]] /\ Len(k) \in Nat
  BY <1>4
<1>7. IsSequence(k)
  BY <1>6 DEF IsSequence, ToSet
<1>8. \A i \in DOMAIN k : k[i] \in S /\ k[i] \in ToSet(s)
  BY <1>1, <1>4, <1>5, <1>6 DEF Subsequence
<1> QED BY <1>3, <1>7, <1>8

------------------------------------------------------------------------------
(* The chain a mode selects: the base alone, or the cascade.               *)
SelectedWell(chain, cascade) ==
  /\ IsSequence(chain) /\ chain # <<>> /\ IsCandidate(chain[1])
  /\ chain = <<chain[1]>> \/ chain = cascade

LEMMA CascadeIsSequence ==
  ASSUME NEW routing, WellFormed(routing), NEW overrides
  PROVE  LET cascade == CascadeChain(routing, overrides) IN
         IsSequence(cascade) /\ \A i \in DOMAIN cascade : IsCandidate(cascade[i])
<1>1. PICK chain : chain = routing.chain
  OBVIOUS
<1>2. IsSequence(chain)
  BY <1>1 DEF WellFormed, IsSequence
<1>3. PICK named : named = [i \in DOMAIN chain |-> CoerceModel(chain[i], overrides)]
  OBVIOUS
<1>4. DOMAIN chain = 1..Len(chain) /\ Len(chain) \in Nat
  BY <1>2 DEF IsSequence
<1>5. DOMAIN named = DOMAIN chain /\ \A i \in DOMAIN chain : IsCandidate(named[i])
  BY <1>3, CoercedIsCandidate
<1>6. IsSequence(named)
  BY <1>3, <1>4 DEF IsSequence, ToSet
<1>7. PICK S : S = ToSet(named) \ {Unresolved}
  OBVIOUS
<1>8. PICK cascade : cascade = Keep(named, S)
  OBVIOUS
<1>9. CascadeChain(routing, overrides) = cascade
  BY <1>1, <1>3, <1>7, <1>8 DEF CascadeChain
<1>10. IsSequence(cascade) /\ \A i \in DOMAIN cascade : cascade[i] \in ToSet(named)
  BY <1>6, <1>8, KeptElements
<1>11. \A i \in DOMAIN cascade : IsCandidate(cascade[i])
  BY <1>5, <1>10 DEF ToSet
<1> QED BY <1>9, <1>10, <1>11

LEMMA SelectionSays ==
  ASSUME NEW base, IsCandidate(base), NEW band, NEW routing, WellFormed(routing),
         NEW overrides
  PROVE  SelectedWell(Selection(base, band, routing, overrides).chain,
                      CascadeChain(routing, overrides))
<1>1. PICK cascade : cascade = CascadeChain(routing, overrides)
  OBVIOUS
<1>2. IsSequence(cascade) /\ \A i \in DOMAIN cascade : IsCandidate(cascade[i])
  BY <1>1, CascadeIsSequence
<1>3. PICK tier : tier = IF band \in DOMAIN routing.tiers
                         THEN CoerceModel(routing.tiers[band], overrides) ELSE Unresolved
  OBVIOUS
<1>4. IsCandidate(tier)
  <2>1. IsCandidate(Unresolved)
    BY DEF IsCandidate, Unresolved, Candidate
  <2>2. ASSUME band \in DOMAIN routing.tiers
        PROVE  IsCandidate(CoerceModel(routing.tiers[band], overrides))
    <3>1. PICK entry : entry = routing.tiers[band]
      OBVIOUS
    <3> QED BY <3>1, CoercedIsCandidate
  <2> QED BY <1>3, <2>1, <2>2
<1>5. ASSUME NEW c, IsCandidate(c) PROVE SelectedWell(<<c>>, cascade)
  <2>1. PICK chain : chain = <<c>>
    OBVIOUS
  <2>2. IsSequence(chain) /\ chain # <<>> /\ chain[1] = c
    BY <2>1 DEF IsSequence, ToSet
  <2> QED BY <1>5, <2>1, <2>2 DEF SelectedWell
<1>6. cascade # <<>> => SelectedWell(cascade, cascade)
  <2>1. cascade # <<>> => 1 \in DOMAIN cascade
    BY <1>2 DEF IsSequence
  <2> QED BY <1>2, <2>1 DEF SelectedWell
<1>7. PICK mode : mode = routing.mode
  OBVIOUS
<1>8. PICK s : s = Selection(base, band, routing, overrides)
  OBVIOUS
<1>9. CASE mode \in {"complexity", "auto"} /\ tier # Unresolved
  <2>1. s = [chain |-> <<tier>>, reason |-> band]
    BY <1>1, <1>3, <1>7, <1>8, <1>9 DEF Selection
  <2> QED BY <1>1, <1>4, <1>5, <1>8, <2>1
<1>10. CASE mode = "cascade" /\ cascade # <<>>
  <2>1. s = [chain |-> cascade, reason |-> "cascade"]
    BY <1>1, <1>3, <1>7, <1>8, <1>10 DEF Selection
  <2> QED BY <1>1, <1>6, <1>8, <1>10, <2>1
<1>11. CASE /\ ~ (mode \in {"complexity", "auto"} /\ tier # Unresolved)
            /\ ~ (mode = "cascade" /\ cascade # <<>>)
  <2>1. \E reason : s = [chain |-> <<base>>, reason |-> reason]
    BY <1>1, <1>3, <1>7, <1>8, <1>11 DEF Selection
  <2> QED BY <1>1, <1>5, <1>8, <2>1
<1> QED BY <1>9, <1>10, <1>11

------------------------------------------------------------------------------
(* The chain, extended across providers                                    *)

(* What another provider calls the primary's model.                        *)
Counterpart(c, primary, custom) ==
  c = Candidate(c.provider, MapModel(primary.model, primary.provider, c.provider, custom))

LEMMA LaterIsSequence ==
  ASSUME NEW current, NEW providers, IsSequence(providers)
  PROVE  IsSequence(FallbackProviders(current, providers))
<1>1. PICK i : i = SelectInSeq(providers, LAMBDA p : p = current)
  OBVIOUS
<1>2. i \in Nat /\ i <= Len(providers)
  <2> DEFINE I == {j \in 1..Len(providers) : providers[j] = current}
  <2>1. i = IF I # {} THEN Min(I) ELSE 0
    BY <1>1 DEF SelectInSeq
  <2>2. Len(providers) \in Nat /\ I \in SUBSET Nat /\ \A j \in I : j <= Len(providers)
    BY DEF IsSequence
  <2> HIDE DEF I
  <2>3. ASSUME I # {} PROVE Min(I) \in I
    <3>1. \E x \in I : \A y \in I : x <= y
      BY <2>2, <2>3, LeastElement
    <3> QED BY <3>1 DEF Min
  <2>4. PICK m : m = Min(I)
    OBVIOUS
  <2>5. (i = m /\ m \in I) \/ i = 0
    BY <2>1, <2>3, <2>4
  <2>6. PICK n \in Nat : n = Len(providers)
    BY <2>2
  <2>7. m \in I => m \in Nat /\ m <= n
    BY <2>2, <2>6
  <2>8. i \in Nat /\ i <= n
    BY <2>5, <2>6, <2>7
  <2> QED BY <2>6, <2>8
<1>3. PICK R : R = ToSet(providers)
  OBVIOUS
<1>4. PICK later : later = SubSeq(providers, i + 1, Len(providers))
  OBVIOUS
<1>5. providers \in Seq(R)
  BY <1>3 DEF IsSequence
<1>6. later \in Seq(R)
  BY <1>2, <1>4, <1>5
<1>7. IsSequence(later)
  BY <1>6 DEF IsSequence, ToSet
<1>8. later = FallbackProviders(current, providers)
  BY <1>1, <1>4 DEF FallbackProviders
<1> QED BY <1>7, <1>8

LEMMA CrossedSays ==
  ASSUME NEW primary, NEW cross, IsSequence(cross.providers), NEW required
  PROVE  LET more == CrossProviderCandidates(primary, cross, required) IN
         /\ IsSequence(more)
         /\ \A i \in DOMAIN more : Counterpart(more[i], primary, cross.mapping)
<1> DEFINE mapped(to) == MapModel(primary.model, primary.provider, to, cross.mapping)
<1>1. PICK later : later = FallbackProviders(primary.provider, cross.providers)
  OBVIOUS
<1>2. IsSequence(later)
  BY <1>1, LaterIsSequence
<1>3. PICK S : S = {to \in ToSet(later) : mapped(to) # "none"}
  OBVIOUS
<1>4. PICK tried : tried = Keep(later, S)
  OBVIOUS
<1>5. IsSequence(tried)
  BY <1>2, <1>4, KeptElements
<1>6. PICK crossed : crossed = [i \in DOMAIN tried |-> Candidate(tried[i], mapped(tried[i]))]
  OBVIOUS
<1>7. IsSequence(crossed) /\ \A i \in DOMAIN crossed : Counterpart(crossed[i], primary, cross.mapping)
  <2>1. DOMAIN tried = 1..Len(tried) /\ Len(tried) \in Nat
    BY <1>5 DEF IsSequence
  <2> HIDE DEF mapped
  <2>2. IsSequence(crossed)
    BY <1>6, <2>1 DEF IsSequence, ToSet
  <2>3. ASSUME NEW i \in DOMAIN crossed
        PROVE  Counterpart(crossed[i], primary, cross.mapping)
    <3>1. PICK to, m : to = tried[i] /\ m = mapped(to)
      OBVIOUS
    <3>2. crossed[i] = Candidate(to, m)
      BY <1>6, <3>1
    <3>3. crossed[i].provider = to
      BY <3>2 DEF Candidate
    <3> QED BY <3>1, <3>2, <3>3 DEF mapped, Counterpart
  <2> QED BY <2>2, <2>3
<1>8. PICK T : T = {c \in ToSet(crossed) : ~ KnownUnsupported(c.model, required)}
  OBVIOUS
<1>9. PICK more : more = Keep(crossed, T)
  OBVIOUS
<1>10. more = CrossProviderCandidates(primary, cross, required)
  BY <1>1, <1>3, <1>4, <1>6, <1>8, <1>9 DEF CrossProviderCandidates, FilterByCapabilities
<1>11. IsSequence(more) /\ \A i \in DOMAIN more : more[i] \in ToSet(crossed)
  BY <1>7, <1>9, KeptElements
<1>12. \A i \in DOMAIN more : Counterpart(more[i], primary, cross.mapping)
  BY <1>7, <1>11 DEF ToSet
<1> QED BY <1>10, <1>11, <1>12
------------------------------------------------------------------------------
(* The recursion of AppendEachNew.                                         *)
AppendsNew(f, chain, more) ==
  f = [n \in 0..Len(more) |-> IF n = 0 THEN chain ELSE AppendNew(f[n - 1], more[n])]

LEMMA AppendNewSays ==
  ASSUME NEW R, NEW chain \in Seq(R), NEW c \in R
  PROVE  AppendNew(chain, c) \in Seq(R)
BY DEF AppendNew

LEMMA AppendsNewExists ==
  ASSUME NEW R, NEW chain \in Seq(R), NEW more \in Seq(R)
  PROVE  \E f : /\ AppendsNew(f, chain, more) /\ AppendEachNew(chain, more) = f[Len(more)]
                /\ f \in [0..Len(more) -> Seq(R)]
<1>1. PICK n \in Nat : n = Len(more)
  OBVIOUS
<1>2. PICK V : V = Seq(R)
  OBVIOUS
<1>3. PICK step : step = [k \in 1..n |-> [v \in V |-> AppendNew(v, more[k])]]
  OBVIOUS
<1>4. step \in [1..n -> [V -> V]]
  <2>1. \A k \in 1..n : more[k] \in R
    BY <1>1
  <2>2. \A v \in V, c \in R : AppendNew(v, c) \in V
    BY <1>2, AppendNewSays
  <2>3. \A k \in 1..n : [v \in V |-> AppendNew(v, more[k])] \in [V -> V]
    BY <2>1, <2>2
  <2> QED BY <1>3, <2>3
<1>5. PICK f \in [0..n -> V] : f[0] = chain /\ \A k \in 1..n : f[k] = step[k][f[k - 1]]
  <2>1. Recurses(step, n, V)
    BY <1>4 DEF Recurses
  <2>2. chain \in V
    BY <1>2
  <2>3. \E f : Iterates(f, n, V, chain, step)
    BY <2>1, <2>2, Recursion
  <2> QED BY <2>3 DEF Iterates
<1>6. \A k \in 1..n : k - 1 \in 0..n /\ f[k] = AppendNew(f[k - 1], more[k])
  <2>1. \A k \in 1..n : k - 1 \in 0..n
    OBVIOUS
  <2> QED BY <1>3, <1>5, <2>1
<1>7. AppendsNew(f, chain, more)
  <2>1. \A k \in 0..n : k # 0 => k \in 1..n
    OBVIOUS
  <2>2. f = [k \in 0..n |-> IF k = 0 THEN chain ELSE AppendNew(f[k - 1], more[k])]
    BY <1>5, <1>6, <2>1
  <2> QED BY <1>1, <2>2 DEF AppendsNew
<1> DEFINE g == CHOOSE g : AppendsNew(g, chain, more)
<1>8. AppendsNew(g, chain, more)
  BY <1>7
<1>9. AppendEachNew(chain, more) = g[Len(more)]
  BY DEF AppendEachNew, AppendsNew
<1>10. g = f
  <2> HIDE DEF g
  <2>1. \A k \in 0..n : g[k] = IF k = 0 THEN chain ELSE AppendNew(g[k - 1], more[k])
    BY <1>1, <1>8 DEF AppendsNew
  <2> DEFINE G == {k \in 0..n : g[k] = f[k]}
  <2>2. 0 \in G
    BY <1>5, <2>1
  <2>3. ASSUME NEW k \in 1..n, k - 1 \in G PROVE k \in G
    <3>1. k \in 0..n /\ k # 0 /\ g[k - 1] = f[k - 1]
      BY <2>3
    <3>2. g[k] = AppendNew(g[k - 1], more[k])
      BY <2>1, <3>1
    <3> QED BY <1>6, <3>1, <3>2
  <2>4. \A k \in 0..n : g[k] = f[k]
    <3> HIDE DEF G
    <3>1. \A k \in 0..n : k \in G
      BY <2>2, <2>3, UpTo
    <3> USE DEF G
    <3> QED BY <3>1
  <2>5. g = [k \in 0..n |-> g[k]]
    BY <1>1, <1>8 DEF AppendsNew
  <2> QED BY <1>5, <2>4, <2>5
<1> HIDE DEF g
<1> QED BY <1>1, <1>2, <1>5, <1>8, <1>9, <1>10

(* What is appended comes after the chain, is of more, and is new.         *)
Extends(w, chain, more) ==
  /\ Len(chain) <= Len(w) /\ \A i \in 1..Len(chain) : w[i] = chain[i]
  /\ \A i \in (Len(chain) + 1)..Len(w) :
       w[i] \in ToSet(more) /\ \A j \in 1..(i - 1) : w[j] # w[i]

LEMMA AppendNewExtends ==
  ASSUME NEW R, NEW chain \in Seq(R), NEW more, NEW w \in Seq(R), Extends(w, chain, more),
         NEW c \in R, c \in ToSet(more)
  PROVE  Extends(AppendNew(w, c), chain, more)
<1>1. CASE Contains(w, c)
  BY <1>1 DEF AppendNew
<1>2. CASE ~ Contains(w, c)
  <2>1. PICK v : v = Append(w, c)
    OBVIOUS
  <2>2. AppendNew(w, c) = v
    BY <1>2, <2>1 DEF AppendNew
  <2>3. /\ Len(v) = Len(w) + 1 /\ Len(w) \in Nat /\ Len(chain) \in Nat
        /\ v[Len(v)] = c /\ \A i \in 1..Len(w) : v[i] = w[i]
    BY <2>1
  <2>4. \A i \in 1..Len(w) : w[i] # c
    BY <1>2 DEF Contains
  <2>5. Len(chain) <= Len(v) /\ \A i \in 1..Len(chain) : v[i] = chain[i]
    BY <2>3 DEF Extends
  <2>6. ASSUME NEW i \in (Len(chain) + 1)..Len(v)
        PROVE  v[i] \in ToSet(more) /\ \A j \in 1..(i - 1) : v[j] # v[i]
    <3>1. CASE i = Len(v)
      BY <2>3, <2>4, <3>1
    <3>2. CASE i # Len(v)
      <4>1. i \in (Len(chain) + 1)..Len(w) /\ i \in 1..Len(w)
        BY <2>3, <3>2
      <4>2. \A j \in 1..(i - 1) : j \in 1..Len(w)
        BY <2>3, <4>1
      <4> QED BY <2>3, <4>1, <4>2 DEF Extends
    <3> QED BY <3>1, <3>2
  <2>7. Extends(v, chain, more)
    BY <2>5, <2>6 DEF Extends
  <2> QED BY <2>2, <2>7
<1> QED BY <1>1, <1>2

LEMMA AppendEachSays ==
  ASSUME NEW chain, IsSequence(chain), NEW more, IsSequence(more)
  PROVE  LET w == AppendEachNew(chain, more) IN IsSequence(w) /\ Extends(w, chain, more)
<1>1. PICK R : R = ToSet(chain) \cup ToSet(more)
  OBVIOUS
<1>2. chain \in Seq(R) /\ more \in Seq(R)
  BY <1>1 DEF IsSequence
<1>3. PICK n \in Nat : n = Len(more) /\ DOMAIN more = 1..n
  BY <1>2
<1>4. PICK f : /\ AppendsNew(f, chain, more) /\ AppendEachNew(chain, more) = f[Len(more)]
               /\ f \in [0..Len(more) -> Seq(R)]
  BY <1>2, AppendsNewExists
<1>5. \A k \in 0..n : f[k] \in Seq(R)
  BY <1>3, <1>4
<1>6. \A k \in 0..n : f[k] = IF k = 0 THEN chain ELSE AppendNew(f[k - 1], more[k])
  BY <1>3, <1>4 DEF AppendsNew
<1> DEFINE G == {k \in 0..n : Extends(f[k], chain, more)}
<1>7. 0 \in G
  <2>1. f[0] = chain /\ Len(chain) \in Nat
    BY <1>2, <1>6
  <2>2. Extends(chain, chain, more)
    BY <1>2 DEF Extends
  <2> QED BY <2>1, <2>2
<1>8. ASSUME NEW k \in 1..n, k - 1 \in G PROVE k \in G
  <2>1. PICK u : u = f[k - 1]
    OBVIOUS
  <2>2. k \in 0..n /\ k # 0 /\ k - 1 \in 0..n /\ k \in DOMAIN more
    BY <1>3
  <2>3. u \in Seq(R) /\ Extends(u, chain, more)
    BY <1>5, <1>8, <2>1, <2>2
  <2>4. PICK c : c = more[k]
    OBVIOUS
  <2>5. c \in R /\ c \in ToSet(more)
    BY <1>1, <2>2, <2>4 DEF ToSet
  <2>6. Extends(AppendNew(u, c), chain, more)
    BY <1>2, <2>3, <2>5, AppendNewExtends
  <2>7. f[k] = AppendNew(u, c)
    BY <1>6, <2>1, <2>2, <2>4
  <2> QED BY <2>2, <2>6, <2>7
<1>9. n \in G
  <2> HIDE DEF G
  <2>1. \A k \in 0..n : k \in G
    BY <1>7, <1>8, UpTo
  <2> QED BY <2>1
<1>10. PICK w : w = f[n]
  OBVIOUS
<1>11. Extends(w, chain, more) /\ w \in Seq(R) /\ w = AppendEachNew(chain, more)
  BY <1>3, <1>4, <1>5, <1>9, <1>10
<1>12. IsSequence(w)
  BY <1>11 DEF IsSequence, ToSet
<1> QED BY <1>11, <1>12

------------------------------------------------------------------------------
(* What a fallback of a mode's own route is: listed by the cascade, or the *)
(* primary's model at a provider nobody before it is asked at, but for     *)
(* those the cascade lists.                                                *)
Crossing(w, cascade, custom) ==
  \A i \in 2..Len(w) :
    \/ Contains(cascade, w[i])
    \/ /\ MapModel(w[1].model, w[1].provider, w[i].provider, custom) = w[i].model
       /\ \A j \in 1..(i - 1) : w[j].provider # w[i].provider \/ Contains(cascade, w[j])

LEMMA ExtendedCrosses ==
  ASSUME NEW chain, NEW cascade, SelectedWell(chain, cascade),
         NEW more, NEW custom, \A i \in DOMAIN more : Counterpart(more[i], chain[1], custom),
         NEW w, IsSequence(w), Extends(w, chain, more)
  PROVE  w # <<>> /\ w[1] = chain[1] /\ Crossing(w, cascade, custom)
<1>1. PICK first : first = chain[1]
  OBVIOUS
<1>2. PICK n \in Nat : n = Len(chain) /\ n >= 1 /\ DOMAIN chain = 1..n
  BY DEF SelectedWell, IsSequence
<1>3. PICK m \in Nat : m = Len(w) /\ DOMAIN w = 1..m
  BY DEF IsSequence
<1>4. n <= m /\ \A i \in 1..n : w[i] = chain[i]
  BY <1>2, <1>3 DEF Extends
<1>5. w # <<>> /\ w[1] = first
  BY <1>1, <1>2, <1>3, <1>4
<1>6. \A i \in (n + 1)..m : w[i] \in ToSet(more) /\ \A j \in 1..(i - 1) : w[j] # w[i]
  BY <1>2, <1>3 DEF Extends
<1>7. \A i \in (n + 1)..m : Counterpart(w[i], first, custom)
  BY <1>1, <1>6 DEF ToSet
<1>8. chain = cascade => \A i \in 1..n : Contains(cascade, w[i])
  BY <1>2, <1>4 DEF Contains
<1>9. chain # cascade => n = 1
  <2>1. chain # cascade => chain = <<first>>
    BY <1>1 DEF SelectedWell
  <2>2. Len(<<first>>) = 1
    OBVIOUS
  <2> QED BY <1>2, <2>1, <2>2
<1>10. IsCandidate(first)
  BY <1>1 DEF SelectedWell
<1>11. ASSUME NEW c, Counterpart(c, first, custom), c.provider = first.provider
       PROVE  c = first
  <2>1. PICK p, model : p = first.provider /\ model = first.model
    OBVIOUS
  <2>2. MapModel(model, p, p, custom) = model
    BY DEF MapModel
  <2>3. c = Candidate(c.provider, MapModel(model, p, c.provider, custom))
    BY <1>11, <2>1 DEF Counterpart
  <2>4. c = Candidate(p, model)
    BY <1>11, <2>1, <2>2, <2>3
  <2> QED BY <1>10, <2>1, <2>4 DEF IsCandidate
<1>12. \A c : Counterpart(c, first, custom) =>
                MapModel(first.model, first.provider, c.provider, custom) = c.model
  BY DEF Counterpart, Candidate
<1>13. \A c, d : Counterpart(c, first, custom) /\ Counterpart(d, first, custom)
                 /\ c.provider = d.provider => c = d
  BY DEF Counterpart
<1>14. ASSUME NEW i \in 2..m
       PROVE  \/ Contains(cascade, w[i])
              \/ /\ MapModel(first.model, first.provider, w[i].provider, custom) = w[i].model
                 /\ \A j \in 1..(i - 1) :
                      w[j].provider # w[i].provider \/ Contains(cascade, w[j])
  <2>1. CASE i <= n
    <3>1. chain = cascade /\ i \in 1..n
      BY <1>9, <1>14, <2>1
    <3> QED BY <1>8, <3>1
  <2>2. CASE ~ (i <= n)
    <3>1. i \in (n + 1)..m
      BY <1>14, <2>2
    <3>2. PICK c : c = w[i]
      OBVIOUS
    <3>3. Counterpart(c, first, custom)
      BY <1>7, <3>1, <3>2
    <3>4. ASSUME NEW j \in 1..(i - 1)
          PROVE  w[j].provider # w[i].provider \/ Contains(cascade, w[j])
      <4>1. w[j] # c
        BY <1>6, <3>1, <3>2
      <4>2. CASE j <= n
        <5>1. chain = cascade => Contains(cascade, w[j])
          BY <1>8, <4>2
        <5>2. chain # cascade => w[j] = first
          BY <1>5, <1>9, <4>2
        <5> QED BY <1>11, <3>2, <3>3, <4>1, <5>1, <5>2
      <4>3. CASE ~ (j <= n)
        <5>1. j \in (n + 1)..m
          BY <3>1, <4>3
        <5>2. Counterpart(w[j], first, custom)
          BY <1>7, <5>1
        <5> QED BY <1>13, <3>2, <3>3, <4>1, <5>2
      <4> QED BY <4>2, <4>3
    <3>5. MapModel(first.model, first.provider, w[i].provider, custom) = w[i].model
      BY <1>12, <3>2, <3>3
    <3> QED BY <3>4, <3>5
  <2> QED BY <2>1, <2>2
<1>15. Crossing(w, cascade, custom)
  BY <1>3, <1>5, <1>14 DEF Crossing
<1> QED BY <1>1, <1>5, <1>15

(* Leaving some of the fallbacks out leaves that true of the others.       *)
LEMMA FilteredCrosses ==
  ASSUME NEW w, IsSequence(w), w # <<>>, NEW cascade, NEW custom,
         Crossing(w, cascade, custom), NEW S
  PROVE  LET fallbacks == Keep(Tail(w), S) IN
         /\ IsSequence(fallbacks)
         /\ \A i \in DOMAIN fallbacks : fallbacks[i] \in S
         /\ Crossing(<<w[1]>> \o fallbacks, cascade, custom)
<1>1. PICK R : R = ToSet(w)
  OBVIOUS
<1>2. w \in Seq(R)
  BY <1>1 DEF IsSequence
<1>3. PICK m \in Nat : m = Len(w) /\ DOMAIN w = 1..m /\ m >= 1
  BY <1>2
<1>4. PICK t : t = Tail(w)
  OBVIOUS
<1>5. t \in Seq(R) /\ Len(t) = m - 1 /\ \A i \in 1..(m - 1) : t[i] = w[i + 1]
  BY <1>2, <1>3, <1>4
<1>6. PICK k : k = Keep(t, S)
  OBVIOUS
<1>7. k \in Seq(R) /\ \E p : Subsequence(k, t, S, p)
  BY <1>5, <1>6, KeepSays
<1>8. PICK p : Subsequence(k, t, S, p)
  BY <1>7
<1>9. PICK n \in Nat : n = Len(k) /\ DOMAIN k = 1..n
  BY <1>7
<1>10. /\ \A i \in 1..n : p[i] \in 1..(m - 1) /\ k[i] = t[p[i]] /\ k[i] \in S
       /\ \A i, j \in 1..n : i < j => p[i] < p[j]
  BY <1>5, <1>8, <1>9 DEF Subsequence
<1>11. IsSequence(k)
  BY <1>7, <1>9 DEF IsSequence, ToSet
<1>12. PICK x : x = w[1]
  OBVIOUS
<1>13. x \in R
  BY <1>2, <1>3, <1>12
<1>14. PICK one : one = <<x>>
  OBVIOUS
<1>15. one \in Seq(R) /\ Len(one) = 1 /\ one[1] = x
  BY <1>13, <1>14
<1>16. PICK v : v = one \o k
  OBVIOUS
<1>17. Len(v) = n + 1 /\ v[1] = x /\ \A i \in 1..n : v[i + 1] = k[i]
  <2>0. one \in Seq(R) /\ k \in Seq(R)
    BY <1>7, <1>15
  <2>1. Len(v) = Len(one) + Len(k)
    BY <1>16, <2>0, ConcatProperties
  <2>2. \A i \in 1..(Len(one) + Len(k)) :
          v[i] = IF i <= Len(one) THEN one[i] ELSE k[i - Len(one)]
    BY <1>16, <2>0, ConcatProperties
  <2>3. \A i \in 1..(n + 1) : v[i] = IF i <= 1 THEN x ELSE k[i - 1]
    BY <1>9, <1>15, <2>2
  <2>4. ASSUME NEW i \in 1..n PROVE v[i + 1] = k[i]
    <3>1. i + 1 \in 1..(n + 1) /\ ~ (i + 1 <= 1) /\ (i + 1) - 1 = i
      OBVIOUS
    <3> QED BY <2>3, <3>1
  <2> QED BY <1>9, <1>15, <2>1, <2>3, <2>4
<1> DEFINE at(i) == IF i = 1 THEN 1 ELSE p[i - 1] + 1
<1>18. \A i \in 2..(n + 1) : i - 1 \in 1..n /\ v[i] = k[i - 1]
  BY <1>17
<1>19. \A i \in 2..(n + 1) : at(i) = p[i - 1] + 1 /\ at(i) \in 2..m
  BY <1>3, <1>10, <1>18
<1>20. \A i \in 1..(n + 1) : v[i] = w[at(i)]
  <2> SUFFICES ASSUME NEW i \in 1..(n + 1) PROVE v[i] = w[at(i)]
    OBVIOUS
  <2>1. CASE i = 1
    BY <1>12, <1>17, <2>1
  <2>2. CASE i # 1
    <3>1. i \in 2..(n + 1)
      BY <2>2
    <3>2. v[i] = t[p[i - 1]] /\ p[i - 1] \in 1..(m - 1)
      BY <1>10, <1>18, <3>1
    <3> QED BY <1>5, <1>19, <3>1, <3>2
  <2> QED BY <2>1, <2>2
<1>21. \A i \in 2..(n + 1) : \A j \in 1..(i - 1) : at(j) \in 1..(at(i) - 1)
  <2> SUFFICES ASSUME NEW i \in 2..(n + 1), NEW j \in 1..(i - 1)
               PROVE  at(j) \in 1..(at(i) - 1)
    OBVIOUS
  <2>1. at(i) = p[i - 1] + 1 /\ at(i) \in 2..m
    BY <1>19
  <2>2. CASE j = 1
    BY <2>1, <2>2
  <2>3. CASE j # 1
    <3>1. j \in 2..(n + 1) /\ i - 1 \in 1..n /\ j - 1 \in 1..n /\ j - 1 < i - 1
      BY <2>3
    <3>2. p[j - 1] < p[i - 1]
      BY <1>10, <3>1
    <3>3. at(j) = p[j - 1] + 1 /\ at(j) \in 2..m
      BY <1>19, <3>1
    <3>4. p[j - 1] \in 1..(m - 1) /\ p[i - 1] \in 1..(m - 1)
      BY <1>10, <3>1
    <3> QED BY <2>1, <3>2, <3>3, <3>4
  <2> QED BY <2>2, <2>3
<1> HIDE DEF at
<1>22. ASSUME NEW i \in 2..(n + 1)
       PROVE  \/ Contains(cascade, v[i])
              \/ /\ MapModel(v[1].model, v[1].provider, v[i].provider, custom) = v[i].model
                 /\ \A j \in 1..(i - 1) :
                      v[j].provider # v[i].provider \/ Contains(cascade, v[j])
  <2>1. PICK a : a = at(i)
    OBVIOUS
  <2>2. a \in 2..m /\ v[i] = w[a] /\ v[1] = w[1]
    BY <1>12, <1>17, <1>19, <1>20, <2>1
  <2>3. \/ Contains(cascade, w[a])
        \/ /\ MapModel(w[1].model, w[1].provider, w[a].provider, custom) = w[a].model
           /\ \A b \in 1..(a - 1) : w[b].provider # w[a].provider \/ Contains(cascade, w[b])
    BY <1>3, <2>2 DEF Crossing
  <2>4. \A j \in 1..(i - 1) : at(j) \in 1..(a - 1) /\ v[j] = w[at(j)]
    BY <1>20, <1>21, <2>1
  <2> QED BY <2>2, <2>3, <2>4
<1>23. Crossing(v, cascade, custom)
  BY <1>17, <1>22 DEF Crossing
<1>24. \A i \in DOMAIN k : k[i] \in S
  BY <1>9, <1>10
<1> QED BY <1>4, <1>6, <1>11, <1>12, <1>14, <1>16, <1>23, <1>24

------------------------------------------------------------------------------
(* What the planner decides                                                *)

RuleNames == {"agent_task", "task", "agent"}

(* A plan: its fallbacks can do what is required, and are those of the     *)
(* mode's own route unless a rule of the policy chose the primary.         *)
PlanSound(plan, required, cascade, custom) ==
  /\ IsSequence(plan.fallbacks)
  /\ \A i \in DOMAIN plan.fallbacks : ~ KnownUnsupported(plan.fallbacks[i].model, required)
  /\ plan.reason \notin RuleNames =>
       Crossing(<<plan.primary>> \o plan.fallbacks, cascade, custom)

IsPlan(plan) ==
  plan = [primary |-> plan.primary, fallbacks |-> plan.fallbacks,
          reason |-> plan.reason, neverDowngrade |-> plan.neverDowngrade]

LEMMA ExtendedSound ==
  ASSUME NEW selected, NEW required, NEW routing, WellFormed(routing), NEW overrides,
         SelectedWell(selected.chain, CascadeChain(routing, overrides))
  PROVE  LET plan == Extended(selected, required, routing) IN
         /\ IsPlan(plan)
         /\ PlanSound(plan, required, CascadeChain(routing, overrides),
                      routing.cross.mapping)
<1>1. PICK cascade : cascade = CascadeChain(routing, overrides)
  OBVIOUS
<1>2. PICK custom : custom = routing.cross.mapping
  OBVIOUS
<1>3. PICK chain : chain = selected.chain
  OBVIOUS
<1>4. PICK primary : primary = chain[1]
  OBVIOUS
<1>5. SelectedWell(chain, cascade) /\ IsSequence(chain)
  BY <1>1, <1>3 DEF SelectedWell
<1>6. PICK more : more = IF routing.cross.enabled
                         THEN CrossProviderCandidates(primary, routing.cross, required)
                         ELSE <<>>
  OBVIOUS
<1>7. IsSequence(more) /\ \A i \in DOMAIN more : Counterpart(more[i], primary, custom)
  <2>1. CASE routing.cross.enabled
    <3>1. PICK cross : cross = routing.cross
      OBVIOUS
    <3>2. IsSequence(cross.providers)
      BY <3>1 DEF WellFormed, IsSequence
    <3>3. more = CrossProviderCandidates(primary, cross, required)
      BY <1>6, <2>1, <3>1
    <3>4. /\ IsSequence(CrossProviderCandidates(primary, cross, required))
          /\ \A i \in DOMAIN CrossProviderCandidates(primary, cross, required) :
               Counterpart(CrossProviderCandidates(primary, cross, required)[i],
                           primary, cross.mapping)
      BY <3>2, CrossedSays
    <3> QED BY <1>2, <3>1, <3>3, <3>4
  <2>2. CASE ~ routing.cross.enabled
    <3>1. more = <<>>
      BY <1>6, <2>2
    <3> QED BY <3>1 DEF IsSequence
  <2> QED BY <2>1, <2>2
<1>8. PICK w : w = IF routing.cross.enabled THEN AppendEachNew(chain, more) ELSE chain
  OBVIOUS
<1>9. IsSequence(w) /\ Extends(w, chain, more)
  <2>1. CASE routing.cross.enabled
    <3>1. w = AppendEachNew(chain, more)
      BY <1>8, <2>1
    <3> QED BY <1>5, <1>7, <3>1, AppendEachSays
  <2>2. CASE ~ routing.cross.enabled
    <3>1. Extends(chain, chain, more)
      <4>1. Len(chain) \in Nat
        BY <1>5 DEF IsSequence
      <4> QED BY <4>1 DEF Extends
    <3> QED BY <1>5, <1>8, <2>2, <3>1
  <2> QED BY <2>1, <2>2
<1>10. w # <<>> /\ w[1] = primary /\ Crossing(w, cascade, custom)
  <2>1. \A i \in DOMAIN more : Counterpart(more[i], chain[1], custom)
    BY <1>4, <1>7
  <2> QED BY <1>4, <1>5, <1>9, <2>1, ExtendedCrosses
<1>11. PICK S : S = {c \in ToSet(Tail(w)) : ~ KnownUnsupported(c.model, required)}
  OBVIOUS
<1>12. PICK fallbacks : fallbacks = Keep(Tail(w), S)
  OBVIOUS
<1>13. /\ IsSequence(fallbacks) /\ \A i \in DOMAIN fallbacks : fallbacks[i] \in S
       /\ Crossing(<<primary>> \o fallbacks, cascade, custom)
  BY <1>9, <1>10, <1>12, FilteredCrosses
<1>14. PICK plan : plan = Extended(selected, required, routing)
  OBVIOUS
<1>15. plan = [primary |-> primary, fallbacks |-> fallbacks,
               reason |-> selected.reason, neverDowngrade |-> FALSE]
  <2>1. w = IF routing.cross.enabled
            THEN AppendEachNew(chain, CrossProviderCandidates(primary, routing.cross, required))
            ELSE chain
    BY <1>6, <1>8
  <2>2. FilterByCapabilities(Tail(w), required) = fallbacks
    BY <1>11, <1>12 DEF FilterByCapabilities
  <2>3. plan = [primary |-> primary, fallbacks |-> FilterByCapabilities(Tail(w), required),
                reason |-> selected.reason, neverDowngrade |-> FALSE]
    BY <1>3, <1>4, <1>14, <2>1 DEF Extended
  <2> QED BY <2>2, <2>3
<1>16. plan.primary = primary /\ plan.fallbacks = fallbacks
  BY <1>15
<1>17. \A i \in DOMAIN fallbacks : ~ KnownUnsupported(fallbacks[i].model, required)
  BY <1>11, <1>13
<1>18. PlanSound(plan, required, cascade, custom)
  BY <1>13, <1>16, <1>17 DEF PlanSound
<1>19. IsPlan(plan)
  BY <1>15 DEF IsPlan
<1> QED BY <1>1, <1>2, <1>14, <1>18, <1>19

(* The rule a policy applies, or that it changes nothing.                  *)
LEMMA PolicySays ==
  ASSUME NEW policy, NEW headers, NEW band, NEW candidate
  PROVE  LET resolution == ResolvePolicy(policy, headers, band, candidate) IN
         resolution.model = candidate \/ resolution.by \in RuleNames
<1>1. PICK rules : rules = RulesFor(policy, headers)
  OBVIOUS
<1>2. IsSequence(PolicyRules) /\ ToSet(PolicyRules) = RuleNames
  BY DEF IsSequence, PolicyRules, ToSet, RuleNames
<1>3. \E S : rules = Keep(PolicyRules, S)
  BY <1>1 DEF RulesFor
<1>4. IsSequence(rules) /\ \A i \in DOMAIN rules : rules[i] \in RuleNames
  BY <1>2, <1>3, KeptElements
<1>5. PICK resolution : resolution = ResolvePolicy(policy, headers, band, candidate)
  OBVIOUS
<1>6. CASE rules = <<>>
  <2>1. resolution.model = candidate
    BY <1>1, <1>5, <1>6 DEF ResolvePolicy
  <2> QED BY <1>5, <2>1
<1>7. CASE rules # <<>>
  <2>1. resolution.by = rules[1]
    BY <1>1, <1>5, <1>7 DEF ResolvePolicy
  <2>2. 1 \in DOMAIN rules
    BY <1>4, <1>7 DEF IsSequence
  <2> QED BY <1>4, <1>5, <2>1, <2>2
<1> QED BY <1>6, <1>7

LEMMA ResolvedSound ==
  ASSUME NEW plan, IsPlan(plan), NEW required, NEW cascade, NEW custom,
         PlanSound(plan, required, cascade, custom),
         NEW candidate, NEW resolution, NEW target,
         resolution.model = candidate \/ resolution.by \in RuleNames
  PROVE  PlanSound(Resolved(plan, candidate, resolution, target),
                   required, cascade, custom)
<1>1. PICK t : t = Resolved(plan, candidate, resolution, target)
  OBVIOUS
<1>2. PICK kept : kept = [plan EXCEPT !.neverDowngrade = resolution.neverDowngrade]
  OBVIOUS
<1>3. /\ kept.primary = plan.primary /\ kept.fallbacks = plan.fallbacks
      /\ kept.reason = plan.reason
      /\ DOMAIN kept = {"primary", "fallbacks", "reason", "neverDowngrade"}
  BY <1>2 DEF IsPlan
<1>4. CASE t = kept
  BY <1>1, <1>3, <1>4 DEF PlanSound
<1>5. CASE resolution.model # candidate /\ t # kept
  <2>1. t = [kept EXCEPT !.primary = target, !.reason = resolution.by]
    BY <1>1, <1>2, <1>5 DEF Resolved
  <2>2. t.fallbacks = plan.fallbacks /\ t.reason \in RuleNames
    BY <1>3, <1>5, <2>1
  <2> QED BY <1>1, <2>2 DEF PlanSound
<1>6. resolution.model = candidate => t = kept
  BY <1>1, <1>2 DEF Resolved
<1> QED BY <1>4, <1>5, <1>6

LEMMA PlanRouteForSound ==
  ASSUME NEW conf, WellFormed(conf.routing), NEW name, NEW messages, NEW required,
         NEW headers, PlanRouteFor(name, messages, required, conf, headers) # Unresolved
  PROVE  PlanSound(PlanRouteFor(name, messages, required, conf, headers), required,
                   CascadeChain(conf.routing, conf.overrides), conf.routing.cross.mapping)
<1>1. PICK routing, overrides : routing = conf.routing /\ overrides = conf.overrides
  OBVIOUS
<1>2. PICK cascade : cascade = CascadeChain(routing, overrides)
  OBVIOUS
<1>3. PICK custom : custom = routing.cross.mapping
  OBVIOUS
<1>4. PICK base : base = ResolveModel(name, overrides)
  OBVIOUS
<1>5. PICK plan : plan = PlanRoute(base, messages, required, routing, overrides)
  OBVIOUS
<1>6. PICK t : t = PlanRouteFor(name, messages, required, conf, headers)
  OBVIOUS
<1>7. t = IF plan # Unresolved /\ conf.routing.enforce
          THEN EnforcePolicy(plan, conf.policy, headers, messages, overrides)
          ELSE plan
  BY <1>1, <1>4, <1>5, <1>6 DEF PlanRouteFor
<1>8. t # Unresolved
  BY <1>6
<1>9. plan # Unresolved
  BY <1>7, <1>8
<1>10. IsPlan(plan) /\ PlanSound(plan, required, cascade, custom)
  <2>1. PICK selected : selected = Selection(base, ClassifyComplexity(messages), routing, overrides)
    OBVIOUS
  <2>2. IsCandidate(base) /\ WellFormed(routing)
    BY <1>1, <1>4, ResolvedIsCandidate
  <2>3. SelectedWell(selected.chain, CascadeChain(routing, overrides))
    <3>1. PICK band : band = ClassifyComplexity(messages)
      OBVIOUS
    <3> QED BY <2>1, <2>2, <3>1, SelectionSays
  <2>4. plan = Extended(selected, required, routing)
    BY <1>5, <1>9, <2>1 DEF PlanRoute
  <2> QED BY <1>2, <1>3, <2>2, <2>3, <2>4, ExtendedSound
<1>11. PlanSound(t, required, cascade, custom)
  <2>1. CASE t = plan
    BY <1>10, <2>1
  <2>2. CASE t # plan
    <3>1. t = EnforcePolicy(plan, conf.policy, headers, messages, overrides)
      BY <1>7, <2>2
    <3>2. PICK policy, band : policy = conf.policy /\ band = ClassifyComplexity(messages)
      OBVIOUS
    <3>3. PICK candidate : candidate = Name(plan.primary.provider \o "/", plan.primary.model)
      OBVIOUS
    <3>4. PICK resolution : resolution = ResolvePolicy(policy, headers, band, candidate)
      OBVIOUS
    <3>5. PICK target : target = ResolveModel(resolution.model, overrides)
      OBVIOUS
    <3>6. t = Resolved(plan, candidate, resolution, target)
      BY <3>1, <3>2, <3>3, <3>4, <3>5 DEF EnforcePolicy
    <3>7. resolution.model = candidate \/ resolution.by \in RuleNames
      BY <3>4, PolicySays
    <3> QED BY <1>10, <3>6, <3>7, ResolvedSound
  <2> QED BY <2>1, <2>2
<1> QED BY <1>1, <1>2, <1>3, <1>6, <1>11

------------------------------------------------------------------------------
(* What has been asked, and what is left to ask, follow the plan           *)

(* The attempts after the first are the plan's fallbacks, in order.        *)
Follows(sent, plan) ==
  /\ sent # <<>> => plan # Unresolved
  /\ sent # <<>> /\ plan.neverDowngrade => sent[1].hop = plan.primary
  /\ \A i \in 2..Len(sent) :
       i - 1 \in DOMAIN plan.fallbacks /\ sent[i].hop = plan.fallbacks[i - 1]

(* The hops behind the current one are the fallbacks nobody was asked at.  *)
Left(hops, asked, plan) ==
  /\ IsSequence(hops)
  /\ \A k \in 2..Len(hops) : /\ k + asked - 2 \in DOMAIN plan.fallbacks
                             /\ hops[k] = plan.fallbacks[k + asked - 2]

RouteInv(s, q, plan) ==
  /\ Follows(s.sent, plan)
  /\ s.pc = "waiting" /\ q.surface = "messages" => Left(s.hops, Len(s.sent), plan)

LEMMA SettledRoute ==
  ASSUME NEW s, NEW q, NEW plan, RouteInv(s, q, plan), NEW t, t.pc # "waiting",
         t.sent = s.sent
  PROVE  RouteInv(t, q, plan)
<1>1. PICK w : w = s.sent
  OBVIOUS
<1>2. Follows(w, plan) /\ t.sent = w
  BY <1>1 DEF RouteInv
<1> QED BY <1>2 DEF RouteInv

LEMMA UnsentRoute ==
  ASSUME NEW q, NEW plan, NEW t, t.pc # "waiting", t.sent = <<>>
  PROVE  RouteInv(t, q, plan)
<1>1. PICK e : e = <<>>
  OBVIOUS
<1>2. Follows(e, plan)
  <2>1. Len(e) = 0
    BY <1>1
  <2> QED BY <1>1, <2>1 DEF Follows
<1>3. t.sent = e
  BY <1>1
<1> QED BY <1>2, <1>3 DEF RouteInv

(* The next hop of a handler that waits, or the first.                     *)
NextHop(sent, hop, plan) ==
  /\ plan # Unresolved
  /\ sent = <<>> => (plan.neverDowngrade => hop = plan.primary)
  /\ sent # <<>> => /\ Len(sent) \in DOMAIN plan.fallbacks
                    /\ hop = plan.fallbacks[Len(sent)]

LEMMA DispatchRoute ==
  ASSUME NEW s, IsRequest(s), NEW q, NEW plan, Follows(s.sent, plan), NEW hops,
         NextHop(s.sent, hops[1], plan),
         q.surface = "messages" => Left(hops, Len(s.sent) + 1, plan)
  PROVE  RouteInv(Dispatch(s, q.surface, hops), q, plan)
<1>1. PICK surface : surface = q.surface
  OBVIOUS
<1>2. PICK t : t = Dispatch(s, surface, hops)
  OBVIOUS
<1>3. PICK hop : hop = hops[1]
  OBVIOUS
<1>4. PICK u : u = s.sent
  OBVIOUS
<1>5. u \in Seq({u[i] : i \in DOMAIN u})
  BY <1>4 DEF IsRequest
<1>6. Follows(u, plan) /\ NextHop(u, hop, plan)
  BY <1>3, <1>4
<1>7. CASE hop.provider \in Registered
  <2>1. PICK x : x = [hop |-> hop, body |-> WireBody(surface, s.body, hop.provider)]
    OBVIOUS
  <2>2. t = [s EXCEPT !.pc = "waiting", !.hops = hops, !.sent = Append(u, x)]
    BY <1>2, <1>3, <1>4, <1>7, <2>1 DEF Dispatch
  <2>3. PICK v : v = Append(u, x)
    OBVIOUS
  <2>4. t.sent = v /\ t.hops = hops
    BY <2>2, <2>3 DEF IsRequest, RequestFields
  <2>5. /\ Len(v) = Len(u) + 1 /\ Len(u) \in Nat
        /\ v[Len(v)] = x /\ \A i \in 1..Len(u) : v[i] = u[i]
    <3> DEFINE S == {u[i] : i \in DOMAIN u} \cup {x}
    <3>1. u \in Seq(S) /\ x \in S
      BY <1>5
    <3> HIDE DEF S
    <3> QED BY <2>3, <3>1
  <2>6. PICK n \in Nat : n = Len(u)
    BY <2>5
  <2>7. Len(v) = n + 1 /\ v[n + 1] = x /\ \A i \in 1..n : v[i] = u[i]
    BY <2>5, <2>6
  <2>8. x.hop = hop
    BY <2>1
  <2>9. u = <<>> <=> n = 0
    BY <1>5, <2>6
  <2>10. Follows(v, plan)
    <3>1. plan # Unresolved
      BY <1>6 DEF NextHop
    <3>2. plan.neverDowngrade => v[1].hop = plan.primary
      <4>1. CASE n = 0
        BY <1>6, <2>7, <2>8, <2>9, <4>1 DEF NextHop
      <4>2. CASE n # 0
        <5>1. v[1] = u[1] /\ u # <<>>
          BY <2>7, <2>9, <4>2
        <5> QED BY <1>6, <5>1 DEF Follows
      <4> QED BY <4>1, <4>2
    <3>3. ASSUME NEW i \in 2..(n + 1)
          PROVE  i - 1 \in DOMAIN plan.fallbacks /\ v[i].hop = plan.fallbacks[i - 1]
      <4>1. CASE i = n + 1
        <5>1. u # <<>> /\ i - 1 = n
          BY <2>9, <3>3, <4>1
        <5> QED BY <1>6, <2>6, <2>7, <2>8, <4>1, <5>1 DEF NextHop
      <4>2. CASE i # n + 1
        <5>1. i \in 2..n /\ i \in 1..n
          BY <3>3, <4>2
        <5>2. v[i] = u[i]
          BY <2>7, <5>1
        <5> QED BY <1>6, <2>6, <5>1, <5>2 DEF Follows
      <4> QED BY <4>1, <4>2
    <3> QED BY <2>7, <3>1, <3>2, <3>3 DEF Follows
  <2>11. surface = "messages" => Left(hops, Len(v), plan)
    BY <1>1, <1>4, <2>6, <2>7
  <2>12. RouteInv(t, q, plan)
    BY <1>1, <2>4, <2>10, <2>11 DEF RouteInv
  <2> QED BY <1>1, <1>2, <2>12
<1>8. CASE hop.provider \notin Registered
  <2>1. PICK h : h = [s EXCEPT !.hops = hops]
    OBVIOUS
  <2>2. PICK status, es : t = Ended(h, status, es)
    BY <1>2, <1>3, <1>8, <2>1 DEF Dispatch
  <2>3. h = [f \in RequestFields |-> h[f]] /\ h.sent = u
    BY <1>4, <2>1 DEF RequestFields, IsRequest
  <2>4. IsRequest(h)
    BY <1>5, <2>3 DEF IsRequest
  <2>5. t.pc = "done" /\ t.sent = u
    BY <2>2, <2>3, <2>4, EndedRequest
  <2>6. RouteInv(t, q, plan)
    BY <1>6, <2>5 DEF RouteInv
  <2> QED BY <1>1, <1>2, <2>6
<1> QED BY <1>7, <1>8

LEMMA AuthorizedRoute ==
  ASSUME NEW s, IsRequest(s), s.sent = <<>>, NEW q, NEW plan, NEW hops,
         plan # Unresolved, plan.neverDowngrade => hops[1] = plan.primary,
         q.surface = "messages" => Left(hops, 1, plan)
  PROVE  RouteInv(Authorized(s, q, hops), q, plan)
<1>1. PICK decided : decided = ToolsOf(q)
  OBVIOUS
<1>2. PICK t : t = Decided(s, q, hops, decided)
  OBVIOUS
<1>3. PICK surface : surface = q.surface
  OBVIOUS
<1>4. PICK tools : tools = decided.tools
  OBVIOUS
<1> DEFINE h == [s EXCEPT !.body.tools = tools]
<1>5. \/ \E status, es : t = Ended(s, status, es)
      \/ t = Dispatch(s, surface, hops)
      \/ t = Dispatch(h, surface, hops)
  <2> DEFINE unasked == \/ surface = "count_tokens"
                        \/ surface # "messages" /\ hops[1].provider \notin Registered
  <2>1. CASE ~ unasked /\ decided.action = "reject"
    <3>1. t = Ended(s, 403, <<Event("policy_rejected", TRUE)>>)
      BY <1>2, <1>3, <2>1 DEF Decided
    <3> QED BY <3>1
  <2>2. CASE /\ ~ unasked /\ decided.action # "reject"
             /\ surface = "responses" /\ ~ HostedPass(q.body.hosted, hops[1].provider)
    <3>1. t = Ended(s, 400, <<Event("capability_unsupported", TRUE)>>)
      BY <1>2, <1>3, <2>2 DEF Decided
    <3> QED BY <3>1
  <2>3. CASE unasked
    BY <1>2, <1>3, <2>3 DEF Decided
  <2>4. CASE /\ ~ unasked /\ decided.action # "reject"
             /\ surface = "responses" => HostedPass(q.body.hosted, hops[1].provider)
    BY <1>2, <1>3, <1>4, <2>4 DEF Decided
  <2> QED BY <2>1, <2>2, <2>3, <2>4
<1>6. PICK e : e = <<>>
  OBVIOUS
<1>7. Follows(e, plan) /\ NextHop(e, hops[1], plan) /\ Len(e) + 1 = 1
  <2>1. Len(e) = 0
    BY <1>6
  <2> QED BY <1>6, <2>1 DEF Follows, NextHop
<1>8. ASSUME NEW u, IsRequest(u), u.sent = e
      PROVE  RouteInv(Dispatch(u, surface, hops), q, plan)
  <2>1. Follows(u.sent, plan) /\ NextHop(u.sent, hops[1], plan)
    BY <1>7, <1>8
  <2>2. q.surface = "messages" => Left(hops, Len(u.sent) + 1, plan)
    BY <1>7, <1>8
  <2> QED BY <1>3, <1>8, <2>1, <2>2, DispatchRoute
<1>9. IsRequest(h) /\ h.sent = e
  <2>1. h = [f \in RequestFields |-> h[f]] /\ h.sent = s.sent
    BY DEF RequestFields, IsRequest
  <2> HIDE DEF h
  <2> QED BY <1>6, <2>1, NothingSent
<1>10. CASE \E status, es : t = Ended(s, status, es)
  <2>1. PICK status, es : t = Ended(s, status, es)
    BY <1>10
  <2>2. t.pc = "done" /\ t.sent = s.sent
    BY <2>1, EndedRequest
  <2>3. RouteInv(t, q, plan)
    BY <2>2, UnsentRoute
  <2> QED BY <1>1, <1>2, <2>3 DEF Authorized
<1>11. CASE t = Dispatch(s, surface, hops)
  <2>1. RouteInv(t, q, plan)
    BY <1>6, <1>8, <1>11
  <2> QED BY <1>1, <1>2, <2>1 DEF Authorized
<1>12. CASE t = Dispatch(h, surface, hops)
  <2> HIDE DEF h
  <2>1. RouteInv(t, q, plan)
    BY <1>8, <1>9, <1>12
  <2> QED BY <1>1, <1>2, <2>1 DEF Authorized
<1> QED
  <2> HIDE DEF h
  <2> QED BY <1>5, <1>10, <1>11, <1>12


LEMMA DowngradedPinned ==
  ASSUME NEW decision, decision.neverDowngrade, NEW spent \in BOOLEAN
  PROVE  Downgraded(decision, spent) = decision.primary
BY DEF Downgraded

LEMMA StartRoute ==
  ASSUME NEW q, NEW plan, plan # Unresolved => IsSequence(plan.fallbacks),
         NEW blocked \in BOOLEAN, NEW spent \in BOOLEAN
  PROVE  RouteInv(Start(q, plan, blocked, spent), q, plan)
<1>1. PICK t : t = Start(q, plan, blocked, spent)
  OBVIOUS
<1>2. CASE ~ Parsed(q) \/ plan = Unresolved
  <2>1. PICK s : s = Idle(q.body)
    OBVIOUS
  <2>2. IsRequest(s) /\ s.sent = <<>>
    BY <2>1, IdleRequest
  <2>3. PICK status, es : t = Ended(s, status, es)
    BY <1>1, <1>2, <2>1 DEF Start
  <2>4. t.pc = "done" /\ t.sent = s.sent
    BY <2>2, <2>3, EndedRequest
  <2> QED BY <1>1, <2>2, <2>4, UnsentRoute
<1>3. CASE ~ (~ Parsed(q) \/ plan = Unresolved) /\ q.surface = "messages"
  <2>1. PICK hops : hops = <<Downgraded(plan, spent)>> \o plan.fallbacks
    OBVIOUS
  <2>2. PICK key : key = CacheKey(q)
    OBVIOUS
  <2>3. PICK s : s = [Idle(q.body) EXCEPT !.reason = plan.reason, !.key = key,
                                          !.hops = hops]
    OBVIOUS
  <2>4. t = StartMessages(q, plan, blocked, spent)
    BY <1>1, <1>3 DEF Start
  <2>5. /\ s = [f \in RequestFields |-> s[f]] /\ s.sent = <<>>
    BY <2>3 DEF Idle, RequestFields
  <2>6. IsRequest(s)
    BY <2>5, NothingSent
  <2>7. CASE CacheHit(table, key, now)
    <3>1. PICK h, answer, status, es :
            /\ h = Ended(s, status, es)
            /\ t = [h EXCEPT !.reply = answer]
      BY <2>1, <2>2, <2>3, <2>4, <2>7 DEF StartMessages
    <3>2. IsRequest(h) /\ h.pc = "done" /\ h.sent = s.sent
      BY <2>6, <3>1, EndedRequest
    <3>3. t.pc = "done" /\ t.sent = <<>>
      BY <2>5, <3>1, <3>2 DEF IsRequest, RequestFields
    <3> QED BY <1>1, <3>3, UnsentRoute
  <2>8. CASE ~ CacheHit(table, key, now) /\ blocked
    <3>1. PICK status, es : t = Ended(s, status, es)
      BY <2>1, <2>2, <2>3, <2>4, <2>8 DEF StartMessages
    <3>2. t.pc = "done" /\ t.sent = s.sent
      BY <2>6, <3>1, EndedRequest
    <3> QED BY <1>1, <2>5, <3>2, UnsentRoute
  <2>9. CASE ~ CacheHit(table, key, now) /\ ~ blocked
    <3>1. t = Authorized(s, q, hops)
      BY <2>1, <2>2, <2>3, <2>4, <2>9 DEF StartMessages
    <3>2. PICK first, fallbacks : first = Downgraded(plan, spent) /\ fallbacks = plan.fallbacks
      OBVIOUS
    <3>3. IsSequence(fallbacks) /\ hops = <<first>> \o fallbacks
      BY <1>3, <2>1, <3>2
    <3>4. PICK R : R = {first} \cup ToSet(fallbacks)
      OBVIOUS
    <3>5. PICK one : one = <<first>>
      OBVIOUS
    <3>6. one \in Seq(R) /\ Len(one) = 1 /\ one[1] = first
      BY <3>4, <3>5
    <3>7. fallbacks \in Seq(R)
      BY <3>3, <3>4 DEF IsSequence
    <3>8. one \in Seq(R)
      BY <3>6
    <3>9. one \o fallbacks \in Seq(R) /\ Len(one \o fallbacks) = Len(one) + Len(fallbacks)
      BY <3>7, <3>8, ConcatProperties
    <3>10. \A i \in 1..(Len(one) + Len(fallbacks)) : (one \o fallbacks)[i] =
              IF i <= Len(one) THEN one[i] ELSE fallbacks[i - Len(one)]
      BY <3>7, <3>8, ConcatProperties
    <3>11. PICK n \in Nat : n = Len(fallbacks) /\ DOMAIN fallbacks = 1..n
      BY <3>7
    <3>12. hops \in Seq(R) /\ Len(hops) = n + 1
      BY <3>3, <3>5, <3>6, <3>9, <3>11
    <3>13. hops[1] = first /\ \A i \in 2..(n + 1) : hops[i] = fallbacks[i - 1]
      BY <3>3, <3>5, <3>6, <3>10, <3>11
    <3>14. IsSequence(hops)
      BY <3>12 DEF IsSequence, ToSet
    <3>15. Left(hops, 1, plan)
      <4>1. \A i \in 2..(n + 1) : i + 1 - 2 = i - 1 /\ i - 1 \in 1..n
        OBVIOUS
      <4> QED BY <3>2, <3>11, <3>12, <3>13, <3>14, <4>1 DEF Left
    <3>16. plan.neverDowngrade => hops[1] = plan.primary
      BY <3>2, <3>13, DowngradedPinned
    <3>17. plan # Unresolved
      BY <1>3
    <3>18. RouteInv(Authorized(s, q, hops), q, plan)
      BY <2>5, <2>6, <3>15, <3>16, <3>17, AuthorizedRoute
    <3> QED BY <1>1, <3>1, <3>18
  <2> QED BY <2>7, <2>8, <2>9
<1>4. CASE ~ (~ Parsed(q) \/ plan = Unresolved) /\ q.surface # "messages"
  <2>1. PICK hops : hops = <<plan.primary>>
    OBVIOUS
  <2>2. PICK s : s = [Idle(q.body) EXCEPT !.reason = plan.reason, !.hops = hops]
    OBVIOUS
  <2>3. t = Authorized(s, q, hops)
    BY <1>1, <1>4, <2>1, <2>2 DEF Start
  <2>4. s = [f \in RequestFields |-> s[f]] /\ s.sent = <<>>
    BY <2>2 DEF Idle, RequestFields
  <2>5. IsRequest(s)
    BY <2>4, NothingSent
  <2>6. hops[1] = plan.primary /\ plan # Unresolved
    BY <1>4, <2>1
  <2>7. RouteInv(Authorized(s, q, hops), q, plan)
    BY <1>4, <2>4, <2>5, <2>6, AuthorizedRoute
  <2> QED BY <1>1, <2>3, <2>7
<1> QED BY <1>2, <1>3, <1>4

LEMMA FallBackRoute ==
  ASSUME NEW s, IsRequest(s), NEW q, q.surface = "messages", NEW plan,
         RouteInv(s, q, plan), s.pc = "waiting", s.sent # <<>>, Len(s.hops) > 1
  PROVE  RouteInv(Dispatch(s, q.surface, Tail(s.hops)), q, plan)
<1>1. PICK sent, hops : sent = s.sent /\ hops = s.hops
  OBVIOUS
<1>2. Follows(sent, plan) /\ Left(hops, Len(sent), plan) /\ sent # <<>> /\ Len(hops) > 1
  BY <1>1 DEF RouteInv
<1>3. PICK asked \in Nat : asked = Len(sent)
  <2>1. sent \in Seq({sent[i] : i \in DOMAIN sent})
    BY <1>1 DEF IsRequest
  <2> QED BY <2>1
<1>4. PICK R : R = ToSet(hops)
  OBVIOUS
<1>5. hops \in Seq(R)
  BY <1>2, <1>4 DEF Left, IsSequence
<1>6. PICK n \in Nat : n = Len(hops) /\ n > 1
  BY <1>2, <1>5
<1>7. PICK rest : rest = Tail(hops)
  OBVIOUS
<1>8. rest \in Seq(R) /\ Len(rest) = n - 1 /\ \A k \in 1..(n - 1) : rest[k] = hops[k + 1]
  BY <1>5, <1>6, <1>7
<1>9. IsSequence(rest)
  BY <1>8 DEF IsSequence, ToSet
<1>10. \A k \in 2..n : /\ k + asked - 2 \in DOMAIN plan.fallbacks
                       /\ hops[k] = plan.fallbacks[k + asked - 2]
  BY <1>2, <1>3, <1>6 DEF Left
<1>11. NextHop(sent, rest[1], plan)
  <2>1. rest[1] = hops[2] /\ 2 \in 2..n /\ 2 + asked - 2 = asked
    BY <1>6, <1>8
  <2>2. asked \in DOMAIN plan.fallbacks /\ rest[1] = plan.fallbacks[asked]
    BY <1>10, <2>1
  <2>3. plan # Unresolved
    BY <1>2 DEF Follows
  <2> QED BY <1>2, <1>3, <2>2, <2>3 DEF NextHop
<1>12. Left(rest, asked + 1, plan)
  <2>1. ASSUME NEW k \in 2..(n - 1)
        PROVE  /\ k + (asked + 1) - 2 \in DOMAIN plan.fallbacks
               /\ rest[k] = plan.fallbacks[k + (asked + 1) - 2]
    <3>1. k + 1 \in 2..n /\ (k + 1) + asked - 2 = k + (asked + 1) - 2 /\ k \in 1..(n - 1)
      OBVIOUS
    <3> QED BY <1>8, <1>10, <3>1
  <2> QED BY <1>8, <1>9, <2>1 DEF Left
<1>13. Left(rest, Len(s.sent) + 1, plan) /\ NextHop(s.sent, rest[1], plan)
       /\ Follows(s.sent, plan)
  BY <1>1, <1>2, <1>3, <1>11, <1>12
<1>14. RouteInv(Dispatch(s, q.surface, rest), q, plan)
  BY <1>13, DispatchRoute
<1> QED BY <1>1, <1>7, <1>14

------------------------------------------------------------------------------
RoutesInv ==
  /\ WellFormed(config.routing)
  /\ \A r \in DOMAIN inbox : RouteInv(req[r], inbox[r], Plan(inbox[r]))

LEMMA PlanSays ==
  ASSUME WellFormed(config.routing), NEW q, Plan(q) # Unresolved
  PROVE  PlanSound(Plan(q), RequiredCapabilities(q.body),
                   CascadeChain(config.routing, config.overrides),
                   config.routing.cross.mapping)
<1>1. PICK plan : plan = Plan(q)
  OBVIOUS
<1>2. PICK cascade : cascade = CascadeChain(config.routing, config.overrides)
  OBVIOUS
<1>3. PICK custom : custom = config.routing.cross.mapping
  OBVIOUS
<1>4. PICK required : required = RequiredCapabilities(q.body)
  OBVIOUS
<1>5. CASE q.surface = "count_tokens"
  <2>1. PICK c : c = ResolveModel(q.name, config.overrides)
    OBVIOUS
  <2>2. plan = [primary |-> c, fallbacks |-> <<>>, reason |-> "none", neverDowngrade |-> FALSE]
    BY <1>1, <1>5, <2>1 DEF Plan
  <2>3. PICK e : e = <<>>
    OBVIOUS
  <2>4. plan.fallbacks = e /\ IsSequence(e) /\ DOMAIN e = {}
    BY <2>2, <2>3 DEF IsSequence
  <2>5. PICK v : v = <<plan.primary>> \o plan.fallbacks
    OBVIOUS
  <2>6. Len(v) = 1
    BY <2>3, <2>4, <2>5
  <2>7. Crossing(v, cascade, custom)
    BY <2>6 DEF Crossing
  <2>8. PlanSound(plan, required, cascade, custom)
    BY <2>4, <2>5, <2>7 DEF PlanSound
  <2> QED BY <1>1, <1>2, <1>3, <1>4, <2>8
<1>6. CASE q.surface # "count_tokens"
  <2>1. PICK name, messages, headers :
          name = q.name /\ messages = RouteMessages(q) /\ headers = q.headers
    OBVIOUS
  <2>2. plan = PlanRouteFor(name, messages, required, config, headers) /\ plan # Unresolved
    BY <1>1, <1>4, <1>6, <2>1 DEF Plan
  <2>3. PlanSound(PlanRouteFor(name, messages, required, config, headers), required,
                  CascadeChain(config.routing, config.overrides), config.routing.cross.mapping)
    <3>1. PlanRouteFor(name, messages, required, config, headers) # Unresolved
      BY <2>2
    <3> QED BY <3>1, PlanRouteForSound
  <2> QED BY <1>1, <1>2, <1>3, <1>4, <2>2, <2>3
<1> QED BY <1>5, <1>6

LEMMA RoutesInit == Init => RoutesInv
<1> SUFFICES ASSUME Init PROVE RoutesInv
  OBVIOUS
<1>1. WellFormed(config.routing)
  BY ConfigAssumption DEF Init
<1>2. ASSUME NEW r \in DOMAIN inbox
      PROVE  RouteInv(req[r], inbox[r], Plan(inbox[r]))
  <2>1. PICK b, plan : b = inbox[r].body /\ plan = Plan(inbox[r])
    OBVIOUS
  <2>2. req[r] = Idle(b)
    BY <2>1 DEF Init
  <2>3. req[r].pc = "new" /\ req[r].sent = <<>>
    BY <2>2 DEF Idle
  <2>4. RouteInv(req[r], inbox[r], plan)
    BY <2>3, UnsentRoute
  <2> QED BY <2>1, <2>4
<1> QED BY <1>1, <1>2 DEF RoutesInv

LEMMA RoutesKept ==
  ASSUME IInv, RoutesInv, NEW r \in DOMAIN inbox, NEW t, req' = [req EXCEPT ![r] = t],
         inbox' = inbox, config' = config, RouteInv(t, inbox[r], Plan(inbox[r]))
  PROVE  RoutesInv'
<1>1. \A o \in DOMAIN inbox : req'[o] = IF o = r THEN t ELSE req[o]
  BY DEF IInv, RequestsInv
<1>2. \A o \in DOMAIN inbox : Plan(inbox[o])' = Plan(inbox[o])
  BY DEF Plan
<1>3. \A o \in DOMAIN inbox : RouteInv(req'[o], inbox[o], Plan(inbox[o]))
  BY <1>1 DEF RoutesInv
<1>4. WellFormed(config'.routing)
  BY DEF RoutesInv
<1> QED BY <1>2, <1>3, <1>4 DEF RoutesInv

LEMMA RoutesStep == IInv /\ RoutesInv /\ [Next]_vars => RoutesInv'
<1> SUFFICES ASSUME IInv, RoutesInv, [Next]_vars
             PROVE  RoutesInv'
  OBVIOUS
<1>1. ASSUME NEW r \in DOMAIN inbox, Receive(r)
      PROVE  RoutesInv'
  <2> DEFINE q == inbox[r]
  <2>1. PICK plan : plan = Plan(q)
    OBVIOUS
  <2>2. PICK blocked \in BOOLEAN, spent \in BOOLEAN :
          req' = [req EXCEPT ![r] = Start(q, plan, blocked, spent)]
    BY <1>1, <2>1 DEF Receive
  <2>3. PICK t : t = Start(q, plan, blocked, spent)
    OBVIOUS
  <2>4. req' = [req EXCEPT ![r] = t] /\ inbox' = inbox /\ config' = config
    BY <1>1, <2>2, <2>3 DEF Receive
  <2>5. plan # Unresolved => IsSequence(plan.fallbacks)
    BY <2>1, PlanSays DEF RoutesInv, PlanSound
  <2>6. RouteInv(t, q, plan)
    <3> HIDE DEF q
    <3> QED BY <2>3, <2>5, StartRoute
  <2> QED BY <2>1, <2>4, <2>6, RoutesKept
<1>2. ASSUME NEW r \in DOMAIN inbox, FallBack(r)
      PROVE  RoutesInv'
  <2> DEFINE s == req[r]
  <2> DEFINE q == inbox[r]
  <2>1. PICK plan : plan = Plan(q)
    OBVIOUS
  <2>2. PICK t : t = Dispatch(s, q.surface, Tail(s.hops))
    OBVIOUS
  <2>3. /\ req' = [req EXCEPT ![r] = t] /\ inbox' = inbox /\ config' = config
        /\ s.pc = "waiting" /\ q.surface = "messages" /\ Len(s.hops) > 1
    BY <1>2, <2>2 DEF FallBack, IInv, RequestsInv
  <2>4. IsRequest(s) /\ s.sent # <<>>
    BY <2>3 DEF IInv, RequestsInv, RequestInv, UnderWay
  <2>5. RouteInv(s, q, plan)
    BY <2>1 DEF RoutesInv
  <2>6. RouteInv(t, q, plan)
    <3> HIDE DEF s, q
    <3> QED BY <2>2, <2>3, <2>4, <2>5, FallBackRoute
  <2> QED BY <2>1, <2>3, <2>6, RoutesKept
<1>3. ASSUME NEW r \in DOMAIN inbox,
             Fail(r) \/ AnswerStreamed(r) \/ EndStream(r) \/ AnswerWhole(r) \/ AnswerCount(r)
      PROVE  RoutesInv'
  <2>1. PICK t : req' = [req EXCEPT ![r] = t] /\ t.pc # "waiting" /\ t.sent = req[r].sent
    BY <1>3, UnsentStep
  <2>2. inbox' = inbox /\ config' = config
    BY <1>3 DEF Fail, AnswerStreamed, EndStream, AnswerWhole, AnswerCount
  <2>3. PICK plan : plan = Plan(inbox[r])
    OBVIOUS
  <2>4. RouteInv(req[r], inbox[r], plan)
    BY <2>3 DEF RoutesInv
  <2>5. RouteInv(t, inbox[r], plan)
    BY <2>1, <2>4, SettledRoute
  <2> QED BY <2>1, <2>2, <2>3, <2>5, RoutesKept
<1>4. CASE Tick \/ UNCHANGED vars
  <2>1. inbox' = inbox /\ req' = req /\ config' = config
    BY <1>4 DEF Tick, vars
  <2>2. \A o \in DOMAIN inbox : Plan(inbox[o])' = Plan(inbox[o])
    BY <2>1 DEF Plan
  <2> QED BY <2>1, <2>2 DEF RoutesInv
<1> QED BY <1>1, <1>2, <1>3, <1>4 DEF Next

(* Where a request goes: a fallback can do what the request needs, the     *)
(* route of a mode leaves the cascade only by a mapping and asks no        *)
(* provider twice, a pinned model is not swapped (RouteSound), for every   *)
(* configuration, alias, mapping and policy.                               *)
THEOREM RoutesAreSound == Spec => []RouteSound
<1>1. IInv /\ RoutesInv => RouteSound
  <2> SUFFICES ASSUME IInv, RoutesInv, NEW r \in DOMAIN inbox, NEW plan \in {Plan(inbox[r])}
               PROVE  LET q     == inbox[r]
                          asked == [i \in DOMAIN req[r].sent |-> req[r].sent[i].hop]
                          cascade == CascadeChain(config.routing, config.overrides)
                          custom == config.routing.cross.mapping
                      IN  asked # <<>> =>
                            /\ \A i \in 2..Len(asked) :
                                 ~ KnownUnsupported(asked[i].model, RequiredCapabilities(q.body))
                            /\ plan.reason \notin {"agent_task", "task", "agent"}
                               /\ asked[1] = plan.primary =>
                                 \A i \in 2..Len(asked) :
                                   \/ Contains(cascade, asked[i])
                                   \/ /\ \A j \in 1..(i - 1) :
                                           \/ asked[j].provider # asked[i].provider
                                           \/ Contains(cascade, asked[j])
                                      /\ MapModel(plan.primary.model, plan.primary.provider,
                                                  asked[i].provider, custom) = asked[i].model
                            /\ plan.neverDowngrade => asked[1] = plan.primary
    BY DEF RouteSound
  <2>1. PICK sent : sent = req[r].sent
    OBVIOUS
  <2>2. PICK cascade : cascade = CascadeChain(config.routing, config.overrides)
    OBVIOUS
  <2>3. PICK custom : custom = config.routing.cross.mapping
    OBVIOUS
  <2>4. PICK required : required = RequiredCapabilities(inbox[r].body)
    OBVIOUS
  <2>5. PICK asked : asked = [i \in DOMAIN sent |-> sent[i].hop]
    OBVIOUS
  <2>6. sent \in Seq({sent[i] : i \in DOMAIN sent})
    BY <2>1 DEF IInv, RequestsInv, RequestInv, IsRequest
  <2>7. PICK n \in Nat : n = Len(sent) /\ DOMAIN sent = 1..n
    BY <2>6
  <2>8. Len(asked) = n /\ (asked # <<>> => n >= 1) /\ \A i \in 1..n : asked[i] = sent[i].hop
    BY <2>5, <2>7
  <2>9. Follows(sent, plan)
    BY <2>1 DEF RoutesInv, RouteInv
  <2> SUFFICES ASSUME asked # <<>>
               PROVE  /\ \A i \in 2..n : ~ KnownUnsupported(asked[i].model, required)
                      /\ plan.reason \notin RuleNames /\ asked[1] = plan.primary =>
                           \A i \in 2..n :
                             \/ Contains(cascade, asked[i])
                             \/ /\ \A j \in 1..(i - 1) :
                                     \/ asked[j].provider # asked[i].provider
                                     \/ Contains(cascade, asked[j])
                                /\ MapModel(plan.primary.model, plan.primary.provider,
                                            asked[i].provider, custom) = asked[i].model
                      /\ plan.neverDowngrade => asked[1] = plan.primary
    BY ZenonT(40), <2>1, <2>2, <2>3, <2>4, <2>5, <2>8 DEF RuleNames
  <2>10. n >= 1 /\ sent # <<>>
    BY <2>7, <2>8
  <2>11. PlanSound(plan, required, cascade, custom)
    <3>1. Plan(inbox[r]) # Unresolved
      BY <2>9, <2>10 DEF Follows
    <3> QED BY <2>2, <2>3, <2>4, <3>1, PlanSays DEF RoutesInv
  <2>12. PICK fallbacks, primary : fallbacks = plan.fallbacks /\ primary = plan.primary
    OBVIOUS
  <2>13. \A i \in 2..n : i - 1 \in DOMAIN fallbacks /\ asked[i] = fallbacks[i - 1]
    BY <2>7, <2>8, <2>9, <2>12 DEF Follows
  <2>14. \A i \in 2..n : ~ KnownUnsupported(asked[i].model, required)
    BY <2>11, <2>12, <2>13 DEF PlanSound
  <2>15. plan.neverDowngrade => asked[1] = plan.primary
    BY <2>8, <2>9, <2>10 DEF Follows
  <2>16. ASSUME plan.reason \notin RuleNames, asked[1] = primary, NEW i \in 2..n
         PROVE  \/ Contains(cascade, asked[i])
                \/ /\ \A j \in 1..(i - 1) : \/ asked[j].provider # asked[i].provider
                                            \/ Contains(cascade, asked[j])
                   /\ MapModel(primary.model, primary.provider,
                               asked[i].provider, custom) = asked[i].model
    <3>1. PICK R : R = {primary} \cup ToSet(fallbacks)
      OBVIOUS
    <3>2. PICK one : one = <<primary>>
      OBVIOUS
    <3>3. Len(one) = 1 /\ one[1] = primary
      BY <3>2
    <3>4. one \in Seq(R)
      BY <3>1, <3>2
    <3>5. fallbacks \in Seq(R)
      BY <2>11, <2>12, <3>1 DEF PlanSound, IsSequence
    <3>6. PICK m \in Nat : m = Len(fallbacks) /\ DOMAIN fallbacks = 1..m
      BY <3>5
    <3>7. PICK v : v = one \o fallbacks
      OBVIOUS
    <3>8. Len(v) = Len(one) + Len(fallbacks)
      BY <3>4, <3>5, <3>7, ConcatProperties
    <3>9. \A k \in 1..(Len(one) + Len(fallbacks)) :
            v[k] = IF k <= Len(one) THEN one[k] ELSE fallbacks[k - Len(one)]
      BY <3>4, <3>5, <3>7, ConcatProperties
    <3>10. Len(v) = m + 1 /\ v[1] = primary /\ \A k \in 2..(m + 1) : v[k] = fallbacks[k - 1]
      BY <3>3, <3>6, <3>8, <3>9
    <3>11. \A k \in 2..n : k \in 2..(m + 1) /\ asked[k] = v[k]
      BY <2>13, <3>6, <3>10
    <3>12. \A k \in 1..n : asked[k] = v[k]
      BY <2>16, <3>10, <3>11
    <3>13. Crossing(v, cascade, custom)
      BY <2>11, <2>12, <2>16, <3>2, <3>7 DEF PlanSound
    <3>14. i \in 2..Len(v)
      BY <3>10, <3>11
    <3>15. \/ Contains(cascade, v[i])
           \/ /\ MapModel(v[1].model, v[1].provider, v[i].provider, custom) = v[i].model
              /\ \A j \in 1..(i - 1) : v[j].provider # v[i].provider \/ Contains(cascade, v[j])
      BY <3>13, <3>14 DEF Crossing
    <3>16. \A j \in 1..(i - 1) : asked[j] = v[j]
      BY <2>16, <3>12
    <3> QED BY <3>10, <3>12, <3>15, <3>16
  <2> QED BY <2>12, <2>14, <2>15, <2>16
<1>2. IInv /\ RoutesInv /\ [Next]_vars => RoutesInv'
  BY RoutesStep
<1> QED BY <1>1, <1>2, RoutesInit, InvariantHolds, PTL DEF Spec

------------------------------------------------------------------------------
(* Parts                                                                   *)

(* The provers do not know of a string literal that it is in STRING.       *)
Literal ==
  STRING \cup {"", "system", "user", "assistant", "model", "tool", "text", "image", "image_ref", "input_text",
               "output_text", "input_image", "summary", "thinking", "tool_use",
               "tool_result", "functionCall", "functionResponse", "message",
               "function_call", "reasoning"}
  \cup {CallId(n) : n \in Nat}

SomePart == [kind : Literal, id : Literal, text : Seq(STRING)]

LEMMA PartSays ==
  ASSUME NEW kind \in Literal, NEW id \in Literal, NEW text \in Seq(STRING)
  PROVE  /\ Part(kind, id, text) \in SomePart
         /\ Part(kind, id, text).kind = kind
         /\ Part(kind, id, text).id = id
         /\ Part(kind, id, text).text = text
BY DEF Part, SomePart

LEMMA PartFields ==
  ASSUME NEW p \in SomePart
  PROVE  p.kind \in Literal /\ p.id \in Literal /\ p.text \in Seq(STRING)
BY DEF SomePart

LEMMA PartsAreParts ==
  ASSUME NEW kinds \in SUBSET Literal, NEW ps \in PartsOf(kinds)
  PROVE  ps \in Seq(SomePart) /\ \A i \in DOMAIN ps : ps[i].kind \in kinds
<1>1. PICK K : K = [kind : kinds, id : STRING, text : Seq(STRING)]
  OBVIOUS
<1>2. ps \in Seq(K)
  BY <1>1 DEF PartsOf
<1>3. PICK n \in Nat : n = Len(ps) /\ ps \in [1..n -> K]
  BY <1>2
<1>4. \A x \in K : x \in SomePart /\ x.kind \in kinds
  BY <1>1 DEF SomePart, Literal
<1>5. ps \in [1..n -> SomePart]
  BY <1>3, <1>4
<1>6. ps \in Seq(SomePart)
  BY <1>5
<1> QED BY <1>3, <1>4, <1>6

Texts(kinds) == [p \in SomePart |-> IF p.kind \in kinds THEN p.text ELSE <<>>]

LEMMA TextsSays ==
  ASSUME NEW kinds
  PROVE  /\ Texts(kinds) \in [SomePart -> Seq(STRING)]
         /\ \A p \in SomePart : Texts(kinds)[p] = IF p.kind \in kinds THEN p.text ELSE <<>>
<1>1. PICK e : e = <<>>
  OBVIOUS
<1>2. e \in Seq(STRING)
  BY <1>1
<1>3. \A p \in SomePart : (IF p.kind \in kinds THEN p.text ELSE e) \in Seq(STRING)
  BY <1>2, PartFields
<1> QED BY <1>1, <1>3 DEF Texts

LEMMA JoinedSays ==
  ASSUME NEW kinds, NEW ps \in Seq(SomePart)
  PROVE  /\ Joined(kinds, ps) = Flat(Mapped(ps, Texts(kinds)))
         /\ Joined(kinds, ps) \in Seq(STRING)
<1>1. PICK n \in Nat : n = Len(ps) /\ DOMAIN ps = 1..n /\ \A i \in 1..n : ps[i] \in SomePart
  OBVIOUS
<1>2. PICK a : a = [i \in 1..n |-> IF ps[i].kind \in kinds THEN ps[i].text ELSE <<>>]
  OBVIOUS
<1>3. Joined(kinds, ps) = Flat(a)
  BY <1>1, <1>2 DEF Joined
<1>4. Mapped(ps, Texts(kinds)) = [i \in 1..n |-> Texts(kinds)[ps[i]]]
  BY <1>1 DEF Mapped
<1>5. \A i \in 1..n : Texts(kinds)[ps[i]] = IF ps[i].kind \in kinds THEN ps[i].text ELSE <<>>
  BY <1>1, TextsSays
<1>6. Mapped(ps, Texts(kinds)) = a
  BY <1>2, <1>4, <1>5
<1>7. Mapped(ps, Texts(kinds)) \in Seq(Seq(STRING))
  BY TextsSays, MappedSays
<1>8. Flat(Mapped(ps, Texts(kinds))) \in Seq(STRING)
  BY <1>7, FlatSays
<1> QED BY <1>3, <1>6, <1>8

LEMMA JoinedSame ==
  ASSUME NEW K, NEW L, NEW ps, \A i \in DOMAIN ps : ps[i].kind \in K <=> ps[i].kind \in L
  PROVE  Joined(K, ps) = Joined(L, ps)
<1>1. [i \in DOMAIN ps |-> IF ps[i].kind \in K THEN ps[i].text ELSE <<>>]
      = [i \in DOMAIN ps |-> IF ps[i].kind \in L THEN ps[i].text ELSE <<>>]
  OBVIOUS
<1> QED BY <1>1 DEF Joined

LEMMA JoinedNone ==
  ASSUME NEW K, NEW ps \in Seq(SomePart), \A i \in DOMAIN ps : ps[i].kind \notin K
  PROVE  Joined(K, ps) = <<>>
<1>1. PICK n \in Nat : n = Len(ps) /\ DOMAIN ps = 1..n
  OBVIOUS
<1>2. PICK a : a = [i \in 1..n |-> IF ps[i].kind \in K THEN ps[i].text ELSE <<>>]
  OBVIOUS
<1>3. \A i \in 1..n : a[i] = <<>>
  BY <1>1, <1>2
<1>4. a \in [1..n -> {<<>>}]
  BY <1>2, <1>3
<1>5. a \in Seq({<<>>})
  BY <1>4
<1>6. Flat(a) = <<>>
  BY <1>5, FlatNone
<1> QED BY <1>1, <1>2, <1>6 DEF Joined

LEMMA JoinedOne ==
  ASSUME NEW K, NEW p \in SomePart
  PROVE  Joined(K, <<p>>) = IF p.kind \in K THEN p.text ELSE <<>>
<1>1. PICK w \in Seq(STRING) : w = Texts(K)[p] /\ w = IF p.kind \in K THEN p.text ELSE <<>>
  BY TextsSays
<1>2. PICK s : s = <<p>>
  OBVIOUS
<1>3. s \in Seq(SomePart)
  BY <1>2
<1>4. Mapped(s, Texts(K)) = <<w>>
  BY <1>1, <1>2, MappedOne
<1>5. Flat(<<w>>) = w
  BY FlatOne
<1>6. Joined(K, s) = Flat(Mapped(s, Texts(K)))
  BY <1>3, JoinedSays
<1> QED BY <1>1, <1>2, <1>4, <1>5, <1>6

LEMMA JoinedConcat ==
  ASSUME NEW K, NEW ps \in Seq(SomePart), NEW qs \in Seq(SomePart)
  PROVE  Joined(K, ps \o qs) = Joined(K, ps) \o Joined(K, qs)
<1>1. PICK t : t = Texts(K) /\ t \in [SomePart -> Seq(STRING)]
  BY TextsSays
<1>2. Mapped(ps \o qs, t) = Mapped(ps, t) \o Mapped(qs, t)
  BY MappedConcat
<1>3. Mapped(ps, t) \in Seq(Seq(STRING))
  BY <1>1, MappedSays
<1>4. Mapped(qs, t) \in Seq(Seq(STRING))
  BY <1>1, MappedSays
<1>5. Flat(Mapped(ps, t) \o Mapped(qs, t)) = Flat(Mapped(ps, t)) \o Flat(Mapped(qs, t))
  BY <1>3, <1>4, FlatConcat
<1>6. ps \o qs \in Seq(SomePart)
  OBVIOUS
<1>7. Joined(K, ps \o qs) = Flat(Mapped(ps \o qs, t))
  BY <1>1, <1>6, JoinedSays
<1>8. Joined(K, ps) = Flat(Mapped(ps, t))
  BY <1>1, JoinedSays
<1>9. Joined(K, qs) = Flat(Mapped(qs, t))
  BY <1>1, JoinedSays
<1> QED BY <1>2, <1>5, <1>7, <1>8, <1>9

LEMMA OfKindSays ==
  ASSUME NEW K, NEW ps \in Seq(SomePart)
  PROVE  OfKind(K, ps) \in Seq(SomePart) /\ \A i \in DOMAIN OfKind(K, ps) : OfKind(K, ps)[i].kind \in K
<1>1. PICK S : S = {p \in ToSet(ps) : p.kind \in K}
  OBVIOUS
<1>2. PICK k : k = Keep(ps, S)
  OBVIOUS
<1>3. k \in Seq(SomePart) /\ \E p : Subsequence(k, ps, S, p)
  BY <1>2, KeepSays
<1>4. \A i \in DOMAIN k : k[i] \in S
  BY <1>3 DEF Subsequence
<1>5. \A i \in DOMAIN k : k[i].kind \in K
  BY <1>1, <1>4
<1> QED BY <1>1, <1>2, <1>3, <1>5 DEF OfKind

LEMMA OfKindNone ==
  ASSUME NEW K, NEW ps \in Seq(SomePart), \A i \in DOMAIN ps : ps[i].kind \notin K
  PROVE  OfKind(K, ps) = <<>>
<1>1. PICK S : S = {p \in ToSet(ps) : p.kind \in K}
  OBVIOUS
<1>2. \A i \in DOMAIN ps : ps[i] \notin S
  BY <1>1
<1>3. Keep(ps, S) = <<>>
  BY <1>2, KeepNone
<1> QED BY <1>1, <1>3 DEF OfKind

LEMMA OfKindSame ==
  ASSUME NEW K, NEW L, NEW ps \in Seq(SomePart),
         \A i \in DOMAIN ps : ps[i].kind \in K <=> ps[i].kind \in L
  PROVE  OfKind(K, ps) = OfKind(L, ps)
<1>1. PICK S : S = {p \in ToSet(ps) : p.kind \in K}
  OBVIOUS
<1>2. PICK T : T = {p \in ToSet(ps) : p.kind \in L}
  OBVIOUS
<1>3. \A i \in DOMAIN ps : ps[i] \in S <=> ps[i] \in T
  BY <1>1, <1>2 DEF ToSet
<1>4. Keep(ps, S) = Keep(ps, T)
  BY <1>3, KeepSame
<1> QED BY <1>1, <1>2, <1>4 DEF OfKind

LEMMA OfKindAll ==
  ASSUME NEW K, NEW ps \in Seq(SomePart), \A i \in DOMAIN ps : ps[i].kind \in K
  PROVE  OfKind(K, ps) = ps
<1>1. PICK S : S = {p \in ToSet(ps) : p.kind \in K}
  OBVIOUS
<1>2. \A i \in DOMAIN ps : ps[i] \in S /\ ps[i] \in SomePart
  BY <1>1 DEF ToSet
<1>3. Keep(ps, S) = Keep(ps, SomePart)
  BY <1>2, KeepSame
<1>4. Keep(ps, SomePart) = ps
  BY KeepAll
<1> QED BY <1>1, <1>3, <1>4 DEF OfKind

(* The texts of the parts that are kept.                                   *)
LEMMA JoinedKept ==
  ASSUME NEW K, NEW L, NEW ps \in Seq(SomePart)
  PROVE  Joined(K, OfKind(L, ps)) = Joined(K \cap L, ps)
<1>1. PICK S : S = {p \in ToSet(ps) : p.kind \in L}
  OBVIOUS
<1>2. PICK g : g = Texts(K) /\ g \in [SomePart -> Seq(STRING)]
  BY TextsSays
<1>3. PICK h \in [SomePart -> Seq(STRING)] : Restricts(h, g, S, SomePart)
  <2>1. PICK e : e = <<>>
    OBVIOUS
  <2>2. PICK h : h = [p \in SomePart |-> IF p \in S THEN g[p] ELSE e]
    OBVIOUS
  <2>3. e \in Seq(STRING)
    BY <2>1
  <2>4. h \in [SomePart -> Seq(STRING)]
    BY <1>2, <2>2, <2>3
  <2> QED BY <2>1, <2>2, <2>4 DEF Restricts
<1>4. Flat(Mapped(Keep(ps, S), g)) = Flat(Mapped(ps, h))
  <2>1. Maps(g, SomePart, Seq(STRING)) /\ Maps(h, SomePart, Seq(STRING))
    BY <1>2 DEF Maps
  <2> QED BY <1>3, <2>1, FlatKept
<1>5. Keep(ps, S) = OfKind(L, ps)
  BY <1>1 DEF OfKind
<1>6. Joined(K, OfKind(L, ps)) = Flat(Mapped(OfKind(L, ps), g))
  BY <1>2, OfKindSays, JoinedSays
<1>7. Joined(K \cap L, ps) = Flat(Mapped(ps, Texts(K \cap L)))
  BY JoinedSays
<1>8. Mapped(ps, h) = Mapped(ps, Texts(K \cap L))
  <2>1. PICK n \in Nat : n = Len(ps) /\ DOMAIN ps = 1..n /\ \A i \in 1..n : ps[i] \in SomePart
    OBVIOUS
  <2>2. \A i \in 1..n : ps[i] \in S <=> ps[i].kind \in L
    BY <1>1, <2>1 DEF ToSet
  <2>3. \A i \in 1..n : h[ps[i]] = Texts(K \cap L)[ps[i]]
    <3>1. ASSUME NEW i \in 1..n PROVE h[ps[i]] = Texts(K \cap L)[ps[i]]
      <4>1. PICK p \in SomePart : p = ps[i]
        BY <2>1
      <4>2. Texts(K \cap L)[p] = IF p.kind \in K \cap L THEN p.text ELSE <<>>
        BY TextsSays
      <4>3. g[p] = IF p.kind \in K THEN p.text ELSE <<>>
        BY <1>2, TextsSays
      <4>4. h[p] = IF p \in S THEN g[p] ELSE <<>>
        BY <1>3 DEF Restricts
      <4>5. p \in S <=> p.kind \in L
        BY <2>2, <4>1
      <4> QED BY <4>1, <4>2, <4>3, <4>4, <4>5
    <3> QED BY <3>1
  <2> QED BY <2>1, <2>3 DEF Mapped
<1> QED BY <1>4, <1>5, <1>6, <1>7, <1>8

------------------------------------------------------------------------------
(* Turns                                                                   *)

SomeTurn ==
  [role : Literal, parts : Seq(SomePart), calls : Seq(SomePart), answers : Literal]

LEMMA TurnFields ==
  ASSUME NEW t \in SomeTurn
  PROVE  /\ t.role \in Literal /\ t.answers \in Literal
         /\ t.parts \in Seq(SomePart) /\ t.calls \in Seq(SomePart)
BY DEF SomeTurn

LEMMA TurnSays ==
  ASSUME NEW role \in Literal, NEW parts \in Seq(SomePart), NEW calls \in Seq(SomePart),
         NEW answers \in Literal
  PROVE  /\ Turn(role, parts, calls, answers) \in SomeTurn
         /\ Turn(role, parts, calls, answers).role = role
         /\ Turn(role, parts, calls, answers).parts = parts
         /\ Turn(role, parts, calls, answers).calls = calls
         /\ Turn(role, parts, calls, answers).answers = answers
BY DEF Turn, SomeTurn

(* A call that is made, or what it returned.                               *)
Deed == [result : BOOLEAN, id : Literal, text : Seq(STRING)]
Results == {"tool_result", "functionResponse"}
Deeds == {"tool_use", "functionCall", "tool_result", "functionResponse"}
WordKinds == {"text", "input_text", "output_text"}
ImageKinds == {"image", "input_image", "image_ref"}
Carried == {"image", "input_image"}
Did == [p \in SomePart |-> [result |-> p.kind \in Results, id |-> p.id, text |-> p.text]]

LEMMA DidSays ==
  /\ Did \in [SomePart -> Deed]
  /\ \A p \in SomePart : Did[p] = [result |-> p.kind \in Results, id |-> p.id, text |-> p.text]
<1>1. ASSUME NEW p \in SomePart
      PROVE  [result |-> p.kind \in Results, id |-> p.id, text |-> p.text] \in Deed
  <2>1. PICK yes \in BOOLEAN : yes = (p.kind \in Results)
    <3>1. CASE p.kind \in Results
      BY Zenon, <3>1
    <3>2. CASE p.kind \notin Results
      <4>1. (p.kind \in Results) = FALSE
        BY <3>2
      <4> QED BY <4>1
    <3> QED BY <3>1, <3>2
  <2>2. p.id \in Literal /\ p.text \in Seq(STRING)
    BY PartFields
  <2>3. [result |-> yes, id |-> p.id, text |-> p.text] \in Deed
    BY <2>2 DEF Deed
  <2> QED BY <2>1, <2>3
<1>2. Did \in [SomePart -> Deed]
  BY Zenon, <1>1 DEF Did
<1> QED BY <1>2 DEF Did

Tool(role) == role \in {"tool", "function_call", "function_call_output"}

LEMMA ExchangeOfTool ==
  ASSUME NEW t \in SomeTurn, Tool(t.role)
  PROVE  TurnExchange(t) = << [result |-> t.role # "function_call", id |-> t.answers,
                               text |-> WordsOf(t.parts)] >>
BY Zenon DEF TurnExchange, Tool

LEMMA ExchangeOfTurn ==
  ASSUME NEW t \in SomeTurn, ~ Tool(t.role)
  PROVE  TurnExchange(t) = Mapped(OfKind(Deeds, t.parts), Did) \o Mapped(t.calls, Did)
<1>1. PICK a : a = OfKind(Deeds, t.parts)
  OBVIOUS
<1>2. PICK c : c = t.calls
  OBVIOUS
<1>3. a \in Seq(SomePart) /\ c \in Seq(SomePart)
  BY <1>1, <1>2, TurnFields, OfKindSays
<1> DEFINE one(p) == [result |-> p.kind \in Results, id |-> p.id, text |-> p.text]
<1>4. TurnExchange(t) = [i \in DOMAIN a |-> one(a[i])] \o [i \in DOMAIN c |-> one(c[i])]
  BY Zenon, <1>1, <1>2 DEF TurnExchange, Tool, Deeds, Results
<1>5. (\A i \in DOMAIN a : a[i] \in SomePart) /\ (\A i \in DOMAIN c : c[i] \in SomePart)
  BY <1>3
<1>6. \A p \in SomePart : Did[p] = one(p)
  BY DidSays
<1> HIDE DEF one
<1>7. [i \in DOMAIN a |-> one(a[i])] = Mapped(a, Did)
  BY <1>5, <1>6 DEF Mapped
<1>8. [i \in DOMAIN c |-> one(c[i])] = Mapped(c, Did)
  BY <1>5, <1>6 DEF Mapped
<1> QED BY <1>1, <1>2, <1>4, <1>7, <1>8

LEMMA WordsOfSays ==
  ASSUME NEW ps \in Seq(SomePart)
  PROVE  WordsOf(ps) = Joined(WordKinds, ps) /\ WordsOf(ps) \in Seq(STRING)
BY JoinedSays DEF WordsOf, WordKinds

LEMMA ExchangeSays ==
  ASSUME NEW t \in SomeTurn
  PROVE  TurnExchange(t) \in Seq(Deed)
<1>1. CASE Tool(t.role)
  <2>1. PICK w \in Seq(STRING) : w = WordsOf(t.parts)
    BY TurnFields, WordsOfSays
  <2>2. PICK yes \in BOOLEAN : yes = (t.role # "function_call")
    OBVIOUS
  <2>3. PICK d \in Deed : d = [result |-> yes, id |-> t.answers, text |-> w]
    BY <2>1, TurnFields DEF Deed
  <2>4. TurnExchange(t) = <<d>>
    BY Zenon, <1>1, <2>1, <2>2, <2>3, ExchangeOfTool
  <2>5. <<d>> \in Seq(Deed)
    OBVIOUS
  <2> QED BY <2>4, <2>5
<1>2. CASE ~ Tool(t.role)
  <2>1. PICK a \in Seq(SomePart) : a = OfKind(Deeds, t.parts)
    BY TurnFields, OfKindSays
  <2>2. PICK c \in Seq(SomePart) : c = t.calls
    BY TurnFields
  <2>3. PICK x \in Seq(Deed) : x = Mapped(a, Did)
    BY DidSays, MappedSays
  <2>4. PICK y \in Seq(Deed) : y = Mapped(c, Did)
    BY DidSays, MappedSays
  <2>5. TurnExchange(t) = x \o y
    BY <1>2, <2>1, <2>2, <2>3, <2>4, ExchangeOfTurn
  <2> QED BY <2>5
<1> QED BY <1>1, <1>2

(* What the property reads off a turn.                                     *)
Sides == {"system", "user", "assistant"}
WordsIn(who) == [t \in SomeTurn |-> TurnWords(who, t)]
Exchanges == [t \in SomeTurn |-> TurnExchange(t)]
ImagesIn(kinds) == [t \in SomeTurn |-> OfKind(kinds, t.parts)]

LEMMA TurnWordsSays ==
  ASSUME NEW who, NEW t \in SomeTurn
  PROVE  TurnWords(who, t) \in Seq(STRING)
<1>1. PICK e : e = <<>>
  OBVIOUS
<1>2. e \in Seq(STRING)
  BY <1>1
<1>3. WordsOf(t.parts) \in Seq(STRING)
  BY TurnFields, WordsOfSays
<1> QED BY <1>1, <1>2, <1>3 DEF TurnWords

LEMMA ObserversSay ==
  /\ \A who : Maps(WordsIn(who), SomeTurn, Seq(STRING))
  /\ Maps(Exchanges, SomeTurn, Seq(Deed))
  /\ \A kinds : Maps(ImagesIn(kinds), SomeTurn, Seq(SomePart))
<1>1. ASSUME NEW who
      PROVE  Maps(WordsIn(who), SomeTurn, Seq(STRING))
  BY Zenon, TurnWordsSays DEF Maps, WordsIn
<1>2. Maps(Exchanges, SomeTurn, Seq(Deed))
  BY Zenon, ExchangeSays DEF Maps, Exchanges
<1>3. ASSUME NEW kinds
      PROVE  Maps(ImagesIn(kinds), SomeTurn, Seq(SomePart))
  BY Zenon, TurnFields, OfKindSays DEF Maps, ImagesIn
<1> QED BY <1>1, <1>2, <1>3

(* What bodies say, by their turns.                                        *)
LEMMA BodySays ==
  ASSUME NEW b, b.turns \in Seq(SomeTurn)
  PROVE  /\ \A who : Words(who, b) = (IF who = "system" THEN WordsOf(b.system) ELSE <<>>)
                                     \o Flat(Mapped(b.turns, WordsIn(who)))
         /\ Exchange(b) = Flat(Mapped(b.turns, Exchanges))
         /\ \A kinds : Pictures(kinds, b) = Flat(Mapped(b.turns, ImagesIn(kinds)))
         /\ Images(b) = Flat(Mapped(b.turns, ImagesIn(ImageKinds)))
<1>1. PICK s \in Seq(SomeTurn) : s = b.turns
  OBVIOUS
<1>2. \A i \in DOMAIN s : s[i] \in SomeTurn
  OBVIOUS
<1>3. ASSUME NEW who
      PROVE  [i \in DOMAIN s |-> TurnWords(who, s[i])] = Mapped(s, WordsIn(who))
  BY Zenon, <1>2 DEF Mapped, WordsIn
<1>4. [i \in DOMAIN s |-> TurnExchange(s[i])] = Mapped(s, Exchanges)
  BY Zenon, <1>2 DEF Mapped, Exchanges
<1>5. ASSUME NEW kinds
      PROVE  [i \in DOMAIN s |-> OfKind(kinds, s[i].parts)] = Mapped(s, ImagesIn(kinds))
  BY Zenon, <1>2 DEF Mapped, ImagesIn
<1>6. ASSUME NEW who
      PROVE  Words(who, b) = (IF who = "system" THEN WordsOf(b.system) ELSE <<>>)
                             \o Flat(Mapped(s, WordsIn(who)))
  BY Zenon, <1>1, <1>3 DEF Words
<1>7. Exchange(b) = Flat(Mapped(s, Exchanges))
  BY Zenon, <1>1, <1>4 DEF Exchange
<1>8. ASSUME NEW kinds
      PROVE  Pictures(kinds, b) = Flat(Mapped(s, ImagesIn(kinds)))
  BY Zenon, <1>1, <1>5 DEF Pictures
<1>9. Images(b) = Flat(Mapped(s, ImagesIn(ImageKinds)))
  BY Zenon, <1>8 DEF Images, ImageKinds
<1> QED BY <1>1, <1>6, <1>7, <1>8, <1>9

(* A call on its way to an upstream keeps its name and its arguments, or   *)
(* its name and the arguments' value ("valued"), or their value alone      *)
(* ("bare"); a result is left alone.                                       *)
Phrase(d, how) ==
  IF d.result \/ how = "named" THEN d
  ELSE [d EXCEPT !.id = IF how = "bare" THEN "" ELSE @, !.text = Arguments(@)]

Phrased(calls, how) == [i \in DOMAIN calls |-> Phrase(calls[i], how)]
Phrases(how) == [d \in Deed |-> Phrase(d, how)]

LEMMA ArgumentsSay ==
  ASSUME NEW text \in Seq(STRING)
  PROVE  Arguments(text) \in Seq(STRING)
BY JsonAssumption DEF Arguments

LEMMA PhraseSays ==
  ASSUME NEW d \in Deed, NEW how
  PROVE  Phrase(d, how) \in Deed
<1>1. PICK none \in Literal : none = ""
  BY DEF Literal
<1>2. PICK id \in Literal : id = IF how = "bare" THEN none ELSE d.id
  BY DEF Deed
<1>3. PICK text \in Seq(STRING) : text = Arguments(d.text)
  BY ArgumentsSay DEF Deed
<1>4. PICK e : e = [d EXCEPT !.id = id, !.text = text]
  OBVIOUS
<1>5. e \in Deed
  BY <1>4 DEF Deed
<1>6. Phrase(d, how) = IF d.result \/ how = "named" THEN d ELSE e
  BY <1>1, <1>2, <1>3, <1>4 DEF Phrase, Deed
<1> QED BY <1>5, <1>6

LEMMA PhrasedSays ==
  ASSUME NEW how, NEW c \in Seq(Deed)
  PROVE  /\ Phrased(c, how) = Mapped(c, Phrases(how))
         /\ Maps(Phrases(how), Deed, Deed)
         /\ how = "named" => Phrased(c, how) = c
<1>1. \A i \in DOMAIN c : c[i] \in Deed
  OBVIOUS
<1>2. Phrased(c, how) = Mapped(c, Phrases(how))
  BY Zenon, <1>1 DEF Phrased, Mapped, Phrases
<1>3. \A d \in Deed : Phrase(d, how) \in Deed
  BY PhraseSays
<1>4. Maps(Phrases(how), Deed, Deed)
  BY Zenon, <1>3 DEF Maps, Phrases
<1>5. ASSUME how = "named"
      PROVE  Phrased(c, how) = c
  <2>1. Phrased(c, how) = [i \in DOMAIN c |-> c[i]]
    BY Zenon, <1>5 DEF Phrased, Phrase
  <2>2. c = [i \in DOMAIN c |-> c[i]]
    OBVIOUS
  <2> QED BY <2>1, <2>2
<1> QED BY <1>2, <1>4, <1>5

------------------------------------------------------------------------------
(* Answers                                                                 *)

TextsIn(calls) == [i \in DOMAIN calls |-> calls[i].text]
CallKinds == {"tool_use", "functionCall"}

LEMMA MessageReads ==
  ASSUME NEW parts, NEW finish
  PROVE  /\ AnswerWords(Message(parts, finish)) = WordsOf(parts)
         /\ AnswerCalls(Message(parts, finish)) = TextsIn(OfKind(CallKinds, parts))
         /\ Message(parts, finish).parts = parts
         /\ Message(parts, finish).finish = finish
<1>1. PICK a : a = Message(parts, finish)
  OBVIOUS
<1>2. "parts" \in DOMAIN a /\ "outputs" \notin DOMAIN a /\ a.parts = parts /\ a.finish = finish
  BY <1>1 DEF Message
<1>3. AnswerWords(a) = WordsOf(parts)
  BY <1>2 DEF AnswerWords
<1>4. AnswerCalls(a) = TextsIn(OfKind(CallKinds, parts))
  BY Zenon, <1>2 DEF AnswerCalls, TextsIn, CallKinds
<1> QED BY <1>1, <1>2, <1>3, <1>4

LEMMA CompletionReads ==
  ASSUME NEW text, NEW calls, NEW finish, NEW reasoning
  PROVE  LET a == Completion(text, calls, finish, reasoning)
         IN  /\ AnswerWords(a) = text /\ AnswerCalls(a) = TextsIn(calls)
             /\ a.text = text /\ a.calls = calls
             /\ a.finish = finish /\ a.reasoning = reasoning
<1>1. PICK a : a = Completion(text, calls, finish, reasoning)
  OBVIOUS
<1>2. /\ "parts" \notin DOMAIN a /\ "outputs" \notin DOMAIN a /\ a.text = text
      /\ a.calls = calls /\ a.finish = finish /\ a.reasoning = reasoning
  BY <1>1 DEF Completion
<1>3. AnswerWords(a) = text
  BY <1>2 DEF AnswerWords
<1>4. AnswerCalls(a) = TextsIn(calls)
  BY Zenon, <1>2 DEF AnswerCalls, TextsIn
<1> QED BY <1>1, <1>2, <1>3, <1>4

LEMMA ObjectReads ==
  ASSUME NEW outputs, NEW finish
  PROVE  LET a == Object(outputs, finish)
         IN  /\ AnswerWords(a) = Joined({"message"}, outputs)
             /\ AnswerCalls(a) = TextsIn(OfKind({"function_call"}, outputs))
             /\ a.finish = finish
<1>1. PICK a : a = Object(outputs, finish)
  OBVIOUS
<1>2. "parts" \notin DOMAIN a /\ "outputs" \in DOMAIN a /\ a.outputs = outputs /\ a.finish = finish
  BY <1>1 DEF Object
<1>3. AnswerWords(a) = Joined({"message"}, outputs)
  BY <1>2 DEF AnswerWords
<1>4. AnswerCalls(a) = TextsIn(OfKind({"function_call"}, outputs))
  BY Zenon, <1>2 DEF AnswerCalls, TextsIn
<1> QED BY <1>1, <1>2, <1>3, <1>4

(* A filter by kind does not depend on the sequence it is applied to.      *)
LEMMA OfKindIs ==
  ASSUME NEW K, NEW ps \in Seq(SomePart)
  PROVE  OfKind(K, ps) = Keep(ps, {p \in SomePart : p.kind \in K})
<1>1. PICK S : S = {p \in ToSet(ps) : p.kind \in K}
  OBVIOUS
<1>2. PICK T : T = {p \in SomePart : p.kind \in K}
  OBVIOUS
<1>3. \A i \in DOMAIN ps : ps[i] \in S <=> ps[i] \in T
  BY <1>1, <1>2 DEF ToSet
<1>4. Keep(ps, S) = Keep(ps, T)
  BY <1>3, KeepSame
<1> QED BY <1>1, <1>2, <1>4 DEF OfKind

LEMMA OfKindConcat ==
  ASSUME NEW K, NEW ps \in Seq(SomePart), NEW qs \in Seq(SomePart)
  PROVE  OfKind(K, ps \o qs) = OfKind(K, ps) \o OfKind(K, qs)
<1>1. PICK T : T = {p \in SomePart : p.kind \in K}
  OBVIOUS
<1>2. ps \o qs \in Seq(SomePart)
  OBVIOUS
<1>3. Keep(ps \o qs, T) = Keep(ps, T) \o Keep(qs, T)
  BY KeepConcat
<1>4. OfKind(K, ps \o qs) = Keep(ps \o qs, T)
  BY <1>1, <1>2, OfKindIs
<1> QED BY <1>1, <1>3, <1>4, OfKindIs

LEMMA OptionalSays ==
  ASSUME NEW kind \in Literal, NEW text \in Seq(STRING)
  PROVE  /\ Optional(kind, text) \in Seq(SomePart)
         /\ \A i \in DOMAIN Optional(kind, text) : Optional(kind, text)[i].kind = kind
         /\ \A K : kind \in K => Joined(K, Optional(kind, text)) = text
<1>1. PICK none \in Literal : none = ""
  BY DEF Literal
<1>2. PICK p \in SomePart : p = Part(kind, none, text) /\ p.kind = kind /\ p.text = text
  BY PartSays
<1>3. CASE text = <<>>
  <2>1. PICK e : e = <<>>
    OBVIOUS
  <2>2. Optional(kind, text) = e /\ e \in Seq(SomePart) /\ DOMAIN e = {}
    BY <1>3, <2>1 DEF Optional
  <2>3. \A K : Joined(K, e) = e
    BY <2>1, <2>2, JoinedNone
  <2> QED BY <1>3, <2>1, <2>2, <2>3
<1>4. CASE text # <<>>
  <2>1. Optional(kind, text) = <<p>>
    BY <1>1, <1>2, <1>4 DEF Optional
  <2>2. <<p>> \in Seq(SomePart) /\ \A i \in DOMAIN <<p>> : <<p>>[i].kind = kind
    BY <1>2
  <2>3. \A K : kind \in K => Joined(K, <<p>>) = text
    BY <1>2, JoinedOne
  <2> QED BY <2>1, <2>2, <2>3
<1> QED BY <1>3, <1>4

LEMMA AsKindSays ==
  ASSUME NEW kind \in Literal, NEW calls \in Seq(SomePart)
  PROVE  /\ AsKind(kind, calls) \in Seq(SomePart)
         /\ \A i \in DOMAIN AsKind(kind, calls) : AsKind(kind, calls)[i].kind = kind
         /\ TextsIn(AsKind(kind, calls)) = TextsIn(calls)
<1>1. PICK n \in Nat : n = Len(calls) /\ DOMAIN calls = 1..n /\ \A i \in 1..n : calls[i] \in SomePart
  OBVIOUS
<1>2. PICK a : a = AsKind(kind, calls)
  OBVIOUS
<1>3. a = [i \in 1..n |-> [calls[i] EXCEPT !.kind = kind]]
  BY Zenon, <1>1, <1>2 DEF AsKind
<1>4. \A p \in SomePart : /\ [p EXCEPT !.kind = kind] \in SomePart
                          /\ [p EXCEPT !.kind = kind].kind = kind
                          /\ [p EXCEPT !.kind = kind].text = p.text
  BY DEF SomePart
<1>5. \A i \in 1..n : a[i] \in SomePart /\ a[i].kind = kind /\ a[i].text = calls[i].text
  BY <1>1, <1>3, <1>4
<1>6. a \in [1..n -> SomePart] /\ DOMAIN a = 1..n
  BY <1>3, <1>5
<1>7. a \in Seq(SomePart)
  BY <1>6
<1>8. TextsIn(a) = TextsIn(calls)
  BY <1>1, <1>5, <1>6 DEF TextsIn
<1> QED BY <1>2, <1>5, <1>6, <1>7, <1>8

(* A part of each kind in turn: what is asked of one is what that says.    *)
LEMMA NoneOf ==
  ASSUME NEW K, NEW kind, kind \notin K, NEW ps \in Seq(SomePart),
         \A i \in DOMAIN ps : ps[i].kind = kind
  PROVE  OfKind(K, ps) = <<>> /\ Joined(K, ps) = <<>>
<1>1. \A i \in DOMAIN ps : ps[i].kind \notin K
  OBVIOUS
<1> QED BY <1>1, OfKindNone, JoinedNone

LEMMA AllOf ==
  ASSUME NEW K, NEW kind \in K, NEW ps \in Seq(SomePart),
         \A i \in DOMAIN ps : ps[i].kind = kind
  PROVE  OfKind(K, ps) = ps
<1>1. \A i \in DOMAIN ps : ps[i].kind \in K
  OBVIOUS
<1> QED BY <1>1, OfKindAll

------------------------------------------------------------------------------
ChatAnswer(a) ==
  /\ a = Completion(a.text, a.calls, a.finish, a.reasoning)
  /\ a.text \in Seq(STRING) /\ a.reasoning \in Seq(STRING) /\ a.calls \in Seq(SomePart)

MessageAnswer(a, kinds) ==
  /\ a = Message(a.parts, a.finish)
  /\ a.parts \in Seq(SomePart) /\ \A i \in DOMAIN a.parts : a.parts[i].kind \in kinds

(* Two answers say the same.                                               *)
Agree(x, y) == AnswerWords(x) = AnswerWords(y) /\ AnswerCalls(x) = AnswerCalls(y)

LEMMA TruncatedSays ==
  ASSUME NEW a
  PROVE  Truncated(a) <=>
           a.finish \in {"max_tokens", "length", "MAX_TOKENS", "incomplete:max_output_tokens"}
<1>1. PICK shorts : shorts = {CutShort[protocol] : protocol \in Protocols}
  OBVIOUS
<1>2. /\ CutShort["anthropic"] = "max_tokens" /\ CutShort["openai_chat"] = "length"
      /\ CutShort["gemini"] = "MAX_TOKENS" /\ CutShort["ollama"] = "length"
      /\ CutShort["openai_responses"] = "incomplete:max_output_tokens"
  BY DEF CutShort
<1>3. shorts = {CutShort["anthropic"], CutShort["openai_chat"], CutShort["openai_responses"],
                CutShort["gemini"], CutShort["ollama"]}
  BY Zenon, <1>1 DEF Protocols
<1> QED BY Zenon, <1>1, <1>2, <1>3 DEF Truncated

LEMMA ChatAnswerReads ==
  ASSUME NEW a, ChatAnswer(a)
  PROVE  AnswerWords(a) = a.text /\ AnswerCalls(a) = TextsIn(a.calls)
<1>1. PICK text, calls, finish, reasoning :
        /\ text = a.text /\ calls = a.calls /\ finish = a.finish /\ reasoning = a.reasoning
        /\ a = Completion(text, calls, finish, reasoning)
  BY DEF ChatAnswer
<1> QED BY <1>1, CompletionReads

LEMMA NoLiteral ==
  /\ "text" \in Literal /\ "thinking" \in Literal /\ "tool_use" \in Literal
  /\ "message" \in Literal /\ "function_call" \in Literal
  /\ "image" \in Literal /\ "" \in Literal
BY DEF Literal

(* A chat completion, told to a Messages client.                           *)
Valued(texts) == [i \in DOMAIN texts |-> Arguments(texts[i])]

LEMMA ToolUsesSay ==
  ASSUME NEW calls \in Seq(SomePart)
  PROVE  /\ ToolUses(calls) \in Seq(SomePart)
         /\ \A i \in DOMAIN ToolUses(calls) : ToolUses(calls)[i].kind = "tool_use"
         /\ TextsIn(ToolUses(calls)) = Valued(TextsIn(calls))
         /\ DOMAIN ToolUses(calls) = DOMAIN calls
         /\ \A i \in DOMAIN calls : /\ ToolUses(calls)[i].id = calls[i].id
                                   /\ ToolUses(calls)[i].text = Arguments(calls[i].text)
<1>1. PICK n \in Nat : n = Len(calls) /\ DOMAIN calls = 1..n /\ \A i \in 1..n : calls[i] \in SomePart
  OBVIOUS
<1>2. PICK a : a = ToolUses(calls)
  OBVIOUS
<1>3. PICK kind \in Literal : kind = "tool_use"
  BY NoLiteral
<1>4. a = [i \in 1..n |-> [calls[i] EXCEPT !.kind = kind, !.text = Arguments(@)]]
  BY Zenon, <1>1, <1>2, <1>3 DEF ToolUses
<1>5. ASSUME NEW i \in 1..n
      PROVE  /\ a[i] \in SomePart /\ a[i].kind = kind
             /\ a[i].id = calls[i].id /\ a[i].text = Arguments(calls[i].text)
  <2>1. PICK p \in SomePart : p = calls[i]
    BY <1>1
  <2>2. PICK text : text = Arguments(p.text)
    OBVIOUS
  <2>3. a[i] = [p EXCEPT !.kind = kind, !.text = text]
    <3>1. a[i] = [p EXCEPT !.kind = kind, !.text = Arguments(@)]
      BY <1>4, <2>1
    <3>2. PICK m : m = [p EXCEPT !.kind = kind, !.text = Arguments(@)]
      OBVIOUS
    <3>3. m = [p EXCEPT !.kind = kind, !.text = text]
      BY Zenon, <2>2, <3>2
    <3> QED BY Zenon, <3>1, <3>2, <3>3
  <2>4. PICK m : m = a[i] /\ m = [p EXCEPT !.kind = kind, !.text = text]
    BY Zenon, <2>3
  <2>5. m \in SomePart /\ m.kind = kind /\ m.id = p.id /\ m.text = text
    <3>1. text \in Seq(STRING)
      BY <2>1, <2>2, PartFields, ArgumentsSay
    <3> QED BY <2>1, <2>4, <3>1 DEF SomePart
  <2> QED BY <2>1, <2>2, <2>4, <2>5
<1>6. a \in [1..n -> SomePart] /\ DOMAIN a = 1..n
  BY <1>4, <1>5
<1>7. a \in Seq(SomePart)
  BY <1>6
<1>8. TextsIn(a) = [i \in 1..n |-> Arguments(calls[i].text)]
  BY <1>5, <1>6 DEF TextsIn
<1>9. Valued(TextsIn(calls)) = [i \in 1..n |-> Arguments(calls[i].text)]
  BY <1>1 DEF TextsIn, Valued
<1>10. DOMAIN a = DOMAIN calls
  BY <1>1, <1>6
<1>11. \A i \in DOMAIN a : a[i].kind = kind /\ a[i].id = calls[i].id
                           /\ a[i].text = Arguments(calls[i].text)
  BY <1>5, <1>6
<1> QED BY Zenon, <1>2, <1>3, <1>7, <1>8, <1>9, <1>10, <1>11

LEMMA MessagesAnswerKept ==
  ASSUME NEW a, ChatAnswer(a), NEW p
  PROVE  /\ AnswerWords(OpenAIResponseToAnthropic(a, p)) = AnswerWords(a)
         /\ AnswerCalls(OpenAIResponseToAnthropic(a, p)) = Valued(AnswerCalls(a))
         /\ Truncated(OpenAIResponseToAnthropic(a, p)) <=> a.finish = "length"
<1>1. PICK thought : thought = IF p = "zai" THEN Optional("thinking", a.reasoning) ELSE <<>>
  OBVIOUS
<1>2. /\ thought \in Seq(SomePart) /\ \A i \in DOMAIN thought : thought[i].kind = "thinking"
  <2>1. a.reasoning \in Seq(STRING)
    BY DEF ChatAnswer
  <2>2. PICK o : o = Optional("thinking", a.reasoning)
    OBVIOUS
  <2>3. o \in Seq(SomePart) /\ \A i \in DOMAIN o : o[i].kind = "thinking"
    BY <2>1, <2>2, OptionalSays, NoLiteral
  <2>4. PICK e : e = <<>>
    OBVIOUS
  <2>5. e \in Seq(SomePart) /\ DOMAIN e = {}
    BY <2>4
  <2> QED BY <1>1, <2>2, <2>3, <2>4, <2>5
<1>3. PICK text \in Seq(STRING) : text = a.text
  BY DEF ChatAnswer
<1>4. PICK said \in Seq(SomePart) : /\ said = Optional("text", text)
                                    /\ \A i \in DOMAIN said : said[i].kind = "text"
                                    /\ \A K : "text" \in K => Joined(K, said) = text
  BY OptionalSays, NoLiteral
<1>5. PICK calls \in Seq(SomePart) : calls = a.calls
  BY DEF ChatAnswer
<1>18. PICK made : made = ToolUses(calls)
  OBVIOUS
<1>6. /\ made \in Seq(SomePart) /\ made = ToolUses(calls)
      /\ \A i \in DOMAIN made : made[i].kind = "tool_use"
      /\ TextsIn(made) = Valued(TextsIn(calls))
  BY <1>18, ToolUsesSay
<1>7. PICK stop : stop = OpenAIFinishToAnthropicStop(a.finish)
  OBVIOUS
<1>8. PICK parts : parts = thought \o said \o made
  OBVIOUS
<1>9. PICK reply : reply = OpenAIResponseToAnthropic(a, p)
  OBVIOUS
<1>10. reply = Message(parts, stop)
  BY Zenon, <1>1, <1>3, <1>4, <1>5, <1>6, <1>7, <1>8, <1>9 DEF OpenAIResponseToAnthropic
<1>11. PICK e : e = <<>>
  OBVIOUS
<1>12. PICK lead \in Seq(SomePart) : lead = thought \o said
  <2>1. thought \in Seq(SomePart)
    BY <1>2
  <2>2. thought \o said \in Seq(SomePart)
    BY <2>1
  <2> QED BY <2>2
<1>13. parts = lead \o made
  BY <1>8, <1>12
<1>14. WordsOf(parts) = text
  <2>1. Joined(WordKinds, thought) = e /\ Joined(WordKinds, made) = e
    <3>1. "thinking" \notin WordKinds /\ "tool_use" \notin WordKinds
      BY DEF WordKinds
    <3>2. Joined(WordKinds, thought) = e
      BY <1>2, <1>11, <3>1, NoneOf
    <3>3. Joined(WordKinds, made) = e
      BY <1>6, <1>11, <3>1, NoneOf
    <3> QED BY <3>2, <3>3
  <2>2. Joined(WordKinds, said) = text
    BY <1>4 DEF WordKinds
  <2>7. /\ thought \in Seq(SomePart) /\ said \in Seq(SomePart)
        /\ made \in Seq(SomePart) /\ lead \in Seq(SomePart)
    BY <1>2, <1>4, <1>6, <1>12
  <2>21. Joined(WordKinds, thought \o said) = Joined(WordKinds, thought) \o Joined(WordKinds, said)
    BY <2>7, JoinedConcat
  <2>3. Joined(WordKinds, lead) = e \o text
    BY Zenon, <2>21, <1>12, <2>1, <2>2
  <2>22. Joined(WordKinds, lead \o made) = Joined(WordKinds, lead) \o Joined(WordKinds, made)
    BY <2>7, JoinedConcat
  <2>4. Joined(WordKinds, parts) = (e \o text) \o e
    BY Zenon, <2>22, <1>13, <2>1, <2>3
  <2>5. (e \o text) \o e = text
    BY <1>11
  <2>6. parts \in Seq(SomePart)
    BY <1>13, <2>7
  <2> QED BY <2>4, <2>5, <2>6, WordsOfSays
<1>15. OfKind(CallKinds, parts) = made
  <2>1. "thinking" \notin CallKinds /\ "text" \notin CallKinds /\ "tool_use" \in CallKinds
    BY DEF CallKinds
  <2>2. OfKind(CallKinds, thought) = e
    BY <1>2, <1>11, <2>1, NoneOf
  <2>3. OfKind(CallKinds, said) = e
    BY <1>4, <1>11, <2>1, NoneOf
  <2>4. OfKind(CallKinds, made) = made
    BY <1>6, <2>1, AllOf
  <2>8. /\ thought \in Seq(SomePart) /\ said \in Seq(SomePart)
        /\ made \in Seq(SomePart) /\ lead \in Seq(SomePart)
    BY <1>2, <1>4, <1>6, <1>12
  <2>23. OfKind(CallKinds, thought \o said) = OfKind(CallKinds, thought) \o OfKind(CallKinds, said)
    BY <2>8, OfKindConcat
  <2>5. OfKind(CallKinds, lead) = e \o e
    BY Zenon, <2>23, <1>12, <2>2, <2>3
  <2>24. OfKind(CallKinds, lead \o made) = OfKind(CallKinds, lead) \o OfKind(CallKinds, made)
    BY <2>8, OfKindConcat
  <2>6. OfKind(CallKinds, parts) = (e \o e) \o made
    BY Zenon, <2>24, <1>13, <2>4, <2>5
  <2>7. (e \o e) \o made = made
    BY <1>11
  <2> QED BY <2>6, <2>7
<1>16. AnswerWords(reply) = AnswerWords(a) /\ AnswerCalls(reply) = Valued(AnswerCalls(a))
  <2>1. AnswerWords(reply) = text /\ AnswerCalls(reply) = TextsIn(made)
    BY <1>10, <1>14, <1>15, MessageReads
  <2>2. AnswerWords(a) = text /\ AnswerCalls(a) = TextsIn(calls)
    BY <1>3, <1>5, ChatAnswerReads
  <2> QED BY <1>6, <2>1, <2>2
<1>17. Truncated(reply) <=> a.finish = "length"
  <2>1. reply.finish = stop
    BY <1>10, MessageReads
  <2>2. /\ stop \in {"max_tokens", "tool_use", "stop_sequence", "end_turn"}
        /\ stop = "max_tokens" <=> a.finish = "length"
    BY <1>7 DEF OpenAIFinishToAnthropicStop
  <2> QED BY <2>1, <2>2, TruncatedSays
<1> QED BY <1>9, <1>16, <1>17

(* ... and to a Responses client.                                          *)
LEMMA ResponsesAnswerKept ==
  ASSUME NEW a, ChatAnswer(a)
  PROVE  /\ Agree(ChatResponseToCanonical(a), a)
         /\ Truncated(ChatResponseToCanonical(a)) <=> a.finish = "length"
<1>3. PICK text \in Seq(STRING) : text = a.text
  BY DEF ChatAnswer
<1>4. PICK said \in Seq(SomePart) : /\ said = Optional("message", text)
                                    /\ \A i \in DOMAIN said : said[i].kind = "message"
                                    /\ \A K : "message" \in K => Joined(K, said) = text
  BY OptionalSays, NoLiteral
<1>5. PICK calls \in Seq(SomePart) : calls = a.calls
  BY DEF ChatAnswer
<1>18. PICK made : made = AsKind("function_call", calls)
  OBVIOUS
<1>6. /\ made \in Seq(SomePart) /\ made = AsKind("function_call", calls)
      /\ \A i \in DOMAIN made : made[i].kind = "function_call"
      /\ TextsIn(made) = TextsIn(calls)
  <2>1. "function_call" \in Literal
    BY NoLiteral
  <2> QED BY <1>18, <2>1, AsKindSays
<1>7. PICK status : status = FinishReasonToStatus(a.finish)
  OBVIOUS
<1>8. PICK outputs : outputs = said \o made
  OBVIOUS
<1>9. PICK reply : reply = ChatResponseToCanonical(a)
  OBVIOUS
<1>10. reply = Object(outputs, status)
  BY Zenon, <1>3, <1>4, <1>5, <1>6, <1>7, <1>8, <1>9 DEF ChatResponseToCanonical
<1>11. PICK e : e = <<>>
  OBVIOUS
<1>12. PICK K, L : K = {"message"} /\ L = {"function_call"}
  OBVIOUS
<1>14. Joined(K, outputs) = text
  <2>1. Joined(K, made) = e
    <3>1. "function_call" \notin K
      BY <1>12
    <3> QED BY <1>6, <1>11, <3>1, NoneOf
  <2>2. Joined(K, said) = text
    BY <1>4, <1>12
  <2>25. Joined(K, said \o made) = Joined(K, said) \o Joined(K, made)
    BY <1>4, <1>6, JoinedConcat
  <2>3. Joined(K, outputs) = text \o e
    BY Zenon, <2>25, <1>8, <2>1, <2>2
  <2>5. text \o e = text
    BY <1>11
  <2> QED BY <2>3, <2>5
<1>15. OfKind(L, outputs) = made
  <2>1. "message" \notin L /\ "function_call" \in L
    BY <1>12
  <2>2. OfKind(L, said) = e
    BY <1>4, <1>11, <2>1, NoneOf
  <2>4. OfKind(L, made) = made
    BY <1>6, <2>1, AllOf
  <2>26. OfKind(L, said \o made) = OfKind(L, said) \o OfKind(L, made)
    BY <1>4, <1>6, OfKindConcat
  <2>5. OfKind(L, outputs) = e \o made
    BY Zenon, <2>26, <1>8, <2>2, <2>4
  <2>7. e \o made = made
    BY <1>11
  <2> QED BY <2>5, <2>7
<1>13. reply.finish = status /\ AnswerWords(reply) = text /\ AnswerCalls(reply) = TextsIn(made)
  BY <1>10, <1>12, <1>14, <1>15, ObjectReads
<1>16. Agree(reply, a)
  <2>2. AnswerWords(a) = text /\ AnswerCalls(a) = TextsIn(calls)
    BY <1>3, <1>5, ChatAnswerReads
  <2> QED BY <1>6, <1>13, <2>2 DEF Agree
<1>17. Truncated(reply) <=> a.finish = "length"
  <2>2. /\ status \in {"incomplete:max_output_tokens", "incomplete:content_filter", "completed"}
        /\ status = "incomplete:max_output_tokens" <=> a.finish = "length"
    BY <1>7 DEF FinishReasonToStatus
  <2> QED BY <1>13, <2>2, TruncatedSays
<1> QED BY <1>9, <1>16, <1>17

(* An Anthropic message, told to a Chat client.                            *)
LEMMA ChatAnswerKept ==
  ASSUME NEW a, MessageAnswer(a, {"text", "thinking", "tool_use"})
  PROVE  /\ Agree(AnthropicResponseToChat(a), a)
         /\ Truncated(AnthropicResponseToChat(a)) <=> a.finish = "max_tokens"
<1>1. PICK parts \in Seq(SomePart) :
        /\ parts = a.parts
        /\ \A i \in DOMAIN parts : parts[i].kind \in {"text", "thinking", "tool_use"}
  BY DEF MessageAnswer
<1>2. AnswerWords(a) = WordsOf(parts) /\ AnswerCalls(a) = TextsIn(OfKind(CallKinds, parts))
  BY <1>1, MessageReads DEF MessageAnswer
<1>3. PICK calls \in Seq(SomePart) : calls = OfKind({"tool_use"}, parts)
  BY OfKindSays
<1>4. calls = OfKind(CallKinds, parts)
  <2>1. \A i \in DOMAIN parts : parts[i].kind \in {"tool_use"} <=> parts[i].kind \in CallKinds
    BY <1>1 DEF CallKinds
  <2> QED BY <1>3, <2>1, OfKindSame
<1>5. TextOf(parts) = WordsOf(parts)
  <2>1. \A i \in DOMAIN parts : parts[i].kind \in {"text"} <=> parts[i].kind \in WordKinds
    BY <1>1 DEF WordKinds
  <2>2. Joined({"text"}, parts) = Joined(WordKinds, parts)
    BY <2>1, JoinedSame
  <2> QED BY <2>2, WordsOfSays DEF TextOf
<1>6. PICK made : made = AsKind("tool_use", calls) /\ TextsIn(made) = TextsIn(calls)
  BY AsKindSays, NoLiteral
<1>7. PICK stop : stop = AnthropicStopToChatFinish(a.finish)
  OBVIOUS
<1>8. PICK reply : reply = AnthropicResponseToChat(a)
  OBVIOUS
<1>9. PICK e : e = <<>>
  OBVIOUS
<1>10. reply = Completion(WordsOf(parts), made, stop, e)
  BY Zenon, <1>1, <1>3, <1>5, <1>6, <1>7, <1>8, <1>9 DEF AnthropicResponseToChat
<1>11. /\ AnswerWords(reply) = WordsOf(parts) /\ AnswerCalls(reply) = TextsIn(made)
       /\ reply.finish = stop
  BY <1>10, CompletionReads
<1>12. Truncated(reply) <=> a.finish = "max_tokens"
  <2>1. stop \in {"length", "tool_calls", "stop"} /\ (stop = "length" <=> a.finish = "max_tokens")
    BY <1>7 DEF AnthropicStopToChatFinish
  <2> QED BY <1>11, <2>1, TruncatedSays
<1> QED BY <1>2, <1>4, <1>6, <1>8, <1>11, <1>12 DEF Agree

LEMMA NumberedSays ==
  ASSUME NEW calls \in Seq(SomePart), NEW places \in Seq(Nat), Len(places) = Len(calls)
  PROVE  /\ Numbered(calls, places) \in Seq(SomePart)
         /\ TextsIn(Numbered(calls, places)) = TextsIn(calls)
<1>1. PICK n \in Nat : /\ n = Len(calls) /\ DOMAIN calls = 1..n
                       /\ \A i \in 1..n : calls[i] \in SomePart /\ places[i] \in Nat
  OBVIOUS
<1>2. PICK a : a = Numbered(calls, places)
  OBVIOUS
<1>3. a = [i \in 1..n |-> [calls[i] EXCEPT !.kind = "tool_use", !.id = CallId(places[i])]]
  BY Zenon, <1>1, <1>2 DEF Numbered
<1>4. \A p \in SomePart : \A kind, id \in Literal :
         /\ [p EXCEPT !.kind = kind, !.id = id] \in SomePart
         /\ [p EXCEPT !.kind = kind, !.id = id].text = p.text
  BY DEF SomePart
<1>5. \A i \in 1..n : CallId(places[i]) \in Literal
  <2>1. ASSUME NEW m \in Nat PROVE CallId(m) \in Literal
    BY Zenon DEF Literal
  <2> QED BY <1>1, <2>1
<1>6. \A i \in 1..n : a[i] \in SomePart /\ a[i].text = calls[i].text
  <2>1. ASSUME NEW i \in 1..n
        PROVE  a[i] \in SomePart /\ a[i].text = calls[i].text
    <3>1. PICK p \in SomePart, id \in Literal, kind \in Literal :
            p = calls[i] /\ id = CallId(places[i]) /\ kind = "tool_use"
      <4>1. calls[i] \in SomePart /\ CallId(places[i]) \in Literal /\ "tool_use" \in Literal
        BY <1>1, <1>5, NoLiteral
      <4> QED BY Zenon, <4>1
    <3>2. a[i] = [p EXCEPT !.kind = kind, !.id = id]
      BY Zenon, <1>3, <3>1
    <3>3. /\ [p EXCEPT !.kind = kind, !.id = id] \in SomePart
          /\ [p EXCEPT !.kind = kind, !.id = id].text = p.text
      BY <1>4
    <3> QED BY <3>1, <3>2, <3>3
  <2> QED BY <2>1
<1>7. a \in [1..n -> SomePart] /\ DOMAIN a = 1..n
  BY <1>3, <1>6
<1>8. a \in Seq(SomePart)
  BY <1>7
<1>9. TextsIn(a) = TextsIn(calls)
  BY <1>1, <1>6, <1>7 DEF TextsIn
<1> QED BY <1>2, <1>8, <1>9

LEMMA NoTexts ==
  ASSUME NEW calls \in Seq(SomePart)
  PROVE  TextsIn(calls) = <<>> <=> calls = <<>>
<1>1. PICK n \in Nat : n = Len(calls) /\ DOMAIN calls = 1..n
  OBVIOUS
<1>2. PICK t : t = TextsIn(calls)
  OBVIOUS
<1>3. t = [i \in 1..n |-> calls[i].text]
  BY <1>1, <1>2 DEF TextsIn
<1>4. Len(t) = n
  BY <1>3
<1>5. t = <<>> <=> n = 0
  BY <1>3, <1>4
<1>6. calls = <<>> <=> n = 0
  BY <1>1
<1> QED BY <1>2, <1>5, <1>6

ChatFinishes == {"length", "content_filter", "tool_calls", "stop"}

(* What Gemini says, and what Ollama says, as a chat completion.           *)
LEMMA GeminiAnswerKept ==
  ASSUME NEW a, MessageAnswer(a, {"text", "functionCall"})
  PROVE  /\ ChatAnswer(GeminiResponseToChat(a))
         /\ Agree(GeminiResponseToChat(a), a)
         /\ GeminiResponseToChat(a).finish \in ChatFinishes
         /\ AnswerCalls(a) = <<>> =>
              (GeminiResponseToChat(a).finish = "length" <=> a.finish = "MAX_TOKENS")
<1>1. PICK parts \in Seq(SomePart) :
        parts = a.parts /\ \A i \in DOMAIN parts : parts[i].kind \in {"text", "functionCall"}
  BY DEF MessageAnswer
<1>2. AnswerWords(a) = WordsOf(parts) /\ AnswerCalls(a) = TextsIn(OfKind(CallKinds, parts))
  BY <1>1, MessageReads DEF MessageAnswer
<1>3. PICK n \in Nat : n = Len(parts) /\ DOMAIN parts = 1..n /\ \A i \in 1..n : parts[i] \in SomePart
  OBVIOUS
<1>4. PICK S : S = {i \in 1..n : parts[i].kind = "functionCall"}
  OBVIOUS
<1>23. PICK ids : ids = [i \in 1..n |-> i]
  OBVIOUS
<1>5. ids \in Seq(1..n) /\ ids = [i \in 1..n |-> i]
  <2>1. ids \in [1..n -> 1..n]
    BY <1>23
  <2> QED BY <1>23, <2>1
<1>6. PICK places \in Seq(1..n) : places = Keep(ids, S)
  BY <1>5, KeepSays
<1>7. PICK calls : calls = Mapped(places, parts)
  OBVIOUS
<1>8. PICK T : T = {p \in SomePart : p.kind \in CallKinds}
  OBVIOUS
<1>9. calls = OfKind(CallKinds, parts)
  <2>1. Maps(parts, 1..n, SomePart)
    BY <1>3 DEF Maps
  <2>2. Selects(parts, S, T, 1..n)
    BY <1>1, <1>3, <1>4, <1>8 DEF Selects, CallKinds
  <2>3. Mapped(Keep(ids, S), parts) = Keep(Mapped(ids, parts), T)
    BY <1>5, <2>1, <2>2, MappedKept
  <2>4. Mapped(ids, parts) = parts
    <3>1. DOMAIN ids = 1..n
      BY <1>5
    <3>2. Mapped(ids, parts) = [i \in 1..n |-> parts[ids[i]]]
      BY <3>1 DEF Mapped
    <3>3. [i \in 1..n |-> parts[ids[i]]] = [i \in 1..n |-> parts[i]]
      BY <1>5
    <3>4. parts = [i \in 1..n |-> parts[i]]
      BY <1>3
    <3> QED BY <3>2, <3>3, <3>4
  <2>5. OfKind(CallKinds, parts) = Keep(parts, T)
    BY <1>8, OfKindIs
  <2> QED BY <1>6, <1>7, <2>3, <2>4, <2>5
<1>10. calls \in Seq(SomePart) /\ Len(calls) = Len(places)
  <2>1. parts \in [1..n -> SomePart]
    BY <1>3
  <2>2. Mapped(places, parts) \in Seq(SomePart)
    BY <2>1, MappedSays
  <2>3. Len(Mapped(places, parts)) = Len(places)
    BY MappedLen
  <2> QED BY <1>7, <2>2, <2>3
<1>11. places \in Seq(Nat)
  OBVIOUS
<1>12. PICK made \in Seq(SomePart) : made = Numbered(calls, places) /\ TextsIn(made) = TextsIn(calls)
  BY <1>10, <1>11, NumberedSays
<1>13. PICK finish : finish = IF calls # <<>> THEN "tool_calls" ELSE GeminiFinishToChat(a.finish)
  OBVIOUS
<1>14. PICK text \in Seq(STRING) : text = WordsOf(parts)
  BY WordsOfSays
<1>15. TextOf(parts) = text
  <2>1. \A i \in DOMAIN parts : parts[i].kind \in {"text"} <=> parts[i].kind \in WordKinds
    BY <1>1 DEF WordKinds
  <2>2. Joined({"text"}, parts) = Joined(WordKinds, parts)
    BY <2>1, JoinedSame
  <2> QED BY <1>14, <2>2, WordsOfSays DEF TextOf
<1>16. PICK reply : reply = GeminiResponseToChat(a)
  OBVIOUS
<1>17. PICK e : e = <<>>
  OBVIOUS
<1>18. reply = Completion(text, made, finish, e)
  <2>1. calls = [k \in DOMAIN places |-> parts[places[k]]]
    BY <1>7 DEF Mapped
  <2>2. places = Keep([i \in DOMAIN parts |-> i], {i \in DOMAIN parts : parts[i].kind = "functionCall"})
    BY Zenon, <1>3, <1>4, <1>5, <1>6
  <2> QED BY Zenon, <1>1, <1>12, <1>13, <1>15, <1>16, <1>17, <2>1, <2>2 DEF GeminiResponseToChat
<1>19. /\ reply.text = text /\ reply.calls = made /\ reply.finish = finish /\ reply.reasoning = e
       /\ AnswerWords(reply) = text /\ AnswerCalls(reply) = TextsIn(made)
  BY <1>18, CompletionReads
<1>20. ChatAnswer(reply)
  <2>1. e \in Seq(STRING)
    BY <1>17
  <2> QED BY <1>12, <1>18, <1>19, <2>1 DEF ChatAnswer
<1>21. Agree(reply, a)
  BY <1>2, <1>9, <1>12, <1>14, <1>19 DEF Agree
<1>22. AnswerCalls(a) = <<>> => (finish = "length" <=> a.finish = "MAX_TOKENS")
  <2>1. AnswerCalls(a) = <<>> => calls = <<>>
    BY <1>2, <1>9, <1>10, NoTexts
  <2>2. GeminiFinishToChat(a.finish) = "length" <=> a.finish = "MAX_TOKENS"
    BY DEF GeminiFinishToChat
  <2> QED BY <1>13, <2>1, <2>2
<1>24. finish \in ChatFinishes
  BY <1>13 DEF GeminiFinishToChat, ChatFinishes
<1> QED BY <1>16, <1>19, <1>20, <1>21, <1>22, <1>24

LEMMA OllamaAnswerKept ==
  ASSUME NEW a, ChatAnswer(a)
  PROVE  /\ ChatAnswer(OllamaResponseToChat(a))
         /\ Agree(OllamaResponseToChat(a), a)
         /\ OllamaResponseToChat(a).finish \in ChatFinishes
         /\ AnswerCalls(a) = <<>> =>
              (OllamaResponseToChat(a).finish = "length" <=> a.finish = "length")
<1>1. PICK text \in Seq(STRING) : text = a.text
  BY DEF ChatAnswer
<1>2. PICK calls \in Seq(SomePart) : calls = a.calls
  BY DEF ChatAnswer
<1>3. PICK n \in Nat : n = Len(calls) /\ DOMAIN calls = 1..n
  OBVIOUS
<1>15. PICK places : places = [k \in 1..n |-> k]
  OBVIOUS
<1>4. places \in Seq(Nat) /\ Len(places) = n /\ places = [k \in 1..n |-> k]
  <2>1. places \in [1..n -> Nat]
    BY <1>15
  <2> QED BY <1>15, <2>1
<1>5. PICK made \in Seq(SomePart) : made = Numbered(calls, places) /\ TextsIn(made) = TextsIn(calls)
  BY <1>3, <1>4, NumberedSays
<1>6. PICK finish : finish = IF calls # <<>> THEN "tool_calls" ELSE OllamaFinishToChat(a.finish)
  OBVIOUS
<1>7. PICK reply : reply = OllamaResponseToChat(a)
  OBVIOUS
<1>8. PICK e : e = <<>>
  OBVIOUS
<1>9. reply = Completion(text, made, finish, e)
  BY Zenon, <1>1, <1>2, <1>3, <1>4, <1>5, <1>6, <1>7, <1>8 DEF OllamaResponseToChat
<1>10. /\ reply.text = text /\ reply.calls = made /\ reply.finish = finish /\ reply.reasoning = e
       /\ AnswerWords(reply) = text /\ AnswerCalls(reply) = TextsIn(made)
  BY <1>9, CompletionReads
<1>11. ChatAnswer(reply)
  <2>1. e \in Seq(STRING)
    BY <1>8
  <2> QED BY <1>5, <1>9, <1>10, <2>1 DEF ChatAnswer
<1>12. AnswerWords(a) = text /\ AnswerCalls(a) = TextsIn(calls)
  BY <1>1, <1>2, ChatAnswerReads
<1>13. Agree(reply, a)
  BY <1>5, <1>10, <1>12 DEF Agree
<1>14. AnswerCalls(a) = <<>> => (finish = "length" <=> a.finish = "length")
  <2>1. AnswerCalls(a) = <<>> => calls = <<>>
    BY <1>12, NoTexts
  <2>2. OllamaFinishToChat(a.finish) = "length" <=> a.finish = "length"
    BY DEF OllamaFinishToChat
  <2> QED BY <1>6, <2>1, <2>2
<1>16. finish \in ChatFinishes
  BY <1>6 DEF OllamaFinishToChat, ChatFinishes
<1> QED BY <1>7, <1>10, <1>11, <1>13, <1>14, <1>16

(* The answers of the vocabularies.                                        *)
LEMMA ChatAnswers ==
  ASSUME NEW a \in [text : Seq(STRING), calls : PartsOf({"tool_use"}), finish : STRING,
                    reasoning : Seq(STRING)]
  PROVE  ChatAnswer(a)
<1>1. /\ a = [text |-> a.text, calls |-> a.calls, finish |-> a.finish,
              reasoning |-> a.reasoning]
      /\ a.text \in Seq(STRING) /\ a.reasoning \in Seq(STRING)
      /\ a.calls \in PartsOf({"tool_use"})
  OBVIOUS
<1>2. PICK K \in SUBSET Literal : K = {"tool_use"}
  BY NoLiteral
<1>3. a.calls \in Seq(SomePart)
  BY <1>1, <1>2, PartsAreParts
<1> QED BY <1>1, <1>3 DEF ChatAnswer, Completion

LEMMA MessageAnswers ==
  ASSUME NEW K \in SUBSET Literal, NEW a \in [parts : PartsOf(K), finish : STRING]
  PROVE  MessageAnswer(a, K)
<1>1. a = [parts |-> a.parts, finish |-> a.finish] /\ a.parts \in PartsOf(K)
  OBVIOUS
<1>2. a.parts \in Seq(SomePart) /\ \A i \in DOMAIN a.parts : a.parts[i].kind \in K
  BY <1>1, PartsAreParts
<1> QED BY <1>1, <1>2 DEF MessageAnswer, Message

(* What a provider answers in, whatever it was asked in.                   *)
LEMMA AnswersSay ==
  ASSUME NEW surface \in {"messages", "chat", "responses"}, NEW p,
         NEW a \in UpstreamAnswers[AnswerProtocol(surface, p)]
  PROVE  CASE p = "anthropic" ->
                /\ MessageAnswer(a, {"text", "thinking", "tool_use"})
                /\ Truncated(a) => a.finish = "max_tokens"
           [] p = "google" ->
                /\ MessageAnswer(a, {"text", "functionCall"})
                /\ Truncated(a) => a.finish = "MAX_TOKENS"
           [] OTHER ->
                \/ surface = "responses" /\ p = "openai"
                \/ ChatAnswer(a) /\ (Truncated(a) => a.finish = "length")
<1>1. \A x : (CHOOSE y \in {x} : TRUE) = x
  OBVIOUS
<1>2. PICK protocol \in Protocols : protocol = AnswerProtocol(surface, p)
  BY AnswerProtocolKnown
<1>3. a \in AnswersIn(protocol) /\ (Truncated(a) => a.finish = CutShort[protocol])
  BY <1>2, AnswerAssumption
<1>4. CASE p = "anthropic"
  <2>1. protocol = "anthropic"
    BY <1>1, <1>2, <1>4 DEF AnswerProtocol, ProtocolTo, UpstreamProtocols
  <2>2. PICK K \in SUBSET Literal : K = {"text", "thinking", "tool_use"}
    BY NoLiteral
  <2>3. a \in [parts : PartsOf(K), finish : STRING]
    BY <1>3, <2>1, <2>2 DEF AnswersIn
  <2>4. MessageAnswer(a, K)
    BY <2>3, MessageAnswers
  <2>5. CutShort[protocol] = "max_tokens"
    BY <2>1 DEF CutShort
  <2> QED BY <1>3, <1>4, <2>2, <2>4, <2>5
<1>5. CASE p = "google"
  <2>1. protocol = "gemini"
    BY <1>1, <1>2, <1>5 DEF AnswerProtocol, ProtocolTo, UpstreamProtocols
  <2>2. PICK K \in SUBSET Literal : K = {"text", "functionCall"}
    BY DEF Literal
  <2>3. a \in [parts : PartsOf(K), finish : STRING]
    BY <1>3, <2>1, <2>2 DEF AnswersIn
  <2>4. MessageAnswer(a, K)
    BY <2>3, MessageAnswers
  <2>5. CutShort[protocol] = "MAX_TOKENS"
    BY <2>1 DEF CutShort
  <2> QED BY <1>3, <1>5, <2>2, <2>4, <2>5
<1>6. CASE p \notin {"anthropic", "google"} /\ ~ (surface = "responses" /\ p = "openai")
  <2>1. protocol \in {"ollama", "openai_chat"}
    BY <1>1, <1>2, <1>6 DEF AnswerProtocol, ProtocolTo, UpstreamProtocols
  <2>2. a \in [text : Seq(STRING), calls : PartsOf({"tool_use"}), finish : STRING,
               reasoning : Seq(STRING)]
    BY <1>3, <2>1 DEF AnswersIn
  <2>3. ChatAnswer(a)
    BY <2>2, ChatAnswers
  <2>5. CutShort[protocol] = "length"
    BY <2>1 DEF CutShort
  <2> QED BY <1>3, <1>6, <2>3, <2>5
<1> QED BY <1>4, <1>5, <1>6

LEMMA TruncatedAlike ==
  ASSUME NEW a, NEW reply, Truncated(reply) <=> Truncated(a)
  PROVE  Truncated(reply) = Truncated(a)
<1>1. CASE Truncated(a)
  <2>1. Truncated(a) = TRUE
    BY <1>1 DEF Truncated
  <2>2. Truncated(reply) = TRUE
    BY <1>1 DEF Truncated
  <2> QED BY <2>1, <2>2
<1>2. CASE ~ Truncated(a)
  <2>1. Truncated(a) = FALSE
    BY <1>2 DEF Truncated
  <2>2. Truncated(reply) = FALSE
    BY <1>2 DEF Truncated
  <2> QED BY <2>1, <2>2
<1> QED BY <1>1, <1>2

(* A route whose answer can be read.                                       *)
Readable(surface, p, asked) ==
  /\ ~ (surface = "responses" /\ p = "anthropic")
  /\ ~ (p \in {"google", "ollama"} /\ asked)

Faithful(reply, a, surface, p) ==
  /\ AnswerWords(reply) = AnswerWords(a)
  /\ AnswerCalls(reply) = AsTold(AnswerCalls(a), surface, p)
  /\ \/ p \in {"google", "ollama"} /\ AnswerCalls(a) # <<>>
     \/ Truncated(reply) = Truncated(a)

LEMMA RenderedAnswer ==
  ASSUME NEW surface \in {"messages", "chat", "responses"}, NEW p,
         NEW a \in UpstreamAnswers[AnswerProtocol(surface, p)], NEW asked \in BOOLEAN,
         Readable(surface, p, asked)
  PROVE  Faithful(Render(surface, p, ParseResponse(a, p, asked)), a, surface, p)
<1>1. PICK parsed : parsed = ParseResponse(a, p, asked)
  OBVIOUS
<1>2. PICK reply : reply = Render(surface, p, parsed)
  OBVIOUS
<1>3. CASE p = "anthropic"
  <2>1. parsed = a /\ surface # "responses"
    BY <1>1, <1>3 DEF ParseResponse, Readable
  <2>2. CASE surface = "messages"
    <3>1. reply = a
      BY <1>2, <1>3, <2>1, <2>2 DEF Render
    <3> QED BY <1>1, <1>2, <1>3, <3>1 DEF Faithful, AsTold
  <2>3. CASE surface = "chat"
    <3>1. reply = AnthropicResponseToChat(a)
      BY <1>2, <1>3, <2>1, <2>3 DEF Render
    <3>2. /\ MessageAnswer(a, {"text", "thinking", "tool_use"})
          /\ Truncated(a) => a.finish = "max_tokens"
      BY <1>3, AnswersSay
    <3>3. Agree(reply, a) /\ (Truncated(reply) <=> a.finish = "max_tokens")
      BY <3>1, <3>2, ChatAnswerKept
    <3>4. a.finish = "max_tokens" => Truncated(a)
      BY TruncatedSays
    <3>5. Truncated(reply) = Truncated(a)
      BY <3>2, <3>3, <3>4, TruncatedAlike
    <3> QED BY <1>1, <1>2, <1>3, <3>3, <3>5 DEF Faithful, AsTold, Agree
  <2> QED BY <2>1, <2>2, <2>3
<1>4. CASE surface = "responses" /\ p = "openai"
  <2>1. parsed = a /\ reply = parsed
    BY <1>1, <1>2, <1>4 DEF ParseResponse, Render
  <2> QED BY <1>1, <1>2, <1>4, <2>1 DEF Faithful, AsTold
<1>5. ASSUME p # "anthropic", ~ (surface = "responses" /\ p = "openai")
      PROVE  /\ ChatAnswer(parsed) /\ Agree(parsed, a)
             /\ \/ p \in {"google", "ollama"} /\ AnswerCalls(a) # <<>>
                \/ (parsed.finish = "length" <=> Truncated(a))
             /\ p \in {"google", "ollama"} => parsed.finish \in ChatFinishes
             /\ p \notin {"google", "ollama"} => parsed = a
  <2>1. CASE p = "google"
    <3>1. parsed = GeminiResponseToChat(a)
      BY <1>1, <2>1 DEF ParseResponse, Readable
    <3>2. /\ MessageAnswer(a, {"text", "functionCall"})
          /\ Truncated(a) => a.finish = "MAX_TOKENS"
      BY <2>1, AnswersSay
    <3>3. /\ ChatAnswer(parsed) /\ Agree(parsed, a) /\ parsed.finish \in ChatFinishes
          /\ AnswerCalls(a) = <<>> => (parsed.finish = "length" <=> a.finish = "MAX_TOKENS")
      BY <3>1, <3>2, GeminiAnswerKept
    <3>4. a.finish = "MAX_TOKENS" => Truncated(a)
      BY TruncatedSays
    <3> QED BY <2>1, <3>2, <3>3, <3>4
  <2>2. CASE p = "ollama"
    <3>1. parsed = OllamaResponseToChat(a)
      BY <1>1, <2>2 DEF ParseResponse, Readable
    <3>2. ChatAnswer(a) /\ (Truncated(a) => a.finish = "length")
      BY <2>2, AnswersSay
    <3>3. /\ ChatAnswer(parsed) /\ Agree(parsed, a) /\ parsed.finish \in ChatFinishes
          /\ AnswerCalls(a) = <<>> => (parsed.finish = "length" <=> a.finish = "length")
      BY <3>1, <3>2, OllamaAnswerKept
    <3>4. a.finish = "length" => Truncated(a)
      BY TruncatedSays
    <3> QED BY <2>2, <3>2, <3>3, <3>4
  <2>3. CASE p \notin {"google", "ollama"}
    <3>1. parsed = a
      BY <1>1, <2>3 DEF ParseResponse
    <3>2. ChatAnswer(a) /\ (Truncated(a) => a.finish = "length")
      BY <1>5, <2>3, AnswersSay
    <3>4. a.finish = "length" => Truncated(a)
      BY TruncatedSays
    <3> QED BY <2>3, <3>1, <3>2, <3>4 DEF Agree
  <2> QED BY <2>1, <2>2, <2>3
<1>6. CASE p # "anthropic" /\ ~ (surface = "responses" /\ p = "openai")
  <2>1. /\ AnswerWords(reply) = AnswerWords(parsed)
        /\ AnswerCalls(reply) = AsTold(AnswerCalls(parsed), surface, p)
        /\ Truncated(reply) <=> parsed.finish = "length"
    <3>1. CASE surface = "messages"
      <4>1. reply = OpenAIResponseToAnthropic(parsed, p)
        BY <1>2, <1>6, <3>1 DEF Render
      <4>2. AsTold(AnswerCalls(parsed), surface, p) = Valued(AnswerCalls(parsed))
        BY <1>6, <3>1 DEF AsTold, Valued
      <4> QED BY <1>5, <1>6, <4>1, <4>2, MessagesAnswerKept
    <3>2. CASE surface = "responses"
      <4>1. reply = ChatResponseToCanonical(parsed)
        BY <1>2, <1>6, <3>2 DEF Render
      <4>2. AsTold(AnswerCalls(parsed), surface, p) = AnswerCalls(parsed)
        BY <3>2 DEF AsTold
      <4> QED BY <1>5, <1>6, <4>1, <4>2, ResponsesAnswerKept DEF Agree
    <3>3. CASE surface = "chat"
      <4>1. reply = parsed
        BY <1>2, <1>6, <3>3 DEF Render
      <4>2. p \in {"google", "ollama"} => parsed.finish \in ChatFinishes
        BY <1>5, <1>6
      <4>3. p \notin {"google", "ollama"} => (Truncated(a) => a.finish = "length") /\ parsed = a
        BY <1>5, <1>6, <3>3, AnswersSay
      <4>4. Truncated(parsed) <=> parsed.finish = "length"
        BY <4>2, <4>3, TruncatedSays DEF ChatFinishes
      <4>5. AsTold(AnswerCalls(parsed), surface, p) = AnswerCalls(parsed)
        BY <3>3 DEF AsTold
      <4> QED BY <4>1, <4>4, <4>5
    <3> QED BY <3>1, <3>2, <3>3
  <2>2. /\ AnswerWords(reply) = AnswerWords(a)
        /\ AnswerCalls(reply) = AsTold(AnswerCalls(a), surface, p)
    BY <1>5, <1>6, <2>1 DEF Agree
  <2>3. \/ p \in {"google", "ollama"} /\ AnswerCalls(a) # <<>>
        \/ (Truncated(reply) <=> Truncated(a))
    BY <1>5, <1>6, <2>1
  <2>4. (Truncated(reply) <=> Truncated(a)) => Truncated(reply) = Truncated(a)
    BY TruncatedAlike
  <2> QED BY <1>1, <1>2, <2>2, <2>3, <2>4 DEF Faithful
<1> QED BY <1>3, <1>4, <1>6

------------------------------------------------------------------------------
(* What a handler carries from the request to the upstream and back        *)

(* The client's body, but for the tools.                                   *)
ClientsBody(b, q) == \E tools : b = [q.body EXCEPT !.tools = tools]

(* What an upstream was sent: that body, translated.                       *)
Relays(x, q) ==
  /\ Parsed(q)
  /\ q.surface = "count_tokens" => x.hop.provider = "anthropic"
  /\ \E b : ClientsBody(b, q) /\ x.body = WireBody(q.surface, b, x.hop.provider)

ToldBy(reply, a, surface, b, p) ==
  Readable(surface, p, Asked(surface, b, p)) => Faithful(reply, a, surface, p)

Carries(s, q) ==
  /\ ClientsBody(s.body, q)
  /\ s.pc \in {"new", "waiting"} => s.upstream = NoAnswer /\ s.reply = NoAnswer
  /\ s.upstream # NoAnswer /\ s.reply # NoAnswer =>
       ToldBy(s.reply, s.upstream, q.surface, s.body, s.hops[1].provider)
  /\ \A i \in DOMAIN s.sent : Relays(s.sent[i], q)

(* A handler that has no answer yet.                                       *)
Unanswered(s, q) ==
  /\ IsRequest(s) /\ s.upstream = NoAnswer /\ ClientsBody(s.body, q)
  /\ s.pc # "done" => s.reply = NoAnswer
  /\ \A i \in DOMAIN s.sent : Relays(s.sent[i], q)

LEMMA UnansweredCarries ==
  ASSUME NEW s, NEW q, Unanswered(s, q)
  PROVE  Carries(s, q)
BY DEF Unanswered, Carries

LEMMA IdleUnanswered ==
  ASSUME NEW q, BodyOk(q), NEW s, IsRequest(s), s.upstream = NoAnswer, s.reply = NoAnswer,
         s.body = q.body, s.sent = <<>>
  PROVE  Unanswered(s, q)
<1>1. DOMAIN s.sent = {}
  OBVIOUS
<1>2. ClientsBody(q.body, q)
  <2>1. PICK b, tools : b = q.body /\ tools = b.tools
    OBVIOUS
  <2>2. HasFields(b)
    BY <2>1 DEF BodyOk
  <2>3. b = [b EXCEPT !.tools = tools]
    BY <2>1, <2>2 DEF HasFields, Blank
  <2> QED BY Zenon, <2>1, <2>3 DEF ClientsBody
<1> QED BY <1>1, <1>2 DEF Unanswered

LEMMA EndedUnanswered ==
  ASSUME NEW q, NEW s, Unanswered(s, q), NEW status, NEW es
  PROVE  Unanswered(Ended(s, status, es), q)
<1>1. PICK t : t = Ended(s, status, es)
  OBVIOUS
<1>2. IsRequest(s)
  BY DEF Unanswered
<1>3. IsRequest(t) /\ t.pc = "done" /\ t.upstream = s.upstream /\ t.sent = s.sent
  BY <1>1, <1>2, EndedRequest
<1>4. t.body = s.body
  BY <1>1, <1>2 DEF Ended, RequestFields, IsRequest
<1> QED BY <1>1, <1>3, <1>4 DEF Unanswered

LEMMA DispatchUnanswered ==
  ASSUME NEW q, Parsed(q), NEW s, Unanswered(s, q), s.pc # "done", NEW hops,
         q.surface = "count_tokens" => hops[1].provider = "anthropic"
  PROVE  Unanswered(Dispatch(s, q.surface, hops), q)
<1>1. PICK surface : surface = q.surface
  OBVIOUS
<1>2. PICK t : t = Dispatch(s, surface, hops)
  OBVIOUS
<1>3. PICK hop : hop = hops[1]
  OBVIOUS
<1>4. PICK u : u = s.sent
  OBVIOUS
<1>5. IsRequest(s) /\ s.upstream = NoAnswer /\ s.reply = NoAnswer /\ ClientsBody(s.body, q)
  BY DEF Unanswered
<1>6. u \in Seq({u[i] : i \in DOMAIN u}) /\ \A i \in DOMAIN u : Relays(u[i], q)
  BY <1>4 DEF Unanswered, IsRequest
<1>7. CASE hop.provider \in Registered
  <2>1. PICK b : b = s.body
    OBVIOUS
  <2>2. PICK w : w = WireBody(surface, b, hop.provider)
    OBVIOUS
  <2>3. PICK x : x = [hop |-> hop, body |-> w]
    OBVIOUS
  <2>4. x.hop = hop /\ x.body = w
    BY <2>3
  <2>5. Relays(x, q)
    BY Zenon, <1>1, <1>3, <1>5, <2>1, <2>2, <2>4 DEF Relays
  <2>6. PICK v : v = Append(u, x)
    OBVIOUS
  <2>7. t = [s EXCEPT !.pc = "waiting", !.hops = hops, !.sent = v]
    BY Zenon, <1>2, <1>3, <1>4, <1>7, <2>1, <2>2, <2>3, <2>6 DEF Dispatch
  <2>8. /\ t = [f \in RequestFields |-> t[f]] /\ t.sent = v /\ t.body = b
        /\ t.upstream = s.upstream /\ t.reply = s.reply
    BY <1>5, <2>1, <2>7 DEF IsRequest, RequestFields
  <2>9. PICK S : S = {u[i] : i \in DOMAIN u} \cup {x}
    OBVIOUS
  <2>10. u \in Seq(S) /\ x \in S
    BY <1>6, <2>9
  <2>11. /\ DOMAIN v = 1..(Len(u) + 1) /\ DOMAIN u = 1..Len(u)
         /\ \A i \in 1..Len(u) : v[i] = u[i]
         /\ v[Len(u) + 1] = x /\ Len(u) \in Nat
    BY <2>6, <2>10
  <2>12. \A i \in DOMAIN v : Relays(v[i], q)
    <3> TAKE i \in DOMAIN v
    <3>1. CASE i = Len(u) + 1
      BY <2>5, <2>11, <3>1
    <3>2. CASE i # Len(u) + 1
      <4>1. i \in 1..Len(u)
        BY <2>11, <3>2
      <4> QED BY <1>6, <2>11, <4>1
    <3> QED BY <3>1, <3>2
  <2>13. v \in Seq({v[i] : i \in DOMAIN v})
    BY <1>6, <2>6, AppendedSequence
  <2>14. IsRequest(t)
    BY <2>8, <2>13 DEF IsRequest
  <2> QED BY <1>1, <1>2, <1>5, <2>1, <2>8, <2>12, <2>14 DEF Unanswered
<1>8. CASE hop.provider \notin Registered
  <2>1. PICK h : h = [s EXCEPT !.hops = hops]
    OBVIOUS
  <2>2. PICK status, es : t = Ended(h, status, es)
    BY <1>2, <1>3, <1>8, <2>1 DEF Dispatch
  <2>3. /\ h = [f \in RequestFields |-> h[f]] /\ h.sent = s.sent
        /\ h.body = s.body /\ h.upstream = s.upstream /\ h.reply = s.reply
    BY <1>5, <2>1 DEF RequestFields, IsRequest
  <2>4. IsRequest(h)
    BY <1>5, <2>3, SameAttempts
  <2>5. Unanswered(h, q)
    BY <1>4, <1>5, <1>6, <2>3, <2>4 DEF Unanswered
  <2>6. Unanswered(Ended(h, status, es), q)
    BY <2>5, EndedUnanswered
  <2> QED BY <1>1, <1>2, <2>2, <2>6
<1> QED BY <1>7, <1>8

LEMMA DecidedUnanswered ==
  ASSUME NEW q, Parsed(q), BodyOk(q), NEW s, Unanswered(s, q), NEW hops, NEW decided,
         s.body = q.body, s.pc # "done",
         q.surface = "count_tokens" => hops[1].provider = "anthropic"
  PROVE  Unanswered(Decided(s, q, hops, decided), q)
<1>1. PICK t : t = Decided(s, q, hops, decided)
  OBVIOUS
<1>2. PICK b : b = s.body
  OBVIOUS
<1>3. PICK c : c = [b EXCEPT !.tools = decided.tools]
  OBVIOUS
<1>4. PICK h : h = [s EXCEPT !.body = c]
  OBVIOUS
<1>5. \/ \E status, es : t = Ended(s, status, es)
      \/ \E g \in {s, h} : t = Dispatch(g, q.surface, hops)
  <2>1. [s EXCEPT !.body.tools = decided.tools] = h
    BY <1>2, <1>3, <1>4
  <2> QED BY <1>1, <2>1 DEF Decided
<1>6. /\ IsRequest(s) /\ s.upstream = NoAnswer /\ s.reply = NoAnswer
      /\ \A i \in DOMAIN s.sent : Relays(s.sent[i], q)
  BY DEF Unanswered
<1>7. /\ h = [f \in RequestFields |-> h[f]] /\ h.sent = s.sent
      /\ h.body = c /\ h.upstream = s.upstream /\ h.reply = s.reply /\ h.pc = s.pc
  BY <1>4, <1>6 DEF RequestFields, IsRequest
<1>8. Unanswered(h, q)
  <2>1. IsRequest(h)
    BY <1>6, <1>7, SameAttempts
  <2>2. ClientsBody(c, q)
    BY Zenon, <1>2, <1>3 DEF ClientsBody
  <2> QED BY <1>6, <1>7, <2>1, <2>2 DEF Unanswered
<1>9. CASE \E status, es : t = Ended(s, status, es)
  <2>1. PICK status, es : t = Ended(s, status, es)
    BY <1>9
  <2> QED BY <1>1, <2>1, EndedUnanswered
<1>10. CASE \E g \in {s, h} : t = Dispatch(g, q.surface, hops)
  <2>1. PICK g \in {s, h} : t = Dispatch(g, q.surface, hops)
    BY <1>10
  <2>2. Unanswered(g, q) /\ g.pc # "done"
    BY <1>7, <1>8, <2>1
  <2> QED BY <1>1, <2>1, <2>2, DispatchUnanswered
<1> QED BY <1>5, <1>9, <1>10

LEMMA StartUnanswered ==
  ASSUME NEW q, BodyOk(q), NEW decision, NEW blocked \in BOOLEAN, NEW spent \in BOOLEAN,
         q.surface = "count_tokens" /\ decision # Unresolved =>
           decision.primary.provider = "anthropic"
  PROVE  Unanswered(Start(q, decision, blocked, spent), q)
<1>1. PICK t : t = Start(q, decision, blocked, spent)
  OBVIOUS
<1>2. PICK decided : decided = ToolsOf(q)
  OBVIOUS
<1>3. CASE ~ Parsed(q) \/ decision = Unresolved
  <2>1. PICK b, s : b = q.body /\ s = Idle(b)
    OBVIOUS
  <2>2. IsRequest(s) /\ s.sent = <<>> /\ s.upstream = NoAnswer
    BY <2>1, IdleRequest
  <2>3. s.body = b /\ s.reply = NoAnswer
    BY <2>1 DEF Idle
  <2>4. Unanswered(s, q)
    BY <2>1, <2>2, <2>3, IdleUnanswered
  <2>5. PICK status, es : t = Ended(s, status, es)
    BY <1>1, <1>3, <2>1 DEF Start
  <2> QED BY <1>1, <2>4, <2>5, EndedUnanswered
<1>4. CASE ~ (~ Parsed(q) \/ decision = Unresolved) /\ q.surface = "messages"
  <2>1. PICK hops : hops = <<Downgraded(decision, spent)>> \o decision.fallbacks
    OBVIOUS
  <2>2. PICK key : key = CacheKey(q)
    OBVIOUS
  <2>3. PICK s : s = [Idle(q.body) EXCEPT !.reason = decision.reason, !.key = key,
                                          !.hops = hops]
    OBVIOUS
  <2>4. t = StartMessages(q, decision, blocked, spent)
    BY <1>1, <1>4 DEF Start
  <2>5. /\ s = [f \in RequestFields |-> s[f]] /\ s.sent = <<>> /\ s.body = q.body
        /\ s.upstream = NoAnswer /\ s.reply = NoAnswer /\ s.pc # "done"
    BY <2>3 DEF Idle, RequestFields
  <2>6. IsRequest(s)
    BY <2>5, NothingSent
  <2>7. Unanswered(s, q)
    BY <2>5, <2>6, IdleUnanswered
  <2>8. CASE CacheHit(table, key, now)
    <3>1. PICK h, answer, status, es :
            /\ h = Ended(s, status, es)
            /\ t = [h EXCEPT !.reply = answer]
      BY <2>1, <2>2, <2>3, <2>4, <2>8 DEF StartMessages
    <3>2. Unanswered(h, q)
      BY <2>7, <3>1, EndedUnanswered
    <3>3. IsRequest(h) /\ h.pc = "done"
      BY <2>6, <3>1, <3>2, EndedRequest DEF Unanswered
    <3>4. /\ t = [f \in RequestFields |-> t[f]] /\ t.sent = h.sent /\ t.body = h.body
          /\ t.upstream = h.upstream /\ t.pc = h.pc
      BY <3>1, <3>3 DEF IsRequest, RequestFields
    <3>5. IsRequest(t)
      BY <3>3, <3>4, SameAttempts
    <3> QED BY <1>1, <3>2, <3>3, <3>4, <3>5 DEF Unanswered
  <2>9. CASE ~ CacheHit(table, key, now) /\ blocked
    <3>1. PICK status, es : t = Ended(s, status, es)
      BY <2>1, <2>2, <2>3, <2>4, <2>9 DEF StartMessages
    <3> QED BY <1>1, <2>7, <3>1, EndedUnanswered
  <2>10. CASE ~ CacheHit(table, key, now) /\ ~ blocked
    <3>1. t = Authorized(s, q, hops)
      BY <2>1, <2>2, <2>3, <2>4, <2>10 DEF StartMessages
    <3>2. t = Decided(s, q, hops, decided)
      BY <1>2, <3>1 DEF Authorized
    <3>3. Parsed(q) /\ q.surface # "count_tokens"
      BY <1>4
    <3> QED BY <1>1, <2>5, <2>7, <3>2, <3>3, DecidedUnanswered
  <2> QED BY <2>8, <2>9, <2>10
<1>5. CASE ~ (~ Parsed(q) \/ decision = Unresolved) /\ q.surface # "messages"
  <2>1. PICK hops : hops = <<decision.primary>>
    OBVIOUS
  <2>2. PICK s : s = [Idle(q.body) EXCEPT !.reason = decision.reason, !.hops = hops]
    OBVIOUS
  <2>3. t = Authorized(s, q, hops)
    BY <1>1, <1>5, <2>1, <2>2 DEF Start
  <2>4. /\ s = [f \in RequestFields |-> s[f]] /\ s.sent = <<>> /\ s.body = q.body
        /\ s.upstream = NoAnswer /\ s.reply = NoAnswer /\ s.pc # "done"
    BY <2>2 DEF Idle, RequestFields
  <2>5. IsRequest(s)
    BY <2>4, NothingSent
  <2>6. Unanswered(s, q)
    BY <2>4, <2>5, IdleUnanswered
  <2>7. t = Decided(s, q, hops, decided)
    BY <1>2, <2>3 DEF Authorized
  <2>8. Parsed(q) /\ (q.surface = "count_tokens" => hops[1].provider = "anthropic")
    BY <1>5, <2>1
  <2> QED BY <1>1, <2>4, <2>6, <2>7, <2>8, DecidedUnanswered
<1> QED BY <1>3, <1>4, <1>5

LEMMA CountedPlan ==
  ASSUME NEW q, q.surface = "count_tokens", Plan(q) # Unresolved
  PROVE  Plan(q).primary.provider = "anthropic"
<1>1. PICK c : c = ResolveModel(q.name, config.overrides)
  OBVIOUS
<1>2. Plan(q) = IF c.provider = "anthropic"
                THEN [primary |-> c, fallbacks |-> <<>>, reason |-> "none",
                      neverDowngrade |-> FALSE]
                ELSE Unresolved
  BY <1>1 DEF Plan
<1>3. c.provider = "anthropic"
  BY <1>2
<1>4. Plan(q).primary = c
  BY <1>2, <1>3
<1> QED BY <1>3, <1>4

Surfaces == {"messages", "chat", "responses", "count_tokens"}

CarryInv ==
  /\ \A r \in DOMAIN inbox :
       inbox[r].surface \in Surfaces /\ Conversation(inbox[r].surface, inbox[r].body)
  /\ \A r \in DOMAIN inbox : Carries(req[r], inbox[r])

LEMMA CarryInit == Init => CarryInv
<1> SUFFICES ASSUME Init PROVE CarryInv
  OBVIOUS
<1>1. ASSUME NEW r \in DOMAIN inbox
      PROVE  /\ inbox[r].surface \in Surfaces
             /\ Conversation(inbox[r].surface, inbox[r].body) /\ BodyOk(inbox[r])
  <2>1. PICK sc \in Scenarios : inbox = sc.inbox
    BY DEF Init
  <2>2. PICK q : q = sc.inbox[r] /\ q = inbox[r]
    BY <2>1
  <2>3. q.surface \in Surfaces /\ Conversation(q.surface, q.body)
    BY <2>1, <2>2, ConversationAssumption DEF Surfaces
  <2>4. BodyOk(q)
    BY Zenon, <2>1, <2>2, ScenarioAssumption DEF BodyOk, HasFields
  <2> QED BY <2>2, <2>3, <2>4
<1>2. ASSUME NEW r \in DOMAIN inbox
      PROVE  Carries(req[r], inbox[r])
  <2>1. PICK b, q : b = inbox[r].body /\ q = inbox[r]
    OBVIOUS
  <2>2. PICK s : s = req[r] /\ s = Idle(b)
    BY <2>1 DEF Init
  <2>3. IsRequest(s) /\ s.sent = <<>> /\ s.upstream = NoAnswer
    BY <2>2, IdleRequest
  <2>4. s.body = b /\ s.reply = NoAnswer
    BY <2>2 DEF Idle
  <2>5. Unanswered(s, q)
    BY <1>1, <2>1, <2>3, <2>4, IdleUnanswered
  <2> QED BY <2>1, <2>2, <2>5, UnansweredCarries
<1> QED BY <1>1, <1>2 DEF CarryInv

LEMMA CarryKept ==
  ASSUME IInv, CarryInv, NEW r \in DOMAIN inbox, NEW t, req' = [req EXCEPT ![r] = t],
         inbox' = inbox, Carries(t, inbox[r])
  PROVE  CarryInv'
<1>1. \A o \in DOMAIN inbox : req'[o] = IF o = r THEN t ELSE req[o]
  BY DEF IInv, RequestsInv
<1>2. \A o \in DOMAIN inbox : Carries(req'[o], inbox[o])
  BY <1>1 DEF CarryInv
<1> QED BY <1>2 DEF CarryInv

(* A handler that waits, or relays a stream, as far as it is known.        *)
LEMMA WaitingUnanswered ==
  ASSUME IInv, CarryInv, NEW r \in DOMAIN inbox, req[r].pc = "waiting"
  PROVE  Unanswered(req[r], inbox[r]) /\ Planned(r)
<1>1. RequestInv(req[r], inbox[r], Planned(r)) /\ Carries(req[r], inbox[r])
  BY DEF IInv, RequestsInv, CarryInv
<1>2. IsRequest(req[r]) /\ Planned(r)
  BY <1>1 DEF RequestInv, UnderWay
<1>3. Unanswered(req[r], inbox[r])
  BY <1>1, <1>2 DEF Carries, Unanswered
<1> QED BY <1>2, <1>3

(* An answer is told to the client at once, or as it comes.                *)
LEMMA ToldCarries ==
  ASSUME NEW q, NEW s, Unanswered(s, q), NEW t, t.pc \notin {"new", "waiting"},
         t.body = s.body, t.sent = s.sent, t.hops = s.hops,
         t.reply # NoAnswer =>
           ToldBy(t.reply, t.upstream, q.surface, s.body, s.hops[1].provider)
  PROVE  Carries(t, q)
BY DEF Unanswered, Carries

(* The record of a request whose answer came whole.                        *)
AnsweredWith(t, s, es, a, reply, form) ==
  t = [Ended(s, 200, es) EXCEPT !.upstream = a, !.reply = reply, !.form = form]

LEMMA WholeRecord ==
  ASSUME NEW s, IsRequest(s), NEW es, NEW a, NEW reply, NEW form, NEW t,
         AnsweredWith(t, s, es, a, reply, form)
  PROVE  /\ t.pc = "done" /\ t.body = s.body /\ t.sent = s.sent /\ t.hops = s.hops
         /\ t.upstream = a /\ t.reply = reply
<1>1. PICK h : h = Ended(s, 200, es)
  OBVIOUS
<1>2. PICK status : status = 200
  OBVIOUS
<1>3. h = Ended(s, status, es)
  BY <1>1, <1>2
<1>4. IsRequest(h) /\ h.pc = "done" /\ h.sent = s.sent /\ h.hops = s.hops
  BY <1>3, EndedRequest
<1>5. h.body = s.body
  BY <1>3 DEF Ended, IsRequest, RequestFields
<1>6. t = [h EXCEPT !.upstream = a, !.reply = reply, !.form = form]
  BY <1>1 DEF AnsweredWith
<1> QED BY <1>4, <1>5, <1>6 DEF IsRequest, RequestFields

LEMMA AnswerWholeTells ==
  ASSUME IInv, NEW r \in DOMAIN inbox, AnswerWhole(r)
  PROVE  \E t : \E a \in UpstreamAnswers[AnswerProtocol(inbox[r].surface, Hop(r).provider)] :
           /\ req' = [req EXCEPT ![r] = t]
           /\ t.pc = "done" /\ t.body = req[r].body /\ t.sent = req[r].sent
           /\ t.hops = req[r].hops /\ t.upstream = a
           /\ t.reply = Render(inbox[r].surface, Hop(r).provider,
                          ParseResponse(a, Hop(r).provider,
                            Asked(inbox[r].surface, req[r].body, Hop(r).provider)))
<1> DEFINE s == req[r]
<1> DEFINE q == inbox[r]
<1> DEFINE p == Hop(r).provider
<1> DEFINE asked == Asked(q.surface, s.body, p)
<1> DEFINE Said(a) == Render(q.surface, p, ParseResponse(a, p, asked))
<1>1. PICK a \in UpstreamAnswers[AnswerProtocol(q.surface, p)] :
        /\ req' = [req EXCEPT ![r] =
                     [Ended(s, 200, <<Event("success", TRUE)>>) EXCEPT
                        !.upstream = a, !.reply = Said(a),
                        !.form = IF q.body.stream THEN "sse" ELSE "json"]]
        /\ IF s.key = NoKey THEN table' = table
           ELSE table' \in AfterStore(table, s.key, Hop(r).model, Said(a), now)
  BY DEF AnswerWhole, IInv, RequestsInv
<1>2. PICK reply : reply = Said(a)
  OBVIOUS
<1>3. PICK es, form : es = <<Event("success", TRUE)>>
                      /\ form = IF q.body.stream THEN "sse" ELSE "json"
  OBVIOUS
<1>4. PICK t : t = [Ended(s, 200, es) EXCEPT !.upstream = a, !.reply = reply, !.form = form]
  OBVIOUS
<1>5. req' = [req EXCEPT ![r] = t]
  BY <1>1, <1>2, <1>3, <1>4
<1>6. IsRequest(s)
  BY DEF IInv, RequestsInv, RequestInv
<1>7. /\ t.pc = "done" /\ t.body = s.body /\ t.sent = s.sent /\ t.hops = s.hops
      /\ t.upstream = a /\ t.reply = reply
  <2>1. AnsweredWith(t, s, es, a, reply, form)
    BY <1>4 DEF AnsweredWith
  <2> HIDE DEF s
  <2> QED BY <1>6, <2>1, WholeRecord
<1> HIDE DEF asked
<1>8. t.reply = Said(a)
  BY <1>2, <1>7
<1> QED BY Zenon, <1>5, <1>7, <1>8 DEF asked

LEMMA CarryStep == IInv /\ SentInv /\ CarryInv /\ [Next]_vars => CarryInv'
<1> SUFFICES ASSUME IInv, SentInv, CarryInv, [Next]_vars
             PROVE  CarryInv'
  OBVIOUS
<1>1. ASSUME NEW r \in DOMAIN inbox, Receive(r)
      PROVE  CarryInv'
  <2> DEFINE q == inbox[r]
  <2>1. PICK decision : decision = Plan(q)
    OBVIOUS
  <2>2. PICK blocked \in BOOLEAN, spent \in BOOLEAN :
          req' = [req EXCEPT ![r] = Start(q, decision, blocked, spent)]
    BY <1>1, <2>1 DEF Receive
  <2>3. PICK t : t = Start(q, decision, blocked, spent)
    OBVIOUS
  <2>4. req' = [req EXCEPT ![r] = t] /\ inbox' = inbox
    BY <1>1, <2>2, <2>3 DEF Receive
  <2>5. BodyOk(q)
    BY DEF SentInv
  <2>6. Carries(t, q)
    <3> HIDE DEF q
    <3>1. q.surface = "count_tokens" /\ decision # Unresolved =>
            decision.primary.provider = "anthropic"
      BY <2>1, CountedPlan
    <3>2. Unanswered(t, q)
      BY <2>3, <2>5, <3>1, StartUnanswered
    <3> QED BY <3>2, UnansweredCarries
  <2> QED BY <2>4, <2>6, CarryKept
<1>2. ASSUME NEW r \in DOMAIN inbox, FallBack(r)
      PROVE  CarryInv'
  <2>1. PICK s, q : s = req[r] /\ q = inbox[r]
    OBVIOUS
  <2>2. PICK hops : hops = Tail(s.hops)
    OBVIOUS
  <2>3. PICK t : t = Dispatch(s, q.surface, hops)
    OBVIOUS
  <2>4. /\ req' = [req EXCEPT ![r] = t] /\ inbox' = inbox
        /\ s.pc = "waiting" /\ q.surface = "messages"
    BY <1>2, <2>1, <2>2, <2>3 DEF FallBack, IInv, RequestsInv
  <2>5. Unanswered(s, q) /\ Parsed(q)
    BY <2>1, <2>4, WaitingUnanswered DEF Planned
  <2>6. q.surface # "count_tokens"
    BY <2>4
  <2>7. Unanswered(t, q)
    BY <2>3, <2>4, <2>5, <2>6, DispatchUnanswered
  <2>8. Carries(t, q)
    BY <2>7, UnansweredCarries
  <2> QED BY <2>1, <2>4, <2>8, CarryKept
<1>3. ASSUME NEW r \in DOMAIN inbox, Fail(r) \/ AnswerCount(r)
      PROVE  CarryInv'
  <2>1. PICK s, q : s = req[r] /\ q = inbox[r]
    OBVIOUS
  <2>2. PICK status, es : req' = [req EXCEPT ![r] = Ended(s, status, es)]
    <3>1. CASE Fail(r)
      BY <2>1, <3>1 DEF Fail, IInv, RequestsInv
    <3>2. CASE AnswerCount(r)
      BY <2>1, <3>2 DEF AnswerCount, IInv, RequestsInv
    <3> QED BY <1>3, <3>1, <3>2
  <2>3. PICK t : t = Ended(s, status, es)
    OBVIOUS
  <2>4. inbox' = inbox /\ s.pc = "waiting"
    BY <1>3, <2>1 DEF Fail, AnswerCount
  <2>5. Unanswered(s, q)
    BY <2>1, <2>4, WaitingUnanswered
  <2>6. Unanswered(t, q)
    BY <2>3, <2>5, EndedUnanswered
  <2>7. Carries(t, q)
    BY <2>6, UnansweredCarries
  <2> QED BY <2>1, <2>2, <2>3, <2>4, <2>7, CarryKept
<1>4. ASSUME NEW r \in DOMAIN inbox, AnswerStreamed(r)
      PROVE  CarryInv'
  <2>1. PICK s, q : s = req[r] /\ q = inbox[r]
    OBVIOUS
  <2>2. PICK a : req' = [req EXCEPT ![r] = [s EXCEPT !.pc = "streaming", !.status = 200,
                                                     !.form = "sse", !.upstream = a]]
    BY <1>4, <2>1 DEF AnswerStreamed, IInv, RequestsInv
  <2>3. PICK t : t = [s EXCEPT !.pc = "streaming", !.status = 200, !.form = "sse",
                               !.upstream = a]
    OBVIOUS
  <2>4. req' = [req EXCEPT ![r] = t]
    BY <2>2, <2>3
  <2>5. s.pc = "waiting" /\ inbox' = inbox
    BY <1>4, <2>1 DEF AnswerStreamed
  <2>6. Unanswered(s, q)
    BY <2>1, <2>5, WaitingUnanswered
  <2>7. /\ t.pc = "streaming" /\ t.body = s.body /\ t.sent = s.sent /\ t.hops = s.hops
        /\ t.reply = s.reply
    <3>1. IsRequest(s)
      BY <2>6 DEF Unanswered
    <3> QED BY <2>3, <3>1 DEF IsRequest, RequestFields
  <2>8. t.reply = NoAnswer
    BY <2>5, <2>6, <2>7 DEF Unanswered
  <2>9. Carries(t, q)
    BY <2>6, <2>7, <2>8, ToldCarries
  <2> QED BY <2>1, <2>4, <2>5, <2>9, CarryKept
<1>5. ASSUME NEW r \in DOMAIN inbox, EndStream(r)
      PROVE  CarryInv'
  <2>1. PICK s, q : s = req[r] /\ q = inbox[r]
    OBVIOUS
  <2>2. PICK t : t = Settled(s)
    OBVIOUS
  <2>3. req' = [req EXCEPT ![r] = t] /\ inbox' = inbox
    BY <1>5, <2>1, <2>2 DEF EndStream, IInv, RequestsInv
  <2>4. IsRequest(s) /\ Carries(s, q)
    BY <2>1 DEF IInv, RequestsInv, RequestInv, CarryInv
  <2>5. /\ t.pc = "done" /\ t.body = s.body /\ t.sent = s.sent /\ t.hops = s.hops
        /\ t.upstream = s.upstream /\ t.reply = s.reply
    BY <2>2, <2>4 DEF Settled, IsRequest, RequestFields
  <2>6. Carries(t, q)
    BY <2>4, <2>5 DEF Carries
  <2> QED BY <2>1, <2>3, <2>6, CarryKept
<1>6. ASSUME NEW r \in DOMAIN inbox, AnswerWhole(r)
      PROVE  CarryInv'
  <2>1. PICK s, q : s = req[r] /\ q = inbox[r]
    OBVIOUS
  <2>2. PICK p : p = Hop(r).provider
    OBVIOUS
  <2>3. PICK surface, b : surface = q.surface /\ b = s.body
    OBVIOUS
  <2>4. PICK asked \in BOOLEAN : asked = Asked(surface, b, p)
    BY DEF Asked
  <2>5. PICK t : \E a \in UpstreamAnswers[AnswerProtocol(inbox[r].surface, Hop(r).provider)] :
          /\ req' = [req EXCEPT ![r] = t]
          /\ t.pc = "done" /\ t.body = req[r].body /\ t.sent = req[r].sent
          /\ t.hops = req[r].hops /\ t.upstream = a
          /\ t.reply = Render(inbox[r].surface, Hop(r).provider,
                         ParseResponse(a, Hop(r).provider,
                           Asked(inbox[r].surface, req[r].body, Hop(r).provider)))
    BY <1>6, AnswerWholeTells
  <2>6. PICK a \in UpstreamAnswers[AnswerProtocol(surface, p)] :
          /\ t.upstream = a /\ t.reply = Render(surface, p, ParseResponse(a, p, asked))
    BY Zenon, <2>1, <2>2, <2>3, <2>4, <2>5
  <2>10. req' = [req EXCEPT ![r] = t]
    BY <2>5
  <2>11. s.pc = "waiting" /\ surface # "count_tokens" /\ inbox' = inbox
    BY <1>6, <2>1, <2>3 DEF AnswerWhole
  <2>12. Unanswered(s, q)
    BY <2>1, <2>11, WaitingUnanswered
  <2>13. /\ t.pc = "done" /\ t.body = s.body /\ t.sent = s.sent /\ t.hops = s.hops
    BY <2>1, <2>5
  <2>14. surface \in {"messages", "chat", "responses"}
    BY <2>1, <2>3, <2>11 DEF CarryInv, Surfaces
  <2>15. p = s.hops[1].provider
    BY <2>1, <2>2 DEF Hop
  <2>16. ToldBy(t.reply, a, surface, b, p)
    <3>3. Readable(surface, p, asked) =>
            Faithful(Render(surface, p, ParseResponse(a, p, asked)), a, surface, p)
      BY <2>14, RenderedAnswer
    <3> QED BY <2>4, <2>6, <3>3 DEF ToldBy
  <2>17. Carries(t, q)
    BY <2>3, <2>6, <2>12, <2>13, <2>15, <2>16, ToldCarries
  <2> QED BY <2>1, <2>10, <2>11, <2>17, CarryKept
<1>7. CASE Tick \/ UNCHANGED vars
  <2>1. inbox' = inbox /\ req' = req
    BY <1>7 DEF Tick, vars
  <2> QED BY <2>1 DEF CarryInv
<1> QED BY <1>1, <1>2, <1>3, <1>4, <1>5, <1>6, <1>7 DEF Next

LEMMA CarriedAlong == Spec => [](SentInv /\ CarryInv)
<1>1. Init => CarryInv
  BY CarryInit
<1>2. IInv /\ SentInv /\ CarryInv /\ [Next]_vars => CarryInv'
  BY CarryStep
<1> QED BY <1>1, <1>2, SentInit, SentStep, InvariantHolds, PTL DEF Spec

(* Whatever upstreams answer with a whole body, and through whichever of   *)
(* the protocols: on every route whose answer can be read the client gets  *)
(* the upstream's words and calls, in order, with the arguments that are   *)
(* JSON where its protocol wants a value, and is told that it was cut      *)
(* short exactly when it was (AnswerIsWhole).                              *)
THEOREM AnswersAreWhole == Spec => []AnswerIsWhole
<1>1. CarryInv => AnswerIsWhole
  <2> SUFFICES ASSUME CarryInv, NEW r \in DOMAIN inbox, req[r].upstream # NoAnswer,
                      req[r].reply # NoAnswer, ~ Unread(r)
               PROVE  Whole(r)
    BY DEF AnswerIsWhole
  <2>1. PICK p : p = Hop(r).provider /\ p = req[r].hops[1].provider
    BY DEF Hop
  <2>2. ToldBy(req[r].reply, req[r].upstream, inbox[r].surface, req[r].body, p)
    BY <2>1 DEF CarryInv, Carries
  <2>3. Readable(inbox[r].surface, p, Asked(inbox[r].surface, req[r].body, p))
    BY <2>1 DEF Unread, Readable
  <2>4. Faithful(req[r].reply, req[r].upstream, inbox[r].surface, p)
    BY <2>2, <2>3 DEF ToldBy
  <2> QED BY <2>1, <2>4 DEF Whole, Faithful
<1> QED BY <1>1, CarriedAlong, PTL

------------------------------------------------------------------------------
(* Turns translated                                                        *)

(* What a translation makes of a turn says what the turn said: hoists is   *)
(* a protocol whose system text is not among its turns, drops one without  *)
(* images; any other carries those that come with their data.              *)
Renders(ts, t, how, hoists, drops) ==
  /\ \A who \in Sides : Flat(Mapped(ts, WordsIn(who))) =
                          IF hoists /\ who = "system" THEN <<>> ELSE TurnWords(who, t)
  /\ Flat(Mapped(ts, Exchanges)) = Phrased(TurnExchange(t), how)
  /\ Len(Flat(Mapped(ts, ImagesIn(ImageKinds)))) =
       IF drops THEN 0 ELSE Len(OfKind(Carried, t.parts))

LEMMA WordsRendered ==
  ASSUME NEW X \in SUBSET SomeTurn, NEW T, Maps(T, X, Seq(SomeTurn)), NEW how,
         NEW hoists, NEW drops, \A t \in X : Renders(T[t], t, how, hoists, drops),
         NEW s \in Seq(X), NEW who \in Sides
  PROVE  Flat(Mapped(Flat(Mapped(s, T)), WordsIn(who))) =
           IF hoists /\ who = "system" THEN <<>> ELSE Flat(Mapped(s, WordsIn(who)))
<1> DEFINE silent == hoists /\ who = "system"
<1>10. PICK e : e = <<>>
  OBVIOUS
<1>1. e = <<>> /\ e \in Seq(STRING)
  BY <1>10
<1>2. PICK w : w = WordsIn(who) /\ Maps(w, SomeTurn, Seq(STRING))
  BY ObserversSay
<1>3. PICK h : h = [t \in X |-> IF silent THEN e ELSE w[t]]
  OBVIOUS
<1>4. \A t \in X : h[t] = Flat(Mapped(T[t], w))
  <2>1. \A t \in X : w[t] = TurnWords(who, t)
    BY <1>2 DEF WordsIn
  <2> QED BY <1>1, <1>2, <1>3, <2>1 DEF Renders
<1>5. Maps(h, X, Seq(STRING))
  BY <1>1, <1>2, <1>3 DEF Maps
<1>6. FlatComposes(h, w, T, X)
  BY <1>4 DEF FlatComposes
<1> HIDE DEF silent
<1>7. Flat(Mapped(Flat(Mapped(s, T)), w)) = Flat(Mapped(s, h))
  BY <1>2, <1>5, <1>6, FlatMapped
<1>8. CASE silent
  <2>1. \A i \in DOMAIN s : s[i] \in X
    OBVIOUS
  <2>2. \A i \in DOMAIN s : h[s[i]] = e
    BY <1>3, <1>8, <2>1
  <2>3. PICK n \in Nat : n = Len(s) /\ DOMAIN s = 1..n
    OBVIOUS
  <2>4. PICK m : m = Mapped(s, h)
    OBVIOUS
  <2>5. m = [i \in 1..n |-> h[s[i]]]
    BY <2>3, <2>4 DEF Mapped
  <2>6. m \in Seq({e})
    BY <2>2, <2>3, <2>5
  <2>7. Flat(m) = <<>>
    BY <1>1, <2>6, FlatNone
  <2> QED BY <1>2, <1>7, <1>8, <2>4, <2>7 DEF silent
<1>9. CASE ~ silent
  <2>1. \A t \in X : h[t] = w[t]
    BY <1>3, <1>9
  <2>2. Mapped(s, h) = Mapped(s, w)
    BY <2>1, MappedSame
  <2> QED BY <1>2, <1>7, <1>9, <2>2 DEF silent
<1> QED BY <1>8, <1>9

LEMMA ExchangeRendered ==
  ASSUME NEW X \in SUBSET SomeTurn, NEW T, Maps(T, X, Seq(SomeTurn)), NEW how,
         NEW hoists, NEW drops, \A t \in X : Renders(T[t], t, how, hoists, drops),
         NEW s \in Seq(X)
  PROVE  Flat(Mapped(Flat(Mapped(s, T)), Exchanges)) = Phrased(Flat(Mapped(s, Exchanges)), how)
<1>1. PICK f : f = [t \in X |-> TurnExchange(t)]
  OBVIOUS
<1>2. PICK u : u = Phrases(how)
  OBVIOUS
<1>3. Maps(u, Deed, Deed) /\ \A c \in Seq(Deed) : Phrased(c, how) = Mapped(c, u)
  <2>1. PICK e : e = <<>>
    OBVIOUS
  <2>2. e \in Seq(Deed)
    BY <2>1
  <2>3. Maps(Phrases(how), Deed, Deed)
    BY <2>2, PhrasedSays
  <2>4. \A c \in Seq(Deed) : Phrased(c, how) = Mapped(c, Phrases(how))
    BY PhrasedSays
  <2> QED BY <1>2, <2>3, <2>4
<1>4. PICK h : h = [t \in X |-> Mapped(f[t], u)]
  OBVIOUS
<1>5. \A t \in X : f[t] = TurnExchange(t) /\ f[t] \in Seq(Deed)
  BY <1>1, ExchangeSays
<1>6. Maps(f, X, Seq(Deed))
  BY <1>1, <1>5 DEF Maps
<1>7. \A t \in X : h[t] = Mapped(f[t], u) /\ h[t] \in Seq(Deed)
  <2>1. ASSUME NEW t \in X PROVE Mapped(f[t], u) \in Seq(Deed)
    <3>1. u \in [Deed -> Deed]
      BY <1>3 DEF Maps
    <3> QED BY <1>5, <3>1, MappedSays
  <2> QED BY <1>4, <2>1
<1>8. Maps(h, X, Seq(Deed))
  BY <1>4, <1>7 DEF Maps
<1>9. MapComposes(h, u, f, X)
  BY <1>7 DEF MapComposes
<1>10. Mapped(Flat(Mapped(s, f)), u) = Flat(Mapped(s, h))
  BY <1>3, <1>6, <1>8, <1>9, MappedFlat
<1>11. PICK g : g = Exchanges /\ Maps(g, SomeTurn, Seq(Deed)) /\ \A t \in X : g[t] = TurnExchange(t)
  BY ObserversSay DEF Exchanges
<1>12. FlatComposes(h, g, T, X)
  <2>1. \A t \in X : Flat(Mapped(T[t], g)) = Mapped(f[t], u)
    BY <1>3, <1>5, <1>11 DEF Renders
  <2> QED BY <1>7, <2>1 DEF FlatComposes
<1>13. Flat(Mapped(Flat(Mapped(s, T)), g)) = Flat(Mapped(s, h))
  BY <1>8, <1>11, <1>12, FlatMapped
<1>14. Mapped(s, f) = Mapped(s, g)
  <2>1. \A t \in X : f[t] = g[t]
    BY <1>5, <1>11
  <2> QED BY <2>1, MappedSame
<1>15. f \in [X -> Seq(Deed)]
  BY <1>6 DEF Maps
<1>16. Mapped(s, f) \in Seq(Seq(Deed))
  BY <1>15, MappedSays
<1>17. Flat(Mapped(s, f)) \in Seq(Deed)
  BY <1>16, FlatSays
<1>18. Phrased(Flat(Mapped(s, f)), how) = Mapped(Flat(Mapped(s, f)), u)
  BY <1>3, <1>17
<1> QED BY <1>10, <1>11, <1>13, <1>14, <1>18

LEMMA ImagesRendered ==
  ASSUME NEW X \in SUBSET SomeTurn, NEW T, Maps(T, X, Seq(SomeTurn)), NEW how,
         NEW hoists, NEW drops, \A t \in X : Renders(T[t], t, how, hoists, drops),
         NEW s \in Seq(X)
  PROVE  Len(Flat(Mapped(Flat(Mapped(s, T)), ImagesIn(ImageKinds)))) =
           IF drops THEN 0 ELSE Len(Flat(Mapped(s, ImagesIn(Carried))))
<1>1. PICK g : g = ImagesIn(ImageKinds) /\ Maps(g, SomeTurn, Seq(SomePart))
  BY ObserversSay
<1>10. PICK c : c = ImagesIn(Carried) /\ Maps(c, SomeTurn, Seq(SomePart))
                /\ \A t \in X : c[t] = OfKind(Carried, t.parts)
  <2>1. \A t \in X : ImagesIn(Carried)[t] = OfKind(Carried, t.parts)
    BY Zenon DEF ImagesIn
  <2> QED BY <2>1, ObserversSay
<1>2. PICK h : h = [t \in X |-> Flat(Mapped(T[t], g))]
  OBVIOUS
<1>3. \A t \in X : h[t] \in Seq(SomePart)
  <2>1. ASSUME NEW t \in X PROVE Flat(Mapped(T[t], g)) \in Seq(SomePart)
    <3>1. PICK ts \in Seq(SomeTurn) : ts = T[t]
      BY DEF Maps
    <3>2. g \in [SomeTurn -> Seq(SomePart)]
      BY <1>1 DEF Maps
    <3>3. Mapped(ts, g) \in Seq(Seq(SomePart))
      BY <3>2, MappedSays
    <3> QED BY <3>1, <3>3, FlatSays
  <2> QED BY <1>2, <2>1
<1>4. Maps(h, X, Seq(SomePart))
  BY <1>2, <1>3 DEF Maps
<1>5. FlatComposes(h, g, T, X)
  BY <1>2 DEF FlatComposes
<1>6. Flat(Mapped(Flat(Mapped(s, T)), g)) = Flat(Mapped(s, h))
  BY <1>1, <1>4, <1>5, FlatMapped
<1>7. \A t \in X : Len(h[t]) = IF drops THEN 0 ELSE Len(c[t])
  BY <1>1, <1>2, <1>10 DEF Renders
<1>8. CASE drops
  <2>1. PICK e : e = <<>>
    OBVIOUS
  <2>2. \A t \in X : h[t] = e
    BY <1>3, <1>7, <1>8, <2>1
  <2>3. PICK n \in Nat : n = Len(s) /\ DOMAIN s = 1..n /\ \A i \in 1..n : s[i] \in X
    OBVIOUS
  <2>4. PICK m : m = Mapped(s, h)
    OBVIOUS
  <2>5. m = [i \in 1..n |-> h[s[i]]]
    BY <2>3, <2>4 DEF Mapped
  <2>6. m \in Seq({e})
    BY <2>2, <2>3, <2>5
  <2>7. Flat(m) = e /\ Len(e) = 0
    BY <2>1, <2>6, FlatNone
  <2> QED BY <1>1, <1>6, <1>8, <2>4, <2>7
<1>9. CASE ~ drops
  <2>1. PICK f : f = [t \in X |-> c[t]]
    OBVIOUS
  <2>2. Maps(f, X, Seq(SomePart)) /\ \A t \in X : f[t] = c[t]
    BY <1>10, <2>1 DEF Maps
  <2>3. SameLengths(h, f, X)
    BY <1>7, <1>9, <2>2 DEF SameLengths
  <2>4. Len(Flat(Mapped(s, h))) = Len(Flat(Mapped(s, f)))
    BY <1>4, <2>2, <2>3, FlatLength
  <2>5. Mapped(s, f) = Mapped(s, c)
    BY <2>2, MappedSame
  <2> QED BY <1>1, <1>6, <1>9, <1>10, <2>4, <2>5
<1> QED BY <1>8, <1>9

LEMMA JoinedAlike ==
  ASSUME NEW K, NEW L, NEW ps, NEW qs, DOMAIN ps = DOMAIN qs,
         \A i \in DOMAIN ps : /\ ps[i].kind \in K <=> qs[i].kind \in L
                              /\ ps[i].text = qs[i].text
  PROVE  Joined(K, ps) = Joined(L, qs)
<1>1. [i \in DOMAIN ps |-> IF ps[i].kind \in K THEN ps[i].text ELSE <<>>]
      = [i \in DOMAIN qs |-> IF qs[i].kind \in L THEN qs[i].text ELSE <<>>]
  OBVIOUS
<1> QED BY <1>1 DEF Joined

LEMMA OfKindAlike ==
  ASSUME NEW K, NEW L, NEW ps \in Seq(SomePart), NEW qs \in Seq(SomePart), Len(ps) = Len(qs),
         \A i \in DOMAIN ps : ps[i].kind \in K <=> qs[i].kind \in L
  PROVE  Len(OfKind(K, ps)) = Len(OfKind(L, qs))
<1>1. PICK S : S = {x \in SomePart : x.kind \in K}
  OBVIOUS
<1>2. PICK T : T = {x \in SomePart : x.kind \in L}
  OBVIOUS
<1>3. \A i \in DOMAIN ps : ps[i] \in S <=> qs[i] \in T
  BY <1>1, <1>2
<1>4. Len(Keep(ps, S)) = Len(Keep(qs, T))
  BY <1>3, KeepMatches
<1>5. OfKind(K, ps) = Keep(ps, S) /\ OfKind(L, qs) = Keep(qs, T)
  BY <1>1, <1>2, OfKindIs
<1> QED BY <1>4, <1>5

(* What is read off turns, turn by turn.                                   *)
LEMMA ReadOne ==
  ASSUME NEW R, NEW g, Maps(g, SomeTurn, Seq(R)), NEW u \in SomeTurn
  PROVE  Flat(Mapped(<<u>>, g)) = g[u]
<1>1. PICK y \in Seq(R) : y = g[u]
  BY DEF Maps
<1>2. Mapped(<<u>>, g) = <<y>>
  BY <1>1, MappedOne
<1> QED BY <1>1, <1>2, FlatOne

LEMMA TurnReads ==
  ASSUME NEW u \in SomeTurn
  PROVE  /\ \A who : Flat(Mapped(<<u>>, WordsIn(who))) = TurnWords(who, u)
         /\ Flat(Mapped(<<u>>, Exchanges)) = TurnExchange(u)
         /\ Flat(Mapped(<<u>>, ImagesIn(ImageKinds))) = OfKind(ImageKinds, u.parts)
<1>1. ASSUME NEW who
      PROVE  Flat(Mapped(<<u>>, WordsIn(who))) = TurnWords(who, u)
  <2>1. WordsIn(who)[u] = TurnWords(who, u)
    BY DEF WordsIn
  <2>2. PICK g : g = WordsIn(who) /\ Maps(g, SomeTurn, Seq(STRING))
    BY ObserversSay
  <2> QED BY <2>1, <2>2, ReadOne
<1>2. Flat(Mapped(<<u>>, Exchanges)) = TurnExchange(u)
  <2>1. Exchanges[u] = TurnExchange(u)
    BY DEF Exchanges
  <2>2. PICK g : g = Exchanges /\ Maps(g, SomeTurn, Seq(Deed))
    BY ObserversSay
  <2> QED BY <2>1, <2>2, ReadOne
<1>3. Flat(Mapped(<<u>>, ImagesIn(ImageKinds))) = OfKind(ImageKinds, u.parts)
  <2>1. ImagesIn(ImageKinds)[u] = OfKind(ImageKinds, u.parts)
    BY DEF ImagesIn
  <2>2. PICK g : g = ImagesIn(ImageKinds) /\ Maps(g, SomeTurn, Seq(SomePart))
    BY ObserversSay
  <2> QED BY <2>1, <2>2, ReadOne
<1> QED BY <1>1, <1>2, <1>3

(* A turn for a turn.                                                      *)
LEMMA RendersOne ==
  ASSUME NEW u \in SomeTurn, NEW t, NEW how, NEW hoists, NEW drops,
         \A who \in Sides : TurnWords(who, u) = TurnWords(who, t),
         hoists => TurnWords("system", t) = <<>>,
         TurnExchange(u) = Phrased(TurnExchange(t), how),
         Len(OfKind(ImageKinds, u.parts)) = IF drops THEN 0 ELSE Len(OfKind(Carried, t.parts))
  PROVE  Renders(<<u>>, t, how, hoists, drops)
<1>1. ASSUME NEW who \in Sides
      PROVE  Flat(Mapped(<<u>>, WordsIn(who))) =
               IF hoists /\ who = "system" THEN <<>> ELSE TurnWords(who, t)
  <2>1. Flat(Mapped(<<u>>, WordsIn(who))) = TurnWords(who, t)
    BY TurnReads
  <2> QED BY Zenon, <2>1
<1>2. Flat(Mapped(<<u>>, Exchanges)) = Phrased(TurnExchange(t), how)
  BY TurnReads
<1>3. Len(Flat(Mapped(<<u>>, ImagesIn(ImageKinds)))) =
        IF drops THEN 0 ELSE Len(OfKind(Carried, t.parts))
  BY TurnReads
<1> QED BY <1>1, <1>2, <1>3 DEF Renders

(* A turn for which there is none.                                         *)
LEMMA RendersNone ==
  ASSUME NEW t \in SomeTurn, NEW how, NEW hoists, NEW drops,
         \A who \in Sides : (hoists /\ who = "system") \/ TurnWords(who, t) = <<>>,
         TurnExchange(t) = <<>>,
         drops \/ OfKind(Carried, t.parts) = <<>>
  PROVE  Renders(<<>>, t, how, hoists, drops)
<1>1. PICK e : e = <<>>
  OBVIOUS
<1>2. \A g : Flat(Mapped(e, g)) = e
  BY Zenon, <1>1, ReadNone
<1>3. Phrased(e, how) = e
  <2>1. e \in Seq(Deed)
    BY <1>1
  <2>2. Phrased(e, how) = Mapped(e, Phrases(how))
    BY <2>1, PhrasedSays
  <2> QED BY Zenon, <1>1, <2>2, MappedEmpty
<1>4. \A who \in Sides : Flat(Mapped(e, WordsIn(who))) =
                           IF hoists /\ who = "system" THEN e ELSE TurnWords(who, t)
  BY <1>1, <1>2
<1>5. Flat(Mapped(e, Exchanges)) = Phrased(TurnExchange(t), how)
  BY <1>1, <1>2, <1>3
<1>6. Len(e) = 0
  BY <1>1
<1>7. Len(Flat(Mapped(e, ImagesIn(ImageKinds)))) =
        IF drops THEN 0 ELSE Len(OfKind(Carried, t.parts))
  BY <1>1, <1>2, <1>6
<1> QED BY <1>1, <1>4, <1>5, <1>7 DEF Renders

------------------------------------------------------------------------------
(* The turns of a chat                                                     *)

ChatRoles == {"system", "user", "assistant", "tool", "developer"}

ChatTurns ==
  {t \in SomeTurn :
     /\ t.role \in ChatRoles
     /\ \A i \in DOMAIN t.parts : t.parts[i].kind \in {"text", "image", "image_ref"}
     /\ \A i \in DOMAIN t.calls : t.calls[i].kind = "tool_use"
     /\ t.calls # <<>> => t.role = "assistant"}

Result(id, text) == [result |-> TRUE, id |-> id, text |-> text]

LEMMA ChatTurnReads ==
  ASSUME NEW t \in ChatTurns
  PROVE  /\ TextOf(t.parts) \in Seq(STRING)
         /\ \A who \in Sides : TurnWords(who, t) =
              IF t.role # "tool" /\ Who(t.role) = who THEN TextOf(t.parts) ELSE <<>>
         /\ t.role = "tool" => TurnExchange(t) = <<Result(t.answers, TextOf(t.parts))>>
         /\ t.role # "tool" => TurnExchange(t) = Mapped(t.calls, Did)
<1>1. PICK ps \in Seq(SomePart) : ps = t.parts
  BY TurnFields DEF ChatTurns
<1>2. \A i \in DOMAIN ps : ps[i].kind \in {"text", "image", "image_ref"}
  BY <1>1 DEF ChatTurns
<1>3. Joined(WordKinds, ps) = Joined({"text"}, ps)
  BY <1>2, JoinedSame DEF WordKinds
<1>4. WordsOf(ps) = TextOf(ps) /\ TextOf(ps) \in Seq(STRING)
  BY <1>3, WordsOfSays DEF TextOf
<1>5. t.role \in ChatRoles /\ t \in SomeTurn
  BY DEF ChatTurns
<1>6. \A who \in Sides : TurnWords(who, t) =
              IF t.role # "tool" /\ Who(t.role) = who THEN TextOf(ps) ELSE <<>>
  <2>1. Carrier(t.role) <=> t.role = "tool"
    BY <1>5 DEF Carrier, ChatRoles
  <2> QED BY <1>1, <1>4, <2>1 DEF TurnWords
<1>7. ASSUME t.role = "tool"
      PROVE  TurnExchange(t) = <<Result(t.answers, TextOf(ps))>>
  <2>1. Tool(t.role)
    BY <1>7 DEF Tool
  <2>2. (t.role # "function_call") = TRUE
    BY <1>7
  <2>3. TurnExchange(t) = << [result |-> t.role # "function_call", id |-> t.answers,
                               text |-> WordsOf(t.parts)] >>
    BY <1>5, <2>1, ExchangeOfTool
  <2> QED BY Zenon, <1>1, <1>4, <2>2, <2>3 DEF Result
<1>8. ASSUME t.role # "tool"
      PROVE  TurnExchange(t) = Mapped(t.calls, Did)
  <2>1. ~ Tool(t.role)
    BY <1>5, <1>8 DEF Tool, ChatRoles
  <2>2. PICK a : a = OfKind(Deeds, ps)
    OBVIOUS
  <2>3. a = <<>>
    <3>1. \A i \in DOMAIN ps : ps[i].kind \notin Deeds
      BY <1>2 DEF Deeds
    <3> QED BY <2>2, <3>1, OfKindNone
  <2>4. PICK c \in Seq(Deed) : c = Mapped(t.calls, Did)
    <3>1. t.calls \in Seq(SomePart)
      BY <1>5, TurnFields
    <3> QED BY <3>1, DidSays, MappedSays
  <2>5. TurnExchange(t) = Mapped(a, Did) \o c
    BY <1>1, <1>5, <2>1, <2>2, <2>4, ExchangeOfTurn
  <2>6. Mapped(a, Did) = a
    BY Zenon, <2>3, MappedEmpty
  <2>7. a \o c = c
    BY <2>3
  <2> QED BY <2>4, <2>5, <2>6, <2>7
<1> QED BY <1>1, <1>4, <1>6, <1>7, <1>8

LEMMA PhrasedResult ==
  ASSUME NEW how, NEW id, NEW text
  PROVE  Phrased(<<Result(id, text)>>, how) = <<Result(id, text)>>
<1>1. PICK r : r = Result(id, text)
  OBVIOUS
<1>2. r.result
  BY <1>1 DEF Result
<1>3. Phrase(r, how) = r
  BY Zenon, <1>2 DEF Phrase
<1>4. PICK c : c = <<r>>
  OBVIOUS
<1>5. \A i \in DOMAIN c : c[i] = r
  BY <1>4
<1>6. Phrased(c, how) = [i \in DOMAIN c |-> c[i]]
  BY Zenon, <1>3, <1>5 DEF Phrased
<1>7. c = [i \in DOMAIN c |-> c[i]]
  BY <1>4
<1> QED BY <1>1, <1>4, <1>6, <1>7

LEMMA PhrasedNone ==
  ASSUME NEW how
  PROVE  Phrased(<<>>, how) = <<>>
<1>1. PICK e : e = <<>>
  OBVIOUS
<1>2. e \in Seq(Deed)
  BY <1>1
<1>3. Phrased(e, how) = Mapped(e, Phrases(how))
  BY <1>2, PhrasedSays
<1> QED BY Zenon, <1>1, <1>3, MappedEmpty

(* A text of its own, as a turn.                                           *)
LEMMA TextTurn ==
  ASSUME NEW role \in Literal, NEW text \in Seq(STRING), role \in ChatRoles, role # "tool"
  PROVE  LET u == Turn(role, <<TextPart(text)>>, <<>>, "")
         IN  /\ u \in ChatTurns /\ u.role = role /\ u.parts = <<TextPart(text)>>
             /\ TextOf(u.parts) = text /\ OfKind(ImageKinds, u.parts) = <<>>
             /\ TurnExchange(u) = <<>>
             /\ \A who \in Sides : TurnWords(who, u) = IF Who(role) = who THEN text ELSE <<>>
<1>1. PICK none, kind : none = "" /\ kind = "text"
  OBVIOUS
<1>2. none \in Literal /\ kind \in Literal
  BY <1>1, NoLiteral
<1>3. PICK part : part = TextPart(text)
  OBVIOUS
<1>4. part \in SomePart /\ part.kind = "text" /\ part.text = text
  <2>1. part = Part(kind, none, text)
    BY <1>1, <1>3 DEF TextPart
  <2>2. part \in SomePart
    BY <1>2, <2>1, PartSays
  <2>3. part.kind = kind
    BY <1>2, <2>1, PartSays
  <2>4. part.text = text
    BY <1>2, <2>1, PartSays
  <2> QED BY <1>1, <2>2, <2>3, <2>4
<1>5. PICK ps : ps = <<part>>
  OBVIOUS
<1>6. ps \in Seq(SomePart) /\ DOMAIN ps = {1} /\ ps[1] = part
  BY <1>4, <1>5
<1>7. PICK e : e = <<>>
  OBVIOUS
<1>8. e \in Seq(SomePart) /\ DOMAIN e = {}
  BY <1>7
<1>9. PICK u : u = Turn(role, ps, e, none)
  OBVIOUS
<1>10. u \in SomeTurn /\ u.role = role /\ u.parts = ps /\ u.calls = e /\ u.answers = none
  <2>1. ps \in Seq(SomePart) /\ e \in Seq(SomePart) /\ none \in Literal
    BY <1>2, <1>6, <1>8
  <2> QED BY <1>9, <2>1, TurnSays
<1>11. u \in ChatTurns
  BY <1>4, <1>6, <1>7, <1>8, <1>10 DEF ChatTurns
<1>12. TextOf(ps) = text
  <2>1. Joined({"text"}, ps) = text
    BY <1>4, <1>5, JoinedOne
  <2> QED BY <2>1 DEF TextOf
<1>13. OfKind(ImageKinds, ps) = <<>>
  <2>1. \A i \in DOMAIN ps : ps[i].kind \notin ImageKinds
    BY <1>4, <1>6 DEF ImageKinds
  <2> QED BY <1>6, <2>1, OfKindNone
<1>14. TurnExchange(u) = e
  <2>1. TurnExchange(u) = Mapped(e, Did)
    BY <1>10, <1>11, ChatTurnReads
  <2> QED BY Zenon, <1>7, <2>1, MappedEmpty
<1>15. \A who \in Sides : TurnWords(who, u) = IF Who(role) = who THEN text ELSE <<>>
  BY <1>10, <1>11, <1>12, ChatTurnReads
<1> QED BY <1>1, <1>3, <1>5, <1>7, <1>9, <1>10, <1>11, <1>12, <1>13, <1>14, <1>15

(* A user's turn, alone with its text.                                     *)
LEMMA UserTurn ==
  ASSUME NEW t \in ChatTurns, t.role = "user", NEW how, NEW hoists
  PROVE  LET u == Turn("user", <<TextPart(TextOf(t.parts))>>, <<>>, "")
         IN  u \in SomeTurn /\ Renders(<<u>>, t, how, hoists, TRUE)
<1>1. PICK text \in Seq(STRING) : text = TextOf(t.parts)
  BY ChatTurnReads
<1>2. PICK role : role = "user"
  OBVIOUS
<1>3. role \in Literal /\ role \in ChatRoles /\ role # "tool" /\ Who(role) = "user"
  BY <1>2 DEF Literal, ChatRoles, Who
<1>4. PICK u : u = Turn(role, <<TextPart(text)>>, <<>>, "")
  OBVIOUS
<1>5. /\ u \in ChatTurns /\ OfKind(ImageKinds, u.parts) = <<>> /\ TurnExchange(u) = <<>>
      /\ \A who \in Sides : TurnWords(who, u) = IF Who(role) = who THEN text ELSE <<>>
  BY <1>3, <1>4, TextTurn
<1>6. /\ \A who \in Sides : TurnWords(who, t) = IF Who(role) = who THEN text ELSE <<>>
      /\ TurnExchange(t) = Mapped(t.calls, Did)
  BY <1>1, <1>2, <1>3, ChatTurnReads
<1>7. TurnExchange(t) = <<>>
  <2>1. t.calls = <<>>
    BY DEF ChatTurns
  <2> QED BY Zenon, <1>6, <2>1, MappedEmpty
<1>8. \A who \in Sides : TurnWords(who, u) = TurnWords(who, t)
  BY <1>5, <1>6
<1>9. TurnWords("system", t) = <<>>
  <2>1. "system" \in Sides
    BY DEF Sides
  <2> QED BY <1>3, <1>6, <2>1
<1>10. TurnExchange(u) = Phrased(TurnExchange(t), how)
  BY <1>5, <1>7, PhrasedNone
<1>11. Len(OfKind(ImageKinds, u.parts)) = 0
  BY <1>5
<1>12. u \in SomeTurn
  BY <1>5 DEF ChatTurns
<1>13. Renders(<<u>>, t, how, hoists, TRUE)
  BY <1>8, <1>9, <1>10, <1>11, <1>12, RendersOne
<1> QED BY <1>1, <1>2, <1>4, <1>12, <1>13

(* A tool message, as the result it is in a user's turn.                   *)
LEMMA ResultTurn ==
  ASSUME NEW t \in ChatTurns, t.role = "tool", NEW how, NEW hoists, NEW kind \in Results
  PROVE  LET u == Turn("user", <<Part(kind, t.answers, TextOf(t.parts))>>, <<>>, "")
         IN  u \in SomeTurn /\ Renders(<<u>>, t, how, hoists, TRUE)
<1>1. PICK text \in Seq(STRING) : text = TextOf(t.parts)
  BY ChatTurnReads
<1>2. PICK role, none : role = "user" /\ none = ""
  OBVIOUS
<1>3. role \in Literal /\ none \in Literal /\ kind \in Literal
  BY <1>2 DEF Literal, Results
<1>4. PICK id \in Literal : id = t.answers
  BY TurnFields DEF ChatTurns
<1>5. PICK part \in SomePart :
        part = Part(kind, id, text) /\ part.kind = kind /\ part.id = id /\ part.text = text
  BY <1>3, PartSays
<1>6. PICK ps : ps = <<part>>
  OBVIOUS
<1>7. ps \in Seq(SomePart) /\ DOMAIN ps = {1} /\ ps[1] = part /\ Len(ps) = 1
  BY <1>6
<1>8. PICK e : e = <<>>
  OBVIOUS
<1>9. e \in Seq(SomePart) /\ Len(e) = 0
  BY <1>8
<1>10. PICK u : u = Turn(role, ps, e, none)
  OBVIOUS
<1>11. u \in SomeTurn /\ u.role = role /\ u.parts = ps /\ u.calls = e
  <2>1. ps \in Seq(SomePart) /\ e \in Seq(SomePart)
    BY <1>7, <1>9
  <2> QED BY <1>3, <1>10, <2>1, TurnSays
<1>12. part.kind \notin WordKinds /\ part.kind \notin ImageKinds /\ part.kind \in Deeds
  BY <1>5 DEF Results, WordKinds, ImageKinds, Deeds
<1>13. WordsOf(ps) = e
  <2>1. \A i \in DOMAIN ps : ps[i].kind \notin WordKinds
    BY <1>7, <1>12
  <2>2. Joined(WordKinds, ps) = <<>>
    BY <1>7, <2>1, JoinedNone
  <2> QED BY <1>7, <1>8, <2>2, WordsOfSays
<1>14. OfKind(ImageKinds, ps) = e
  <2>1. \A i \in DOMAIN ps : ps[i].kind \notin ImageKinds
    BY <1>7, <1>12
  <2> QED BY <1>7, <1>8, <2>1, OfKindNone
<1>15. \A who \in Sides : TurnWords(who, u) = e
  BY <1>8, <1>11, <1>13 DEF TurnWords
<1>16. \A who \in Sides : TurnWords(who, t) = e
  BY <1>8, ChatTurnReads
<1>17. TurnExchange(u) = <<Result(id, text)>>
  <2>1. ~ Tool(u.role)
    BY <1>2, <1>11 DEF Tool
  <2>2. OfKind(Deeds, ps) = ps
    <3>1. \A i \in DOMAIN ps : ps[i].kind \in Deeds
      BY <1>7, <1>12
    <3> QED BY <1>7, <3>1, OfKindAll
  <2>3. TurnExchange(u) = Mapped(ps, Did) \o Mapped(e, Did)
    BY <1>11, <2>1, <2>2, ExchangeOfTurn
  <2>4. Mapped(e, Did) = e
    BY Zenon, <1>8, MappedEmpty
  <2>5. Mapped(ps, Did) = <<Did[part]>>
    BY <1>6, MappedOne
  <2>6. (part.kind \in Results) = TRUE
    BY <1>5
  <2>7. Did[part] = [result |-> part.kind \in Results, id |-> part.id, text |-> part.text]
    BY DidSays
  <2>8. Did[part] = Result(id, text)
    BY Zenon, <1>5, <2>6, <2>7 DEF Result
  <2>9. PICK d : d = Did[part]
    OBVIOUS
  <2>10. <<d>> \o e = <<d>>
    BY <1>8
  <2> QED BY <2>3, <2>4, <2>5, <2>8, <2>9, <2>10
<1>18. TurnExchange(t) = <<Result(id, text)>>
  BY <1>1, <1>4, ChatTurnReads
<1>19. TurnExchange(u) = Phrased(TurnExchange(t), how)
  BY <1>17, <1>18, PhrasedResult
<1>20. Len(OfKind(ImageKinds, u.parts)) = 0
  BY <1>9, <1>11, <1>14
<1>21. TurnWords("system", t) = <<>>
  BY <1>8, <1>16 DEF Sides
<1>22. Renders(<<u>>, t, how, hoists, TRUE)
  BY <1>11, <1>15, <1>16, <1>19, <1>20, <1>21, RendersOne
<1> QED BY <1>1, <1>2, <1>4, <1>5, <1>6, <1>8, <1>10, <1>11, <1>22

(* An assistant's turn, with the calls among its parts.                    *)
LEMMA AssistantTurn ==
  ASSUME NEW t \in ChatTurns, t.role = "assistant", NEW how, NEW hoists,
         NEW role \in {"assistant", "model"}, NEW said,
         said = IF TextOf(t.parts) = <<>> THEN <<>> ELSE <<TextPart(TextOf(t.parts))>>,
         NEW calls \in Seq(SomePart),
         \A i \in DOMAIN calls : calls[i].kind \in {"tool_use", "functionCall"},
         Mapped(calls, Did) = Phrased(Mapped(t.calls, Did), how)
  PROVE  LET u == Turn(role, said \o calls, <<>>, "")
         IN  u \in SomeTurn /\ Renders(<<u>>, t, how, hoists, TRUE)
<1>1. PICK text \in Seq(STRING) : text = TextOf(t.parts)
  BY ChatTurnReads
<1>2. PICK none : none = ""
  OBVIOUS
<1>3. role \in Literal /\ none \in Literal
  BY <1>2 DEF Literal
<1>4. PICK e : e = <<>>
  OBVIOUS
<1>5. e \in Seq(SomePart) /\ Len(e) = 0 /\ DOMAIN e = {}
  BY <1>4
<1>6. said \in Seq(SomePart) /\ (\A i \in DOMAIN said : said[i].kind = "text")
      /\ Joined(WordKinds, said) = text
  <2>1. said = Optional("text", text)
    BY Zenon, <1>1 DEF Optional, TextPart
  <2>2. PICK kind : kind = "text"
    OBVIOUS
  <2>3. kind \in WordKinds /\ kind \in Literal
    BY <2>2, NoLiteral DEF WordKinds
  <2>4. said = Optional(kind, text)
    BY <2>1, <2>2
  <2>5. said \in Seq(SomePart)
    BY <2>3, <2>4, OptionalSays
  <2>6. \A i \in DOMAIN said : said[i].kind = kind
    BY <2>3, <2>4, OptionalSays
  <2>7. Joined(WordKinds, said) = text
    BY <2>3, <2>4, OptionalSays
  <2> QED BY <2>2, <2>5, <2>6, <2>7
<1>18. PICK ps : ps = said \o calls
  OBVIOUS
<1>7. ps = said \o calls /\ ps \in Seq(SomePart)
  <2>1. said \in Seq(SomePart)
    BY <1>6
  <2> HIDE <1>6
  <2> QED BY <1>18, <2>1
<1>8. PICK u : u = Turn(role, ps, e, none)
  OBVIOUS
<1>9. u \in SomeTurn /\ u.role = role /\ u.parts = ps /\ u.calls = e
  <2>1. ps \in Seq(SomePart) /\ e \in Seq(SomePart)
    BY <1>5, <1>7
  <2> QED BY <1>3, <1>8, <2>1, TurnSays
<1>10. WordsOf(ps) = text
  <2>1. Joined(WordKinds, said \o calls) = Joined(WordKinds, said) \o Joined(WordKinds, calls)
    BY <1>6, JoinedConcat
  <2>2. \A i \in DOMAIN calls : calls[i].kind \notin WordKinds
    BY DEF WordKinds
  <2>3. Joined(WordKinds, calls) = <<>>
    BY <2>2, JoinedNone
  <2>4. text \o e = text
    BY <1>4
  <2> QED BY <1>4, <1>6, <1>7, <2>1, <2>3, <2>4, WordsOfSays
<1>11. OfKind(ImageKinds, ps) = e
  <2>1. OfKind(ImageKinds, said \o calls) = OfKind(ImageKinds, said) \o OfKind(ImageKinds, calls)
    BY <1>6, OfKindConcat
  <2>2. OfKind(ImageKinds, calls) = <<>>
    <3>1. \A i \in DOMAIN calls : calls[i].kind \notin ImageKinds
      BY DEF ImageKinds
    <3> QED BY <3>1, OfKindNone
  <2>3. OfKind(ImageKinds, said) = <<>>
    <3>1. \A i \in DOMAIN said : said[i].kind \notin ImageKinds
      BY <1>6 DEF ImageKinds
    <3> QED BY <1>6, <3>1, OfKindNone
  <2>4. e \o e = e
    BY <1>4
  <2> QED BY <1>4, <1>7, <2>1, <2>2, <2>3, <2>4
<1>12. OfKind(Deeds, ps) = calls
  <2>1. OfKind(Deeds, said \o calls) = OfKind(Deeds, said) \o OfKind(Deeds, calls)
    BY <1>6, OfKindConcat
  <2>2. OfKind(Deeds, calls) = calls
    <3>1. \A i \in DOMAIN calls : calls[i].kind \in Deeds
      BY DEF Deeds
    <3> QED BY <3>1, OfKindAll
  <2>3. OfKind(Deeds, said) = e
    <3>1. \A i \in DOMAIN said : said[i].kind \notin Deeds
      BY <1>6 DEF Deeds
    <3> QED BY <1>4, <1>6, <3>1, OfKindNone
  <2>4. e \o calls = calls
    BY <1>4
  <2> QED BY <1>7, <2>1, <2>2, <2>3, <2>4
<1>13. TurnExchange(u) = Phrased(TurnExchange(t), how)
  <2>1. ~ Tool(u.role)
    BY <1>9 DEF Tool
  <2>2. PICK c \in Seq(Deed) : c = Mapped(calls, Did)
    BY DidSays, MappedSays
  <2>3. TurnExchange(u) = c \o Mapped(e, Did)
    BY <1>9, <1>12, <2>1, <2>2, ExchangeOfTurn
  <2>4. Mapped(e, Did) = e
    BY Zenon, <1>4, MappedEmpty
  <2>5. c \o e = c
    BY <1>4
  <2>6. TurnExchange(t) = Mapped(t.calls, Did)
    BY ChatTurnReads
  <2> QED BY <2>2, <2>3, <2>4, <2>5, <2>6
<1>14. \A who \in Sides : TurnWords(who, u) = TurnWords(who, t)
  <2>1. Who(role) = Who(t.role) /\ ~ Carrier(role)
    BY DEF Who, Carrier
  <2>2. \A who \in Sides : TurnWords(who, t) = IF Who(role) = who THEN text ELSE <<>>
    BY <1>1, <2>1, ChatTurnReads
  <2>3. \A who \in Sides : TurnWords(who, u) = IF Who(role) = who THEN text ELSE <<>>
    BY <1>9, <1>10, <2>1 DEF TurnWords
  <2> QED BY <2>2, <2>3
<1>15. TurnWords("system", t) = <<>>
  <2>1. "system" \in Sides /\ Who(t.role) # "system"
    BY DEF Sides, Who
  <2> QED BY <2>1, ChatTurnReads
<1>16. Len(OfKind(ImageKinds, u.parts)) = 0
  BY <1>5, <1>9, <1>11
<1>17. Renders(<<u>>, t, how, hoists, TRUE)
  BY <1>9, <1>13, <1>14, <1>15, <1>16, RendersOne
<1> QED BY <1>2, <1>4, <1>7, <1>8, <1>9, <1>17

(* Calls with their arguments' values, and with or without their ids.      *)
Rephrased(made, calls, how) ==
  /\ DOMAIN made = DOMAIN calls
  /\ \A i \in DOMAIN calls :
       /\ made[i].kind \notin Results /\ calls[i].kind \notin Results
       /\ made[i].id = IF how = "bare" THEN "" ELSE calls[i].id
       /\ made[i].text = Arguments(calls[i].text)

LEMMA RephrasedSay ==
  ASSUME NEW made \in Seq(SomePart), NEW calls \in Seq(SomePart),
         NEW how \in {"bare", "valued"}, Rephrased(made, calls, how)
  PROVE  Mapped(made, Did) = Phrased(Mapped(calls, Did), how)
<1>1. PICK n \in Nat : n = Len(calls) /\ DOMAIN calls = 1..n /\ DOMAIN made = 1..n
  <2>1. PICK n \in Nat : n = Len(calls) /\ DOMAIN calls = 1..n
    OBVIOUS
  <2> QED BY Zenon, <2>1 DEF Rephrased
<1>2. \A i \in 1..n : made[i] \in SomePart /\ calls[i] \in SomePart
  BY <1>1
<1>3. PICK m : m = Mapped(made, Did)
  OBVIOUS
<1>4. PICK c \in Seq(Deed) : c = Mapped(calls, Did)
  BY DidSays, MappedSays
<1>5. m = [i \in 1..n |-> Did[made[i]]] /\ c = [i \in 1..n |-> Did[calls[i]]]
  BY <1>1, <1>3, <1>4 DEF Mapped
<1>6. Phrased(c, how) = [i \in 1..n |-> Phrase(c[i], how)]
  BY <1>5 DEF Phrased
<1>7. ASSUME NEW i \in 1..n
      PROVE  Phrase(c[i], how) = m[i]
  <2>1. PICK id, text, no : id = calls[i].id /\ text = calls[i].text /\ no = FALSE
    OBVIOUS
  <2>2. PICK newId : newId = IF how = "bare" THEN "" ELSE id
    OBVIOUS
  <2>3. PICK newText : newText = Arguments(text)
    OBVIOUS
  <2>4. /\ (made[i].kind \in Results) = FALSE /\ (calls[i].kind \in Results) = FALSE
        /\ made[i].id = newId /\ made[i].text = newText
    <3>1. made[i].kind \notin Results /\ calls[i].kind \notin Results
      BY Zenon, <1>1 DEF Rephrased
    <3>2. made[i].id = newId /\ made[i].text = newText
      BY Zenon, <1>1, <2>1, <2>2, <2>3 DEF Rephrased
    <3> QED BY <3>1, <3>2
  <2>5. PICK d : d = c[i]
    OBVIOUS
  <2>6. d = [result |-> no, id |-> id, text |-> text]
    <3>1. Did[calls[i]] = [result |-> calls[i].kind \in Results, id |-> calls[i].id,
                           text |-> calls[i].text]
      BY <1>2, DidSays
    <3>2. d = Did[calls[i]]
      BY <1>5, <2>5
    <3> QED BY Zenon, <2>1, <2>4, <3>1, <3>2
  <2>7. m[i] = [result |-> no, id |-> newId, text |-> newText]
    <3>1. Did[made[i]] = [result |-> made[i].kind \in Results, id |-> made[i].id,
                          text |-> made[i].text]
      BY <1>2, DidSays
    <3>2. m[i] = Did[made[i]]
      BY <1>5
    <3> QED BY Zenon, <2>1, <2>4, <3>1, <3>2
  <2>8. Phrase(d, how) = [d EXCEPT !.id = newId, !.text = newText]
    <3>1. ~ d.result /\ d.id = id /\ d.text = text
      BY <2>1, <2>6
    <3>2. how # "named"
      OBVIOUS
    <3>3. Phrase(d, how) = [d EXCEPT !.id = IF how = "bare" THEN "" ELSE d.id,
                                     !.text = Arguments(d.text)]
      BY Zenon, <3>1, <3>2 DEF Phrase
    <3> QED BY Zenon, <2>2, <2>3, <3>1, <3>3
  <2>9. [d EXCEPT !.id = newId, !.text = newText] = [result |-> no, id |-> newId, text |-> newText]
    <3>1. PICK e : e = [d EXCEPT !.id = newId]
      OBVIOUS
    <3>2. e = [result |-> no, id |-> newId, text |-> text]
      BY <2>6, <3>1
    <3>3. [e EXCEPT !.text = newText] = [result |-> no, id |-> newId, text |-> newText]
      BY <3>2
    <3>4. [d EXCEPT !.id = newId, !.text = newText] = [e EXCEPT !.text = newText]
      BY Zenon, <3>1
    <3> QED BY <3>3, <3>4
  <2> QED BY <2>5, <2>7, <2>8, <2>9
<1> QED BY <1>3, <1>4, <1>5, <1>6, <1>7

(* To Messages.                                                            *)
LEMMA AnthropicCalls ==
  ASSUME NEW t \in ChatTurns
  PROVE  /\ ToolUses(t.calls) \in Seq(SomePart)
         /\ \A i \in DOMAIN ToolUses(t.calls) :
              ToolUses(t.calls)[i].kind \in {"tool_use", "functionCall"}
         /\ Mapped(ToolUses(t.calls), Did) = Phrased(Mapped(t.calls, Did), "valued")
<1>1. PICK c \in Seq(SomePart) : c = t.calls
  BY TurnFields DEF ChatTurns
<1>2. PICK m, how : m = ToolUses(c) /\ how = "valued"
  OBVIOUS
<1>3. /\ m \in Seq(SomePart) /\ \A i \in DOMAIN m : m[i].kind = "tool_use"
      /\ DOMAIN m = DOMAIN c
      /\ \A i \in DOMAIN c : m[i].id = c[i].id /\ m[i].text = Arguments(c[i].text)
  BY <1>2, ToolUsesSay
<1>4. how \in {"bare", "valued"} /\ how # "bare"
  BY <1>2
<1>5. "tool_use" \notin Results /\ \A i \in DOMAIN c : c[i].kind = "tool_use"
  BY <1>1 DEF ChatTurns, Results
<1>6. Rephrased(m, c, how)
  BY Zenon, <1>3, <1>4, <1>5 DEF Rephrased
<1>7. Mapped(m, Did) = Phrased(Mapped(c, Did), how)
  BY <1>3, <1>4, <1>6, RephrasedSay
<1>8. \A i \in DOMAIN m : m[i].kind \in {"tool_use", "functionCall"}
  BY <1>3
<1> QED BY Zenon, <1>1, <1>2, <1>3, <1>7, <1>8

LEMMA SpokenRoles ==
  ASSUME NEW t \in ChatTurns
  PROVE  IF IsSystem(t) THEN Who(t.role) = "system" /\ t.role # "tool" /\ t.role # "assistant"
         ELSE t.role \in {"tool", "assistant", "user"} /\ Who(t.role) # "system"
BY DEF ChatTurns, ChatRoles, IsSystem, Who

LEMMA AnthropicTurnSays ==
  ASSUME NEW t \in ChatTurns, ~ IsSystem(t)
  PROVE  /\ ChatMessageToAnthropic(t) \in SomeTurn
         /\ Renders(<<ChatMessageToAnthropic(t)>>, t, "valued", TRUE, TRUE)
<1>1. PICK text, how : text = TextOf(t.parts) /\ how = "valued"
  OBVIOUS
<1>2. CASE t.role = "tool"
  <2>1. PICK kind : kind = "tool_result"
    OBVIOUS
  <2>2. kind \in Results
    BY <2>1 DEF Results
  <2>3. ChatMessageToAnthropic(t) =
          Turn("user", <<Part(kind, t.answers, text)>>, <<>>, "")
    BY Zenon, <1>1, <1>2, <2>1 DEF ChatMessageToAnthropic
  <2> QED BY Zenon, <1>1, <1>2, <2>2, <2>3, ResultTurn
<1>3. CASE t.role = "assistant"
  <2>1. PICK calls : calls = ToolUses(t.calls)
    OBVIOUS
  <2>2. /\ calls \in Seq(SomePart)
        /\ \A i \in DOMAIN calls : calls[i].kind \in {"tool_use", "functionCall"}
        /\ Mapped(calls, Did) = Phrased(Mapped(t.calls, Did), how)
    BY Zenon, <1>1, <2>1, AnthropicCalls
  <2>3. PICK said : said = IF TextOf(t.parts) = <<>> THEN <<>> ELSE <<TextPart(TextOf(t.parts))>>
    OBVIOUS
  <2>4. PICK role : role = "assistant"
    OBVIOUS
  <2>5. role \in {"assistant", "model"}
    BY <2>4
  <2>6. PICK u : u = Turn(role, said \o calls, <<>>, "")
    OBVIOUS
  <2>7. t.role # "tool"
    BY <1>3
  <2>8. ChatMessageToAnthropic(t) = u
    BY Zenon, <1>3, <2>1, <2>3, <2>4, <2>6, <2>7 DEF ChatMessageToAnthropic
  <2>9. u \in SomeTurn /\ Renders(<<u>>, t, how, TRUE, TRUE)
    BY Zenon, <1>3, <2>2, <2>3, <2>5, <2>6, AssistantTurn
  <2> QED BY <1>1, <2>8, <2>9
<1>4. CASE t.role = "user"
  <2>1. t.role # "tool" /\ t.role # "assistant"
    BY <1>4
  <2>2. ChatMessageToAnthropic(t) = Turn("user", <<TextPart(text)>>, <<>>, "")
    BY Zenon, <1>1, <2>1 DEF ChatMessageToAnthropic
  <2> QED BY Zenon, <1>1, <1>4, <2>2, UserTurn
<1> QED BY <1>2, <1>3, <1>4, SpokenRoles

LEMMA GeminiCalls ==
  ASSUME NEW t \in ChatTurns
  PROVE  LET calls == [i \in DOMAIN t.calls |-> Part("functionCall", "", Arguments(t.calls[i].text))]
         IN  /\ calls \in Seq(SomePart)
             /\ \A i \in DOMAIN calls : calls[i].kind \in {"tool_use", "functionCall"}
             /\ Mapped(calls, Did) = Phrased(Mapped(t.calls, Did), "bare")
<1>1. PICK c \in Seq(SomePart) : c = t.calls
  BY TurnFields DEF ChatTurns
<1>2. PICK kind, none, how : kind = "functionCall" /\ none = "" /\ how = "bare"
  OBVIOUS
<1>3. kind \in Literal /\ none \in Literal /\ kind \notin Results /\ how \in {"bare", "valued"}
  BY <1>2 DEF Literal, Results
<1>4. PICK n \in Nat : n = Len(c) /\ DOMAIN c = 1..n
                       /\ \A i \in 1..n : c[i] \in SomePart /\ c[i].text \in Seq(STRING)
  <2>1. \A i \in DOMAIN c : c[i] \in SomePart /\ c[i].text \in Seq(STRING)
    BY PartFields
  <2> QED BY <2>1
<1>5. PICK m : m = [i \in 1..n |-> Part(kind, none, Arguments(c[i].text))]
  OBVIOUS
<1>6. \A i \in 1..n : /\ m[i] \in SomePart /\ m[i].kind = kind
                      /\ m[i].id = none /\ m[i].text = Arguments(c[i].text)
  <2>1. ASSUME NEW i \in 1..n
        PROVE  /\ m[i] \in SomePart /\ m[i].kind = kind
               /\ m[i].id = none /\ m[i].text = Arguments(c[i].text)
    <3>1. PICK text \in Seq(STRING) : text = Arguments(c[i].text)
      BY <1>4, ArgumentsSay
    <3>2. m[i] = Part(kind, none, text)
      BY <1>5, <3>1
    <3> QED BY <1>3, <3>1, <3>2, PartSays
  <2> QED BY <2>1
<1>7. m \in Seq(SomePart) /\ DOMAIN m = 1..n
  <2>1. m \in [1..n -> SomePart]
    BY <1>5, <1>6
  <2> QED BY <2>1
<1>8. \A i \in 1..n : c[i].kind \notin Results
  BY <1>1, <1>4 DEF ChatTurns, Results
<1>9. Rephrased(m, c, how)
  BY Zenon, <1>2, <1>3, <1>4, <1>6, <1>7, <1>8 DEF Rephrased
<1>10. Mapped(m, Did) = Phrased(Mapped(c, Did), how)
  BY <1>3, <1>7, <1>9, RephrasedSay
<1>11. [i \in DOMAIN t.calls |-> Part("functionCall", "", Arguments(t.calls[i].text))] = m
  BY Zenon, <1>1, <1>2, <1>4, <1>5
<1>12. \A i \in DOMAIN m : m[i].kind \in {"tool_use", "functionCall"}
  BY <1>2, <1>6, <1>7
<1> QED BY Zenon, <1>1, <1>2, <1>7, <1>10, <1>11, <1>12

LEMMA GeminiTurnSays ==
  ASSUME NEW t \in ChatTurns, ~ IsSystem(t)
  PROVE  /\ ChatMessageToGemini(t) \in SomeTurn
         /\ Renders(<<ChatMessageToGemini(t)>>, t, "bare", TRUE, TRUE)
<1>1. PICK text, how : text = TextOf(t.parts) /\ how = "bare"
  OBVIOUS
<1>2. CASE t.role = "tool"
  <2>1. PICK kind : kind = "functionResponse"
    OBVIOUS
  <2>2. kind \in Results
    BY <2>1 DEF Results
  <2>3. ChatMessageToGemini(t) =
          Turn("user", <<Part(kind, t.answers, text)>>, <<>>, "")
    BY Zenon, <1>1, <1>2, <2>1 DEF ChatMessageToGemini
  <2> QED BY Zenon, <1>1, <1>2, <2>2, <2>3, ResultTurn
<1>3. CASE t.role = "assistant"
  <2>1. PICK calls : calls = [i \in DOMAIN t.calls |-> Part("functionCall", "", Arguments(t.calls[i].text))]
    OBVIOUS
  <2>2. /\ calls \in Seq(SomePart)
        /\ \A i \in DOMAIN calls : calls[i].kind \in {"tool_use", "functionCall"}
        /\ Mapped(calls, Did) = Phrased(Mapped(t.calls, Did), how)
    BY Zenon, <1>1, <2>1, GeminiCalls
  <2>3. PICK said : said = IF TextOf(t.parts) = <<>> THEN <<>> ELSE <<TextPart(TextOf(t.parts))>>
    OBVIOUS
  <2>4. PICK role : role = "model"
    OBVIOUS
  <2>5. role \in {"assistant", "model"}
    BY <2>4
  <2>6. PICK u : u = Turn(role, said \o calls, <<>>, "")
    OBVIOUS
  <2>7. t.role # "tool"
    BY <1>3
  <2>8. ChatMessageToGemini(t) = u
    BY Zenon, <1>3, <2>1, <2>3, <2>4, <2>6, <2>7 DEF ChatMessageToGemini
  <2>9. u \in SomeTurn /\ Renders(<<u>>, t, how, TRUE, TRUE)
    BY Zenon, <1>3, <2>2, <2>3, <2>5, <2>6, AssistantTurn
  <2> QED BY <1>1, <2>8, <2>9
<1>4. CASE t.role = "user"
  <2>1. t.role # "tool" /\ t.role # "assistant"
    BY <1>4
  <2>2. ChatMessageToGemini(t) = Turn("user", <<TextPart(text)>>, <<>>, "")
    BY Zenon, <1>1, <2>1 DEF ChatMessageToGemini
  <2> QED BY Zenon, <1>1, <1>4, <2>2, UserTurn
<1> QED BY <1>2, <1>3, <1>4, SpokenRoles

------------------------------------------------------------------------------
(* Conversations translated                                                *)

TurnsSay(out, turns, how, hoists, drops) ==
  /\ out \in Seq(SomeTurn)
  /\ \A who \in Sides : Flat(Mapped(out, WordsIn(who))) =
       IF hoists /\ who = "system" THEN <<>> ELSE Flat(Mapped(turns, WordsIn(who)))
  /\ Flat(Mapped(out, Exchanges)) = Phrased(Flat(Mapped(turns, Exchanges)), how)
  /\ Len(Flat(Mapped(out, ImagesIn(ImageKinds)))) =
       IF drops THEN 0 ELSE Len(Flat(Mapped(turns, ImagesIn(Carried))))

LEMMA TurnsRendered ==
  ASSUME NEW X \in SUBSET SomeTurn, NEW T, Maps(T, X, Seq(SomeTurn)), NEW how,
         NEW hoists, NEW drops, \A t \in X : Renders(T[t], t, how, hoists, drops),
         NEW s \in Seq(X)
  PROVE  TurnsSay(Flat(Mapped(s, T)), s, how, hoists, drops)
<1>1. PICK out : out = Flat(Mapped(s, T))
  OBVIOUS
<1>2. out \in Seq(SomeTurn)
  <2>1. T \in [X -> Seq(SomeTurn)]
    BY DEF Maps
  <2>2. Mapped(s, T) \in Seq(Seq(SomeTurn))
    BY <2>1, MappedSays
  <2> QED BY <1>1, <2>2, FlatSays
<1>3. \A who \in Sides : Flat(Mapped(out, WordsIn(who))) =
        IF hoists /\ who = "system" THEN <<>> ELSE Flat(Mapped(s, WordsIn(who)))
  BY Zenon, <1>1, WordsRendered
<1>4. Flat(Mapped(out, Exchanges)) = Phrased(Flat(Mapped(s, Exchanges)), how)
  BY Zenon, <1>1, ExchangeRendered
<1>5. Len(Flat(Mapped(out, ImagesIn(ImageKinds)))) =
        IF drops THEN 0 ELSE Len(Flat(Mapped(s, ImagesIn(Carried))))
  BY Zenon, <1>1, ImagesRendered
<1> QED BY Zenon, <1>1, <1>2, <1>3, <1>4, <1>5 DEF TurnsSay

(* The spoken turns, each in the words of another protocol.                *)
LEMMA HoistedTurns ==
  ASSUME NEW turns \in Seq(ChatTurns), NEW f, Maps(f, ChatTurns, SomeTurn), NEW how,
         \A t \in ChatTurns : ~ IsSystem(t) => Renders(<<f[t]>>, t, how, TRUE, TRUE)
  PROVE  TurnsSay(Mapped(Spoken(turns), f), turns, how, TRUE, TRUE)
<1>1. PICK e : e = <<>>
  OBVIOUS
<1>2. e \in Seq(SomeTurn)
  BY <1>1
<1>3. PICK g : g = [t \in ChatTurns |-> <<f[t]>>]
  OBVIOUS
<1>4. g \in [ChatTurns -> Seq(SomeTurn)] /\ \A t \in ChatTurns : g[t] = <<f[t]>>
  <2>1. \A t \in ChatTurns : <<f[t]>> \in Seq(SomeTurn)
    BY DEF Maps
  <2> QED BY <1>3, <2>1
<1>5. PICK S : S = {t \in ChatTurns : ~ IsSystem(t)}
  OBVIOUS
<1>6. PICK T : T = [t \in ChatTurns |-> IF t \in S THEN g[t] ELSE e]
  OBVIOUS
<1>7. T \in [ChatTurns -> Seq(SomeTurn)] /\ \A t \in ChatTurns : T[t] = IF t \in S THEN g[t] ELSE e
  BY <1>2, <1>4, <1>6
<1>8. Restricts(T, g, S, ChatTurns)
  BY <1>1, <1>7 DEF Restricts
<1>9. Singly(g, f, ChatTurns)
  BY <1>4 DEF Singly
<1>10. Spoken(turns) = Keep(turns, S)
  <2>1. PICK Q : Q = {m \in ToSet(turns) : ~ IsSystem(m)}
    OBVIOUS
  <2>2. \A i \in DOMAIN turns : turns[i] \in Q <=> turns[i] \in S
    BY <1>5, <2>1 DEF ToSet
  <2>3. Keep(turns, Q) = Keep(turns, S)
    BY <2>2, KeepSame
  <2> QED BY Zenon, <2>1, <2>3 DEF Spoken
<1>11. Mapped(Keep(turns, S), f) = Flat(Mapped(turns, T))
  <2>1. Maps(g, ChatTurns, Seq(SomeTurn)) /\ Maps(T, ChatTurns, Seq(SomeTurn))
    BY <1>4, <1>7 DEF Maps
  <2> QED BY <1>8, <1>9, <2>1, KeptAsFlat
<1>12. ASSUME NEW t \in ChatTurns
       PROVE  Renders(T[t], t, how, TRUE, TRUE)
  <2>1. CASE t \in S
    <3>1. T[t] = <<f[t]>> /\ ~ IsSystem(t)
      BY <1>4, <1>5, <1>7, <2>1
    <3> QED BY Zenon, <3>1
  <2>2. CASE t \notin S
    <3>1. T[t] = e /\ IsSystem(t)
      BY <1>5, <1>7, <2>2
    <3>2. Who(t.role) = "system" /\ t.role # "tool" /\ t.role # "assistant"
      BY <3>1, SpokenRoles
    <3>3. TurnExchange(t) = e
      <4>1. t.calls = e
        BY <1>1, <3>2 DEF ChatTurns
      <4>2. TurnExchange(t) = Mapped(e, Did)
        BY <3>2, <4>1, ChatTurnReads
      <4> QED BY Zenon, <1>1, <4>2, MappedEmpty
    <3>4. \A who \in Sides : (TRUE /\ who = "system") \/ TurnWords(who, t) = e
      BY <1>1, <3>2, ChatTurnReads
    <3>5. t \in SomeTurn
      BY DEF ChatTurns
    <3>6. Renders(e, t, how, TRUE, TRUE)
      BY <1>1, <3>3, <3>4, <3>5, RendersNone
    <3> QED BY <3>1, <3>6
  <2> QED BY <2>1, <2>2
<1>13. TurnsSay(Flat(Mapped(turns, T)), turns, how, TRUE, TRUE)
  <2>1. ChatTurns \in SUBSET SomeTurn
    BY DEF ChatTurns
  <2>2. Maps(T, ChatTurns, Seq(SomeTurn))
    BY <1>7 DEF Maps
  <2> QED BY Zenon, <1>12, <2>1, <2>2, TurnsRendered
<1> QED BY <1>10, <1>11, <1>13

(* The system text, out of the turns.                                      *)
LEMMA SystemTextSays ==
  ASSUME NEW turns \in Seq(ChatTurns)
  PROVE  /\ SystemText(turns) = Flat(Mapped(turns, WordsIn("system")))
         /\ SystemText(turns) \in Seq(STRING)
         /\ (\A i \in DOMAIN turns : ~ IsSystem(turns[i])) => SystemText(turns) = <<>>
<1>1. PICK n \in Nat : n = Len(turns) /\ DOMAIN turns = 1..n /\ \A i \in 1..n : turns[i] \in ChatTurns
  OBVIOUS
<1>2. PICK a : a = [i \in 1..n |-> IF IsSystem(turns[i]) THEN TextOf(turns[i].parts) ELSE <<>>]
  OBVIOUS
<1>3. SystemText(turns) = Flat(a)
  BY <1>1, <1>2 DEF SystemText
<1>4. PICK w : w = WordsIn("system")
  OBVIOUS
<1>5. \A t \in ChatTurns : w[t] = IF IsSystem(t) THEN TextOf(t.parts) ELSE <<>>
  <2>1. ASSUME NEW t \in ChatTurns
        PROVE  w[t] = IF IsSystem(t) THEN TextOf(t.parts) ELSE <<>>
    <3>1. w[t] = TurnWords("system", t)
      BY <1>4 DEF WordsIn, ChatTurns
    <3>2. TurnWords("system", t) =
            IF t.role # "tool" /\ Who(t.role) = "system" THEN TextOf(t.parts) ELSE <<>>
      BY ChatTurnReads DEF Sides
    <3>3. (t.role # "tool" /\ Who(t.role) = "system") <=> IsSystem(t)
      BY SpokenRoles
    <3> QED BY <3>1, <3>2, <3>3
  <2> QED BY <2>1
<1>6. Mapped(turns, w) = [i \in 1..n |-> w[turns[i]]]
  BY <1>1 DEF Mapped
<1>7. a = Mapped(turns, w)
  <2>1. \A i \in 1..n : w[turns[i]] = IF IsSystem(turns[i]) THEN TextOf(turns[i].parts) ELSE <<>>
    BY <1>1, <1>5
  <2> QED BY <1>2, <1>6, <2>1
<1>8. Flat(a) \in Seq(STRING)
  <2>1. PICK h : h = [t \in ChatTurns |-> w[t]]
    OBVIOUS
  <2>2. \A t \in ChatTurns : h[t] = w[t] /\ w[t] \in Seq(STRING)
    <3>1. Maps(w, SomeTurn, Seq(STRING))
      BY <1>4, ObserversSay
    <3> QED BY <2>1, <3>1 DEF Maps, ChatTurns
  <2>3. h \in [ChatTurns -> Seq(STRING)]
    BY <2>1, <2>2
  <2>4. Mapped(turns, h) \in Seq(Seq(STRING))
    BY <2>3, MappedSays
  <2>5. Mapped(turns, h) = Mapped(turns, w)
    BY <2>2, MappedSame
  <2> QED BY <1>7, <2>4, <2>5, FlatSays
<1>9. ASSUME \A i \in DOMAIN turns : ~ IsSystem(turns[i])
      PROVE  SystemText(turns) = <<>>
  <2>1. PICK e : e = <<>>
    OBVIOUS
  <2>2. \A i \in 1..n : a[i] = e
    BY <1>1, <1>2, <1>9, <2>1
  <2>3. a \in Seq({e})
    BY <1>2, <2>2
  <2> QED BY <1>3, <2>1, <2>3, FlatNone
<1> QED BY <1>3, <1>4, <1>7, <1>8, <1>9

LEMMA SystemHoisted ==
  ASSUME NEW turns \in Seq(ChatTurns), NEW parts,
         parts = IF \E i \in DOMAIN turns : IsSystem(turns[i])
                 THEN <<TextPart(SystemText(turns))>> ELSE <<>>
  PROVE  /\ parts \in Seq(SomePart)
         /\ WordsOf(parts) = Flat(Mapped(turns, WordsIn("system")))
<1>1. PICK text \in Seq(STRING) : text = SystemText(turns)
  BY SystemTextSays
<1>2. CASE \E i \in DOMAIN turns : IsSystem(turns[i])
  <2>1. PICK kind, none : kind = "text" /\ none = ""
    OBVIOUS
  <2>2. kind \in Literal /\ none \in Literal /\ kind \in WordKinds
    BY <2>1, NoLiteral DEF WordKinds
  <2>3. PICK part \in SomePart : part = Part(kind, none, text) /\ part.kind = kind /\ part.text = text
    BY <2>2, PartSays
  <2>4. parts = <<part>>
    BY Zenon, <1>1, <1>2, <2>1, <2>3 DEF TextPart
  <2>5. Joined(WordKinds, <<part>>) = text
    BY <2>2, <2>3, JoinedOne
  <2>6. parts \in Seq(SomePart)
    BY <2>4
  <2> QED BY <1>1, <2>4, <2>5, <2>6, SystemTextSays, WordsOfSays
<1>3. CASE ~ \E i \in DOMAIN turns : IsSystem(turns[i])
  <2>1. PICK e : e = <<>>
    OBVIOUS
  <2>2. parts = e /\ e \in Seq(SomePart) /\ DOMAIN e = {}
    BY <1>3, <2>1
  <2>3. Joined(WordKinds, e) = e
    BY <2>1, <2>2, JoinedNone
  <2>4. SystemText(turns) = e
    BY <1>3, <2>1, SystemTextSays
  <2> QED BY <2>2, <2>3, <2>4, SystemTextSays, WordsOfSays
<1> QED BY <1>2, <1>3

(* Ollama's turn: one text, and calls without ids.                         *)
OllamaTurn(t) ==
  [t EXCEPT !.parts = <<TextPart(TextOf(@))>>, !.calls = WithoutIds(@)]

LEMMA OllamaCalls ==
  ASSUME NEW t \in ChatTurns, NEW made, made = WithoutIds(t.calls)
  PROVE  /\ made \in Seq(SomePart) /\ DOMAIN made = DOMAIN t.calls
         /\ \A i \in DOMAIN made : made[i].kind = "tool_use"
         /\ Mapped(made, Did) = Phrased(Mapped(t.calls, Did), "bare")
         /\ t.calls = <<>> => made = <<>>
<1>1. PICK c \in Seq(SomePart) : c = t.calls
  BY TurnFields DEF ChatTurns
<1>2. PICK none, kind, how : none = "" /\ kind = "tool_use" /\ how = "bare"
  OBVIOUS
<1>3. none \in Literal /\ kind \notin Results /\ how \in {"bare", "valued"}
  BY <1>2, NoLiteral DEF Results
<1>4. PICK n \in Nat : n = Len(c) /\ DOMAIN c = 1..n
  OBVIOUS
<1>5. \A i \in 1..n : c[i] \in SomePart /\ c[i].kind = kind
  <2>1. \A i \in 1..n : c[i] \in SomePart
    BY <1>4
  <2>2. \A i \in 1..n : c[i].kind = kind
    BY <1>1, <1>2, <1>4 DEF ChatTurns
  <2> QED BY <2>1, <2>2
<1>6. made = [i \in 1..n |-> [c[i] EXCEPT !.id = none, !.text = Arguments(@)]]
  BY Zenon, <1>1, <1>2, <1>4 DEF WithoutIds
<1>7. ASSUME NEW i \in 1..n
      PROVE  /\ made[i] \in SomePart /\ made[i].kind = kind
             /\ made[i].id = none /\ made[i].text = Arguments(c[i].text)
  <2>1. PICK x \in SomePart : x = c[i] /\ x.kind = kind
    BY <1>5
  <2>2. PICK text \in Seq(STRING) : text = Arguments(x.text)
    BY PartFields, ArgumentsSay
  <2>3. made[i] = [x EXCEPT !.id = none, !.text = Arguments(@)]
    BY Zenon, <1>6, <2>1
  <2>4. PICK m : m = [x EXCEPT !.id = none, !.text = text]
    OBVIOUS
  <2>5. made[i] = m
    BY Zenon, <2>2, <2>3, <2>4
  <2>6. m \in SomePart /\ m.kind = kind /\ m.id = none /\ m.text = text
    BY <1>3, <2>1, <2>4 DEF SomePart
  <2> QED BY <2>1, <2>2, <2>5, <2>6
<1>8. made \in Seq(SomePart) /\ DOMAIN made = 1..n
  <2>1. made \in [1..n -> SomePart]
    BY <1>6, <1>7
  <2> QED BY <2>1
<1>9. Rephrased(made, c, how)
  BY Zenon, <1>2, <1>3, <1>4, <1>5, <1>7, <1>8 DEF Rephrased
<1>10. Mapped(made, Did) = Phrased(Mapped(c, Did), how)
  BY <1>3, <1>8, <1>9, RephrasedSay
<1>11. ASSUME c = <<>> PROVE made = <<>>
  <2>1. n = 0
    BY <1>4, <1>11
  <2>2. Len(made) = n
    BY <1>4, <1>8
  <2> QED BY <1>8, <2>1, <2>2
<1>12. \A i \in DOMAIN made : made[i].kind = "tool_use"
  BY <1>2, <1>7, <1>8
<1> QED BY <1>1, <1>2, <1>4, <1>8, <1>10, <1>11, <1>12

LEMMA OllamaTurnSays ==
  ASSUME NEW t \in ChatTurns
  PROVE  OllamaTurn(t) \in SomeTurn /\ Renders(<<OllamaTurn(t)>>, t, "bare", FALSE, TRUE)
<1>1. PICK text \in Seq(STRING) : text = TextOf(t.parts)
  BY ChatTurnReads
<1>2. PICK made : made = WithoutIds(t.calls)
  OBVIOUS
<1>3. /\ made \in Seq(SomePart)
      /\ \A i \in DOMAIN made : made[i].kind = "tool_use"
      /\ Mapped(made, Did) = Phrased(Mapped(t.calls, Did), "bare")
      /\ t.calls = <<>> => made = <<>>
  BY Zenon, <1>2, OllamaCalls
<1>4. PICK kind, none, how : kind = "text" /\ none = "" /\ how = "bare"
  OBVIOUS
<1>5. kind \in Literal /\ none \in Literal
  BY <1>4, NoLiteral
<1>6. PICK part \in SomePart : part = Part(kind, none, text) /\ part.kind = kind /\ part.text = text
  BY <1>5, PartSays
<1>7. PICK ps : ps = <<part>>
  OBVIOUS
<1>8. ps \in Seq(SomePart) /\ DOMAIN ps = {1} /\ ps[1] = part
  BY <1>6, <1>7
<1>9. PICK u : u = [t EXCEPT !.parts = ps, !.calls = made]
  OBVIOUS
<1>10. u = OllamaTurn(t)
  <2>1. OllamaTurn(t) = [t EXCEPT !.parts = <<TextPart(TextOf(@))>>, !.calls = WithoutIds(@)]
    BY Zenon DEF OllamaTurn
  <2> QED BY Zenon, <1>1, <1>2, <1>4, <1>6, <1>7, <1>9, <2>1 DEF TextPart
<1>11. /\ u \in SomeTurn /\ u.role = t.role /\ u.parts = ps /\ u.calls = made
       /\ u.answers = t.answers
  <2>1. t \in SomeTurn
    BY DEF ChatTurns
  <2>2. made \in Seq(SomePart) /\ ps \in Seq(SomePart)
    BY <1>3, <1>8
  <2> QED BY <1>9, <2>1, <2>2 DEF SomeTurn
<1>12. u \in ChatTurns
  <2>1. \A i \in DOMAIN ps : ps[i].kind \in {"text", "image"}
    BY <1>4, <1>6, <1>8
  <2>2. made # <<>> => t.role = "assistant"
    BY <1>3 DEF ChatTurns
  <2>3. t.role \in ChatRoles
    BY DEF ChatTurns
  <2> QED BY <1>3, <1>11, <2>1, <2>2, <2>3 DEF ChatTurns
<1>13. TextOf(ps) = text
  <2>1. kind \in {"text"}
    BY <1>4
  <2>2. Joined({"text"}, ps) = text
    BY <1>6, <1>7, <2>1, JoinedOne
  <2> QED BY <2>2 DEF TextOf
<1>14. \A who \in Sides : TurnWords(who, u) = TurnWords(who, t)
  <2>1. \A who \in Sides : TurnWords(who, t) =
          IF t.role # "tool" /\ Who(t.role) = who THEN text ELSE <<>>
    BY <1>1, ChatTurnReads
  <2>2. \A who \in Sides : TurnWords(who, u) =
          IF t.role # "tool" /\ Who(t.role) = who THEN text ELSE <<>>
    BY <1>11, <1>12, <1>13, ChatTurnReads
  <2> QED BY <2>1, <2>2
<1>15. TurnExchange(u) = Phrased(TurnExchange(t), how)
  <2>1. CASE t.role = "tool"
    <3>1. TurnExchange(t) = <<Result(t.answers, text)>>
      BY <1>1, <2>1, ChatTurnReads
    <3>2. TurnExchange(u) = <<Result(t.answers, text)>>
      BY <1>11, <1>12, <1>13, <2>1, ChatTurnReads
    <3> QED BY <3>1, <3>2, PhrasedResult
  <2>2. CASE t.role # "tool"
    <3>1. TurnExchange(t) = Mapped(t.calls, Did)
      BY <2>2, ChatTurnReads
    <3>2. TurnExchange(u) = Mapped(made, Did)
      BY <1>11, <1>12, <2>2, ChatTurnReads
    <3> QED BY <1>3, <1>4, <3>1, <3>2
  <2> QED BY <2>1, <2>2
<1>16. Len(OfKind(ImageKinds, u.parts)) = 0
  <2>1. \A i \in DOMAIN ps : ps[i].kind \notin ImageKinds
    BY <1>4, <1>6, <1>8 DEF ImageKinds
  <2>2. OfKind(ImageKinds, ps) = <<>>
    BY <1>8, <2>1, OfKindNone
  <2> QED BY <1>11, <2>2
<1>17. Renders(<<u>>, t, how, FALSE, TRUE)
  BY <1>11, <1>14, <1>15, <1>16, RendersOne
<1> QED BY <1>4, <1>10, <1>11, <1>17

(* One turn for each.                                                      *)
LEMMA TurnsOneByOne ==
  ASSUME NEW X \in SUBSET SomeTurn, NEW f, Maps(f, X, SomeTurn), NEW how, NEW hoists, NEW drops,
         \A t \in X : Renders(<<f[t]>>, t, how, hoists, drops), NEW s \in Seq(X)
  PROVE  TurnsSay(Mapped(s, f), s, how, hoists, drops)
<1>1. PICK T : T = [t \in X |-> <<f[t]>>]
  OBVIOUS
<1>2. T \in [X -> Seq(SomeTurn)] /\ \A t \in X : T[t] = <<f[t]>>
  <2>1. \A t \in X : <<f[t]>> \in Seq(SomeTurn)
    BY DEF Maps
  <2> QED BY <1>1, <2>1
<1>3. Singly(T, f, X)
  BY <1>2 DEF Singly
<1>4. Flat(Mapped(s, T)) = Mapped(s, f)
  <2>1. f \in [X -> SomeTurn]
    BY DEF Maps
  <2>2. T \in [X -> Seq(SomeTurn)]
    BY <1>2
  <2> QED BY <1>3, <2>1, <2>2, FlatSingles
<1>5. TurnsSay(Flat(Mapped(s, T)), s, how, hoists, drops)
  <2>1. Maps(T, X, Seq(SomeTurn))
    BY <1>2 DEF Maps
  <2>2. \A t \in X : Renders(T[t], t, how, hoists, drops)
    BY Zenon, <1>2
  <2> QED BY Zenon, <2>1, <2>2, TurnsRendered
<1> QED BY <1>4, <1>5

------------------------------------------------------------------------------
(* A tool message, made from a result.                                     *)
LEMMA ToolTurn ==
  ASSUME NEW id \in Literal, NEW parts \in Seq(SomePart),
         \A i \in DOMAIN parts : parts[i].kind \in {"text", "image"}
  PROVE  LET u == Turn("tool", parts, <<>>, id)
         IN  /\ u \in ChatTurns /\ u.parts = parts
             /\ TurnExchange(u) = <<Result(id, TextOf(parts))>>
             /\ \A who \in Sides : TurnWords(who, u) = <<>>
<1>1. PICK role, e : role = "tool" /\ e = <<>>
  OBVIOUS
<1>2. role \in Literal /\ role \in ChatRoles
  BY <1>1 DEF Literal, ChatRoles
<1>3. e \in Seq(SomePart) /\ DOMAIN e = {}
  BY <1>1
<1>4. PICK u : u = Turn(role, parts, e, id)
  OBVIOUS
<1>5. u \in SomeTurn /\ u.role = role /\ u.parts = parts /\ u.calls = e /\ u.answers = id
  <2>1. role \in Literal /\ e \in Seq(SomePart)
    BY <1>2, <1>3
  <2> QED BY <1>4, <2>1, TurnSays
<1>6. u \in ChatTurns
  BY <1>1, <1>2, <1>3, <1>5 DEF ChatTurns
<1>7. TurnExchange(u) = <<Result(id, TextOf(parts))>>
  BY <1>1, <1>5, <1>6, ChatTurnReads
<1>8. \A who \in Sides : TurnWords(who, u) = <<>>
  BY <1>1, <1>5, <1>6, ChatTurnReads
<1> QED BY Zenon, <1>1, <1>4, <1>5, <1>6, <1>7, <1>8

LEMMA OfKindKept ==
  ASSUME NEW K, NEW L, NEW ps \in Seq(SomePart)
  PROVE  OfKind(K, OfKind(L, ps)) = OfKind(K \cap L, ps)
<1>1. PICK S, T : S = {x \in SomePart : x.kind \in L} /\ T = {x \in SomePart : x.kind \in K}
  OBVIOUS
<1>2. PICK k \in Seq(SomePart) : k = OfKind(L, ps) /\ k = Keep(ps, S)
  BY <1>1, OfKindSays, OfKindIs
<1>3. OfKind(K, k) = Keep(k, T)
  BY <1>1, OfKindIs
<1>4. Keep(Keep(ps, S), T) = Keep(ps, S \cap T)
  BY KeepKeep
<1>5. S \cap T = {x \in SomePart : x.kind \in K \cap L}
  BY <1>1
<1>6. OfKind(K \cap L, ps) = Keep(ps, {x \in SomePart : x.kind \in K \cap L})
  BY OfKindIs
<1> QED BY <1>2, <1>3, <1>4, <1>5, <1>6

MessageKinds == {"text", "image", "image_ref", "thinking", "tool_use", "tool_result"}

MessageTurns ==
  {t \in SomeTurn :
     /\ t.role \in {"user", "assistant", "system"} /\ t.calls = <<>> /\ MessagesTurn(t)
     /\ \A i \in DOMAIN t.parts : t.parts[i].kind \in MessageKinds}

(* A turn that is sent only if something is in it.                         *)
LEMMA MaybeTurn ==
  ASSUME NEW u \in ChatTurns, NEW said,
         said = IF u.parts = <<>> /\ u.calls = <<>> THEN <<>> ELSE <<u>>,
         u.role # "tool"
  PROVE  /\ said \in Seq(ChatTurns)
         /\ \A who \in Sides : Flat(Mapped(said, WordsIn(who))) = TurnWords(who, u)
         /\ Flat(Mapped(said, Exchanges)) = Mapped(u.calls, Did)
         /\ Flat(Mapped(said, ImagesIn(ImageKinds))) = OfKind(ImageKinds, u.parts)
<1>1. u \in SomeTurn
  BY DEF ChatTurns
<1>2. TurnExchange(u) = Mapped(u.calls, Did)
  BY ChatTurnReads
<1>3. CASE u.parts = <<>> /\ u.calls = <<>>
  <2>1. PICK e : e = <<>>
    OBVIOUS
  <2>2. said = e /\ u.parts = e /\ u.calls = e
    BY <1>3, <2>1
  <2>3. e \in Seq(ChatTurns) /\ e \in Seq(SomePart) /\ DOMAIN e = {}
    BY <2>1
  <2>4. \A g : Flat(Mapped(e, g)) = e
    BY Zenon, <2>1, ReadNone
  <2>5. TextOf(e) = e
    <3>1. Joined({"text"}, e) = e
      BY <2>1, <2>3, JoinedNone
    <3> QED BY <3>1 DEF TextOf
  <2>6. \A who \in Sides : TurnWords(who, u) = e
    BY <2>1, <2>2, <2>5, ChatTurnReads
  <2>7. Mapped(e, Did) = e
    BY Zenon, <2>1, MappedEmpty
  <2>8. OfKind(ImageKinds, e) = e
    BY <2>1, <2>3, OfKindNone
  <2> QED BY <2>2, <2>3, <2>4, <2>6, <2>7, <2>8
<1>4. CASE ~ (u.parts = <<>> /\ u.calls = <<>>)
  <2>1. said = <<u>>
    BY <1>4
  <2>2. said \in Seq(ChatTurns)
    BY <2>1
  <2> QED BY <1>1, <1>2, <2>1, <2>2, TurnReads
<1> QED BY <1>3, <1>4

(* The results of a turn, each a message of its own.                       *)
ResultParts == {x \in SomePart : x.kind = "tool_result"}
ToolTurnOf(x) == Turn("tool", <<TextPart(x.text)>>, <<>>, x.id)

LEMMA ToolTurnReads ==
  ASSUME NEW x \in ResultParts
  PROVE  /\ ToolTurnOf(x) \in ChatTurns
         /\ \A who \in Sides : TurnWords(who, ToolTurnOf(x)) = <<>>
         /\ TurnExchange(ToolTurnOf(x)) = <<Did[x]>>
         /\ OfKind(ImageKinds, ToolTurnOf(x).parts) = <<>>
<1>1. PICK kind, none, text, id : kind = "text" /\ none = "" /\ text = x.text /\ id = x.id
  OBVIOUS
<1>2. /\ kind \in Literal /\ none \in Literal /\ id \in Literal /\ text \in Seq(STRING)
      /\ x \in SomePart /\ x.kind = "tool_result"
  <2>1. x \in SomePart /\ x.kind = "tool_result"
    BY DEF ResultParts
  <2>2. x.id \in Literal /\ x.text \in Seq(STRING)
    BY <2>1, PartFields
  <2> QED BY <1>1, <2>1, <2>2, NoLiteral
<1>3. PICK part \in SomePart : part = Part(kind, none, text) /\ part.kind = kind /\ part.text = text
  BY <1>2, PartSays
<1>4. PICK ps : ps = <<part>>
  OBVIOUS
<1>5. ps \in Seq(SomePart) /\ DOMAIN ps = {1} /\ ps[1] = part
  BY <1>3, <1>4
<1>6. PICK u : u = Turn("tool", ps, <<>>, id)
  OBVIOUS
<1>7. u = ToolTurnOf(x)
  BY Zenon, <1>1, <1>3, <1>4, <1>6 DEF ToolTurnOf, TextPart
<1>8. /\ u \in ChatTurns /\ u.parts = ps
      /\ TurnExchange(u) = <<Result(id, TextOf(ps))>>
      /\ \A who \in Sides : TurnWords(who, u) = <<>>
  <2>1. \A i \in DOMAIN ps : ps[i].kind \in {"text", "image"}
    BY <1>1, <1>3, <1>5
  <2> QED BY <1>2, <1>5, <1>6, <2>1, ToolTurn
<1>9. TextOf(ps) = text
  <2>1. kind \in {"text"}
    BY <1>1
  <2>2. Joined({"text"}, ps) = text
    BY <1>3, <1>4, <2>1, JoinedOne
  <2> QED BY <2>2 DEF TextOf
<1>10. OfKind(ImageKinds, ps) = <<>>
  <2>1. \A i \in DOMAIN ps : ps[i].kind \notin ImageKinds
    BY <1>1, <1>3, <1>5 DEF ImageKinds
  <2> QED BY <1>5, <2>1, OfKindNone
<1>11. Did[x] = Result(id, text)
  <2>1. (x.kind \in Results) = TRUE
    BY <1>2 DEF Results
  <2>2. Did[x] = [result |-> x.kind \in Results, id |-> x.id, text |-> x.text]
    BY <1>2, DidSays
  <2> QED BY Zenon, <1>1, <2>1, <2>2 DEF Result
<1> QED BY <1>7, <1>8, <1>9, <1>10, <1>11

LEMMA ResultsTold ==
  ASSUME NEW rs \in Seq(ResultParts), NEW told, told = [i \in DOMAIN rs |-> ToolTurnOf(rs[i])]
  PROVE  /\ told \in Seq(ChatTurns)
         /\ \A who \in Sides : Flat(Mapped(told, WordsIn(who))) = <<>>
         /\ Flat(Mapped(told, Exchanges)) = Mapped(rs, Did)
         /\ Flat(Mapped(told, ImagesIn(ImageKinds))) = <<>>
<1>1. PICK n \in Nat : n = Len(rs) /\ DOMAIN rs = 1..n
  OBVIOUS
<1>2. \A i \in 1..n : rs[i] \in ResultParts
  BY <1>1
<1>3. \A i \in 1..n : told[i] = ToolTurnOf(rs[i])
  BY <1>1
<1>4. \A i \in 1..n : told[i] \in ChatTurns
  BY Zenon, <1>2, <1>3, ToolTurnReads
<1>5. told \in [1..n -> ChatTurns]
  BY <1>1, <1>4
<1>6. told \in Seq(ChatTurns)
  BY <1>5
<1>7. ASSUME NEW g, \A i \in 1..n : g[told[i]] = <<>>
      PROVE  Flat(Mapped(told, g)) = <<>>
  <2>1. PICK m : m = Mapped(told, g)
    OBVIOUS
  <2>2. m = [i \in 1..n |-> g[told[i]]]
    BY <1>5, <2>1 DEF Mapped
  <2>3. PICK e : e = <<>>
    OBVIOUS
  <2>4. \A i \in 1..n : m[i] = e
    BY <1>7, <2>2, <2>3
  <2>5. m \in [1..n -> {e}]
    BY <2>2, <2>4
  <2>6. m \in Seq({e})
    BY <2>5
  <2> QED BY <2>1, <2>3, <2>6, FlatNone
<1>8. ASSUME NEW who \in Sides
      PROVE  Flat(Mapped(told, WordsIn(who))) = <<>>
  <2>1. ASSUME NEW i \in 1..n
        PROVE  WordsIn(who)[told[i]] = <<>>
    <3>1. PICK u \in ChatTurns : u = told[i] /\ TurnWords(who, u) = <<>>
      BY <1>2, <1>3, <1>4, ToolTurnReads
    <3>2. WordsIn(who)[u] = TurnWords(who, u)
      BY Zenon DEF WordsIn, ChatTurns
    <3> QED BY <3>1, <3>2
  <2> QED BY <1>7, <2>1
<1>9. Flat(Mapped(told, ImagesIn(ImageKinds))) = <<>>
  <2>1. ASSUME NEW i \in 1..n
        PROVE  ImagesIn(ImageKinds)[told[i]] = <<>>
    <3>1. PICK u \in ChatTurns : u = told[i] /\ OfKind(ImageKinds, u.parts) = <<>>
      BY <1>2, <1>3, <1>4, ToolTurnReads
    <3>2. ImagesIn(ImageKinds)[u] = OfKind(ImageKinds, u.parts)
      BY Zenon DEF ImagesIn, ChatTurns
    <3> QED BY <3>1, <3>2
  <2> QED BY <1>7, <2>1
<1>10. Flat(Mapped(told, Exchanges)) = Mapped(rs, Did)
  <2>1. PICK f : f = [x \in ResultParts |-> Did[x]]
    OBVIOUS
  <2>2. PICK g : g = [x \in ResultParts |-> <<f[x]>>]
    OBVIOUS
  <2>3. \A x \in ResultParts : f[x] = Did[x] /\ f[x] \in Deed /\ g[x] = <<f[x]>>
    BY <2>1, <2>2, DidSays DEF ResultParts
  <2>4. f \in [ResultParts -> Deed]
    BY <2>1, <2>3
  <2>5. g \in [ResultParts -> Seq(Deed)]
    <3>1. \A x \in ResultParts : <<f[x]>> \in Seq(Deed)
      BY <2>3
    <3> QED BY <2>2, <3>1
  <2>6. Singly(g, f, ResultParts)
    BY <2>3 DEF Singly
  <2>7. Flat(Mapped(rs, g)) = Mapped(rs, f)
    BY <2>4, <2>5, <2>6, FlatSingles
  <2>8. Mapped(rs, f) = Mapped(rs, Did)
    BY <2>3, MappedSame
  <2>9. Mapped(told, Exchanges) = Mapped(rs, g)
    <3>1. ASSUME NEW i \in 1..n
          PROVE  Exchanges[told[i]] = g[rs[i]]
      <4>1. PICK u \in ChatTurns : u = told[i] /\ TurnExchange(u) = <<Did[rs[i]]>>
        BY <1>2, <1>3, <1>4, ToolTurnReads
      <4>2. Exchanges[u] = TurnExchange(u)
        BY Zenon DEF Exchanges, ChatTurns
      <4> QED BY <1>2, <2>3, <4>1, <4>2
    <3>2. Mapped(told, Exchanges) = [i \in 1..n |-> Exchanges[told[i]]]
      BY <1>5 DEF Mapped
    <3>3. Mapped(rs, g) = [i \in 1..n |-> g[rs[i]]]
      BY <1>1 DEF Mapped
    <3> QED BY <3>1, <3>2, <3>3
  <2> QED BY <2>7, <2>8, <2>9
<1> QED BY <1>6, <1>8, <1>9, <1>10

LEMMA ChatTurnsAreTurns ==
  ASSUME NEW ts \in Seq(ChatTurns)
  PROVE  ts \in Seq(SomeTurn)
<1>1. PICK n \in Nat : n = Len(ts) /\ ts \in [1..n -> ChatTurns]
  OBVIOUS
<1>2. \A x \in ChatTurns : x \in SomeTurn
  BY DEF ChatTurns
<1>3. ts \in [1..n -> SomeTurn]
  BY <1>1, <1>2
<1> QED BY <1>3

(* What is left of a Messages turn's parts for the chat message.           *)
LEMMA MessagePartsSay ==
  ASSUME NEW t \in MessageTurns
  PROVE  LET parts == OfKind({"text", "image"}, t.parts)
             calls == OfKind({"tool_use"}, t.parts)
             results == OfKind({"tool_result"}, t.parts)
         IN  /\ TextOf(parts) = WordsOf(t.parts)
             /\ OfKind(ImageKinds, parts) = OfKind(Carried, t.parts)
             /\ calls # <<>> => t.role = "assistant"
             /\ results \in Seq(ResultParts)
             /\ TurnExchange(t) = Mapped(calls, Did) \o Mapped(results, Did)
<1>1. PICK ps \in Seq(SomePart) : ps = t.parts
  BY TurnFields DEF MessageTurns
<1>2. \A i \in DOMAIN ps : ps[i].kind \in MessageKinds
  BY <1>1 DEF MessageTurns
<1>3. PICK parts \in Seq(SomePart) : parts = OfKind({"text", "image"}, ps)
  BY OfKindSays
<1>4. PICK calls \in Seq(SomePart) : calls = OfKind({"tool_use"}, ps)
  BY OfKindSays
<1>5. PICK results \in Seq(SomePart) : results = OfKind({"tool_result"}, ps)
  BY OfKindSays
<1>6. PICK e : e = <<>>
  OBVIOUS
<1>7. TextOf(parts) = WordsOf(ps)
  <2>1. Joined({"text"}, parts) = Joined({"text"} \cap {"text", "image"}, ps)
    BY <1>3, JoinedKept
  <2>2. \A i \in DOMAIN ps : ps[i].kind \in {"text"} \cap {"text", "image"}
                             <=> ps[i].kind \in WordKinds
    BY <1>2 DEF MessageKinds, WordKinds
  <2>3. Joined({"text"} \cap {"text", "image"}, ps) = Joined(WordKinds, ps)
    BY <2>2, JoinedSame
  <2> QED BY <2>1, <2>3, WordsOfSays DEF TextOf
<1>8. OfKind(ImageKinds, parts) = OfKind(Carried, ps)
  <2>1. OfKind(ImageKinds, parts) = OfKind(ImageKinds \cap {"text", "image"}, ps)
    BY <1>3, OfKindKept
  <2>2. \A i \in DOMAIN ps : ps[i].kind \in ImageKinds \cap {"text", "image"}
                             <=> ps[i].kind \in Carried
    BY <1>2 DEF MessageKinds, ImageKinds, Carried
  <2> QED BY <2>1, <2>2, OfKindSame
<1>9. MessagesTurn(t) /\ t \in SomeTurn /\ t.calls = e /\ t.role \in {"user", "assistant", "system"}
  BY <1>6 DEF MessageTurns
<1>10. ASSUME t.role # "assistant"
       PROVE  calls = e
  <2>1. \A i \in DOMAIN ps : ps[i].kind \notin {"tool_use"}
    BY <1>1, <1>9, <1>10 DEF MessagesTurn
  <2> QED BY <1>4, <1>6, <2>1, OfKindNone
<1>11. ASSUME t.role # "user"
       PROVE  results = e
  <2>1. \A i \in DOMAIN ps : ps[i].kind \notin {"tool_result"}
    BY <1>1, <1>9, <1>11 DEF MessagesTurn
  <2> QED BY <1>5, <1>6, <2>1, OfKindNone
<1>12. results \in Seq(ResultParts)
  <2>1. PICK n \in Nat : n = Len(results) /\ results \in [1..n -> SomePart]
    OBVIOUS
  <2>2. \A i \in DOMAIN results : results[i].kind \in {"tool_result"}
    BY <1>5, OfKindSays
  <2>3. results \in [1..n -> ResultParts]
    BY <2>1, <2>2 DEF ResultParts
  <2> QED BY <2>3
<1>13. TurnExchange(t) = Mapped(calls, Did) \o Mapped(results, Did)
  <2>1. PICK a \in Seq(SomePart) : a = OfKind(Deeds, ps)
    BY OfKindSays
  <2>2. ~ Tool(t.role)
    BY <1>9 DEF Tool
  <2>3. Mapped(e, Did) = e
    BY Zenon, <1>6, MappedEmpty
  <2>4. PICK c \in Seq(Deed) : c = Mapped(a, Did)
    BY DidSays, MappedSays
  <2>5. c \o e = c /\ e \o c = c
    BY <1>6
  <2>6. TurnExchange(t) = c
    <3>1. TurnExchange(t) = Mapped(a, Did) \o Mapped(t.calls, Did)
      BY <1>1, <1>9, <2>1, <2>2, ExchangeOfTurn
    <3> QED BY <1>9, <2>3, <2>4, <2>5, <3>1
  <2>7. CASE t.role = "assistant"
    <3>1. results = e
      BY <1>11, <2>7
    <3>2. \A i \in DOMAIN ps : ps[i].kind \in Deeds <=> ps[i].kind \in {"tool_use"}
      <4>1. \A i \in DOMAIN ps : ps[i].kind # "tool_result"
        BY <1>1, <1>9, <2>7 DEF MessagesTurn
      <4> QED BY <1>2, <4>1 DEF MessageKinds, Deeds
    <3>3. a = calls
      BY <1>4, <2>1, <3>2, OfKindSame
    <3> QED BY <2>3, <2>4, <2>5, <2>6, <3>1, <3>3
  <2>8. CASE t.role # "assistant"
    <3>1. calls = e
      BY <1>10, <2>8
    <3>2. \A i \in DOMAIN ps : ps[i].kind \in Deeds <=> ps[i].kind \in {"tool_result"}
      <4>1. \A i \in DOMAIN ps : ps[i].kind # "tool_use"
        BY <1>1, <1>9, <2>8 DEF MessagesTurn
      <4> QED BY <1>2, <4>1 DEF MessageKinds, Deeds
    <3>3. a = results
      BY <1>5, <2>1, <3>2, OfKindSame
    <3> QED BY <2>3, <2>4, <2>5, <2>6, <3>1, <3>3
  <2> QED BY <2>7, <2>8
<1>14. calls # <<>> => t.role = "assistant"
  BY <1>6, <1>10
<1> QED BY <1>1, <1>3, <1>4, <1>5, <1>7, <1>8, <1>12, <1>13, <1>14

LEMMA MessageTurnSays ==
  ASSUME NEW t \in MessageTurns, NEW how, how = "named"
  PROVE  /\ AnthropicTurnToChat(t) \in Seq(ChatTurns)
         /\ Renders(AnthropicTurnToChat(t), t, how, FALSE, FALSE)
<1>1. PICK ps \in Seq(SomePart) : ps = t.parts
  BY TurnFields DEF MessageTurns
<1>2. PICK parts : parts = OfKind({"text", "image"}, ps)
  OBVIOUS
<1>3. PICK calls : calls = OfKind({"tool_use"}, ps)
  OBVIOUS
<1>4. PICK results : results = OfKind({"tool_result"}, ps)
  OBVIOUS
<1>5. /\ TextOf(parts) = WordsOf(ps)
      /\ OfKind(ImageKinds, parts) = OfKind(Carried, ps)
      /\ calls # <<>> => t.role = "assistant"
      /\ results \in Seq(ResultParts)
      /\ TurnExchange(t) = Mapped(calls, Did) \o Mapped(results, Did)
  BY Zenon, <1>1, <1>2, <1>3, <1>4, MessagePartsSay
<1>6. /\ parts \in Seq(SomePart) /\ (\A i \in DOMAIN parts : parts[i].kind \in {"text", "image"})
      /\ calls \in Seq(SomePart) /\ (\A i \in DOMAIN calls : calls[i].kind \in {"tool_use"})
  BY <1>2, <1>3, OfKindSays
<1>7. PICK none, e, role : none = "" /\ e = <<>> /\ role = t.role
  OBVIOUS
<1>26. e = <<>>
  BY <1>7
<1>8. role \in {"user", "assistant", "system"} /\ t \in SomeTurn
  BY <1>7 DEF MessageTurns
<1>9. none \in Literal /\ role \in Literal
  BY <1>7, <1>8, NoLiteral, TurnFields
<1>10. PICK u : u = Turn(role, parts, calls, none)
  OBVIOUS
<1>11. u \in SomeTurn /\ u.role = role /\ u.parts = parts /\ u.calls = calls
  <2>1. parts \in Seq(SomePart) /\ calls \in Seq(SomePart)
    BY <1>6
  <2> QED BY <1>9, <1>10, <2>1, TurnSays
<1>12. u \in ChatTurns /\ u.role # "tool"
  <2>1. role \in ChatRoles /\ role # "tool"
    BY <1>8 DEF ChatRoles
  <2>2. \A i \in DOMAIN calls : calls[i].kind = "tool_use"
    BY <1>6
  <2>3. calls # <<>> => role = "assistant"
    BY <1>5, <1>7
  <2> QED BY <1>6, <1>11, <2>1, <2>2, <2>3 DEF ChatTurns
<1>13. PICK said : said = IF parts = <<>> /\ calls = <<>> THEN <<>> ELSE <<u>>
  OBVIOUS
<1>14. /\ said \in Seq(ChatTurns)
       /\ \A who \in Sides : Flat(Mapped(said, WordsIn(who))) = TurnWords(who, u)
       /\ Flat(Mapped(said, Exchanges)) = Mapped(calls, Did)
       /\ Flat(Mapped(said, ImagesIn(ImageKinds))) = OfKind(ImageKinds, parts)
  <2>1. said = IF u.parts = <<>> /\ u.calls = <<>> THEN <<>> ELSE <<u>>
    BY Zenon, <1>11, <1>13
  <2> QED BY Zenon, <1>11, <1>12, <2>1, MaybeTurn
<1>15. PICK told : told = [i \in DOMAIN results |-> ToolTurnOf(results[i])]
  OBVIOUS
<1>16. /\ told \in Seq(ChatTurns)
       /\ \A who \in Sides : Flat(Mapped(told, WordsIn(who))) = <<>>
       /\ Flat(Mapped(told, Exchanges)) = Mapped(results, Did)
       /\ Flat(Mapped(told, ImagesIn(ImageKinds))) = <<>>
  BY Zenon, <1>5, <1>15, ResultsTold
<1>17. PICK out : out = said \o told
  OBVIOUS
<1>18. AnthropicTurnToChat(t) = out
  BY Zenon, <1>1, <1>2, <1>3, <1>4, <1>7, <1>10, <1>13, <1>15, <1>17
     DEF AnthropicTurnToChat, ToolTurnOf
<1>19. out \in Seq(ChatTurns)
  BY <1>14, <1>16, <1>17
<1>20. said \in Seq(SomeTurn) /\ told \in Seq(SomeTurn)
  BY <1>14, <1>16, ChatTurnsAreTurns
<1>21. ASSUME NEW R, NEW g, Maps(g, SomeTurn, Seq(R))
       PROVE  Flat(Mapped(out, g)) = Flat(Mapped(said, g)) \o Flat(Mapped(told, g))
  BY <1>17, <1>20, <1>21, ReadConcat
<1>22. ASSUME NEW who \in Sides
       PROVE  Flat(Mapped(out, WordsIn(who))) = TurnWords(who, t)
  <2>1. PICK w : w = WordsIn(who) /\ Maps(w, SomeTurn, Seq(STRING))
    BY ObserversSay
  <2>2. Flat(Mapped(out, w)) = Flat(Mapped(said, w)) \o Flat(Mapped(told, w))
    BY <1>21, <2>1
  <2>3. PICK x \in Seq(STRING) : x = TurnWords(who, u)
    BY <1>11, TurnWordsSays
  <2>4. x \o e = x
    BY <1>26
  <2>5. Flat(Mapped(out, w)) = x
    BY <1>7, <1>14, <1>16, <2>1, <2>2, <2>3, <2>4
  <2>6. TurnWords(who, u) = TurnWords(who, t)
    <3>1. ~ Carrier(role)
      BY <1>8 DEF Carrier
    <3>2. TurnWords(who, t) = IF Who(role) = who THEN WordsOf(ps) ELSE <<>>
      BY <1>1, <1>7, <3>1 DEF TurnWords
    <3>3. TurnWords(who, u) = IF Who(role) = who THEN TextOf(parts) ELSE <<>>
      BY <1>11, <1>12, ChatTurnReads
    <3> QED BY <1>5, <3>2, <3>3
  <2> QED BY <2>1, <2>3, <2>5, <2>6
<1>23. Flat(Mapped(out, Exchanges)) = Phrased(TurnExchange(t), how)
  <2>1. Flat(Mapped(out, Exchanges)) = TurnExchange(t)
    <3>1. PICK g : g = Exchanges /\ Maps(g, SomeTurn, Seq(Deed))
      BY ObserversSay
    <3>2. Flat(Mapped(out, g)) = Flat(Mapped(said, g)) \o Flat(Mapped(told, g))
      BY <1>21, <3>1
    <3> QED BY <1>5, <1>14, <1>16, <3>1, <3>2
  <2>2. TurnExchange(t) \in Seq(Deed)
    BY <1>8, ExchangeSays
  <2>3. Phrased(TurnExchange(t), how) = TurnExchange(t)
    BY <2>2, PhrasedSays
  <2> QED BY <2>1, <2>3
<1>24. Len(Flat(Mapped(out, ImagesIn(ImageKinds)))) = Len(OfKind(Carried, t.parts))
  <2>1. PICK g : g = ImagesIn(ImageKinds) /\ Maps(g, SomeTurn, Seq(SomePart))
    BY ObserversSay
  <2>2. Flat(Mapped(out, g)) = Flat(Mapped(said, g)) \o Flat(Mapped(told, g))
    BY <1>21, <2>1
  <2>3. PICK x \in Seq(SomePart) : x = OfKind(ImageKinds, parts)
    BY <1>6, OfKindSays
  <2>4. x \o e = x
    BY <1>26
  <2> QED BY <1>1, <1>5, <1>7, <1>14, <1>16, <2>1, <2>2, <2>3, <2>4
<1>25. Renders(out, t, how, FALSE, FALSE)
  <2>1. \A who \in Sides : Flat(Mapped(out, WordsIn(who))) =
          IF FALSE /\ who = "system" THEN <<>> ELSE TurnWords(who, t)
    BY <1>22
  <2> QED BY <1>23, <1>24, <2>1 DEF Renders
<1> QED BY <1>18, <1>19, <1>25

ItemKinds == {"text", "input_text", "output_text", "input_image", "image_ref", "summary"}
ChatKinds == {"input_text", "output_text", "text", "input_image"}

Normalized(parts) ==
  [i \in DOMAIN parts |->
     IF parts[i].kind = "text" THEN [parts[i] EXCEPT !.kind = "input_text"] ELSE parts[i]]

LEMMA NormalizedSays ==
  ASSUME NEW ps \in Seq(SomePart), \A i \in DOMAIN ps : ps[i].kind \in ItemKinds
  PROVE  /\ Normalized(ps) \in Seq(SomePart) /\ Len(Normalized(ps)) = Len(ps)
         /\ DOMAIN Normalized(ps) = DOMAIN ps
         /\ \A i \in DOMAIN ps :
              /\ Normalized(ps)[i].kind \in ItemKinds
              /\ Normalized(ps)[i].kind \in WordKinds <=> ps[i].kind \in WordKinds
              /\ Normalized(ps)[i].kind = "input_image" <=> ps[i].kind = "input_image"
              /\ Normalized(ps)[i].text = ps[i].text
<1>1. PICK n \in Nat : n = Len(ps) /\ DOMAIN ps = 1..n
  OBVIOUS
<1>2. PICK a : a = Normalized(ps)
  OBVIOUS
<1>3. PICK plain, asked : plain = "text" /\ asked = "input_text"
  OBVIOUS
<1>4. /\ asked \in Literal /\ asked \in ItemKinds /\ asked \in WordKinds /\ plain \in WordKinds
      /\ asked # "input_image" /\ plain # "input_image"
  BY <1>3 DEF Literal, ItemKinds, WordKinds
<1>5. a = [i \in 1..n |-> IF ps[i].kind = plain THEN [ps[i] EXCEPT !.kind = asked] ELSE ps[i]]
  BY Zenon, <1>1, <1>2, <1>3 DEF Normalized
<1>6. \A x \in SomePart : /\ [x EXCEPT !.kind = asked] \in SomePart
                          /\ [x EXCEPT !.kind = asked].kind = asked
                          /\ [x EXCEPT !.kind = asked].text = x.text
  BY <1>4 DEF SomePart
<1>7. ASSUME NEW i \in 1..n
      PROVE  /\ a[i] \in SomePart /\ a[i].kind \in ItemKinds
             /\ a[i].kind \in WordKinds <=> ps[i].kind \in WordKinds
             /\ a[i].kind = "input_image" <=> ps[i].kind = "input_image"
             /\ a[i].text = ps[i].text
  <2>1. PICK x \in SomePart : x = ps[i] /\ x.kind \in ItemKinds
    BY <1>1
  <2>2. CASE x.kind = plain
    <3>1. a[i] = [x EXCEPT !.kind = asked]
      BY <1>5, <2>1, <2>2
    <3>2. a[i] \in SomePart /\ a[i].kind = asked /\ a[i].text = x.text
      BY <1>6, <3>1
    <3> QED BY <1>4, <2>1, <2>2, <3>2
  <2>3. CASE x.kind # plain
    <3>1. a[i] = x
      BY <1>5, <2>1, <2>3
    <3> QED BY <2>1, <3>1
  <2> QED BY <2>2, <2>3
<1>8. a \in [1..n -> SomePart]
  BY <1>5, <1>7
<1>9. a \in Seq(SomePart) /\ Len(a) = n /\ DOMAIN a = 1..n
  BY <1>8
<1> QED BY <1>1, <1>2, <1>7, <1>9

LEMMA ContentSays ==
  ASSUME NEW ps \in Seq(SomePart), \A i \in DOMAIN ps : ps[i].kind \in ItemKinds
  PROVE  LET c == ContentPartsToChat(Normalized(ps))
         IN  /\ c \in Seq(SomePart) /\ (\A i \in DOMAIN c : c[i].kind \in {"text", "image"})
             /\ TextOf(c) = WordsOf(ps)
             /\ Len(OfKind(ImageKinds, c)) = Len(OfKind(Carried, ps))
<1>1. PICK a : a = Normalized(ps)
  OBVIOUS
<1>2. /\ a \in Seq(SomePart) /\ Len(a) = Len(ps) /\ DOMAIN a = DOMAIN ps
      /\ \A i \in DOMAIN ps :
           /\ a[i].kind \in ItemKinds
           /\ a[i].kind \in WordKinds <=> ps[i].kind \in WordKinds
           /\ a[i].kind = "input_image" <=> ps[i].kind = "input_image"
           /\ a[i].text = ps[i].text
  BY Zenon, <1>1, NormalizedSays
<1>3. PICK kept \in Seq(SomePart) :
        kept = OfKind(ChatKinds, a) /\ \A i \in DOMAIN kept : kept[i].kind \in ChatKinds
  BY <1>2, OfKindSays
<1>4. PICK n \in Nat : n = Len(kept) /\ DOMAIN kept = 1..n
  OBVIOUS
<1>5. PICK c : c = ContentPartsToChat(a)
  OBVIOUS
<1>6. c = [i \in 1..n |->
             [kept[i] EXCEPT !.kind = IF @ = "input_image" THEN "image" ELSE "text"]]
  BY Zenon, <1>3, <1>4, <1>5 DEF ContentPartsToChat, ChatKinds
<1>7. PICK image, text : image = "image" /\ text = "text"
  OBVIOUS
<1>8. image \in Literal /\ text \in Literal
  BY <1>7, NoLiteral
<1>9. \A x \in SomePart : \A k \in Literal : /\ [x EXCEPT !.kind = k] \in SomePart
                                             /\ [x EXCEPT !.kind = k].kind = k
                                             /\ [x EXCEPT !.kind = k].text = x.text
  BY DEF SomePart
<1>10. ASSUME NEW i \in 1..n
       PROVE  /\ c[i] \in SomePart /\ c[i].kind \in {"text", "image"}
              /\ c[i].kind \in {"text"} <=> kept[i].kind \in WordKinds
              /\ c[i].kind \in ImageKinds <=> kept[i].kind \in {"input_image"}
              /\ c[i].text = kept[i].text
  <2>1. PICK x \in SomePart : x = kept[i] /\ x.kind \in ChatKinds
    BY <1>3, <1>4
  <2>2. PICK k : k = IF x.kind = "input_image" THEN "image" ELSE "text"
    OBVIOUS
  <2>3. k \in Literal
    BY Zenon, <1>7, <1>8, <2>2
  <2>4. c[i] = [x EXCEPT !.kind = k]
    BY Zenon, <1>6, <2>1, <2>2
  <2>5. c[i] \in SomePart /\ c[i].kind = k /\ c[i].text = x.text
    BY <1>9, <2>3, <2>4
  <2>6. /\ k \in {"text", "image"}
        /\ k \in {"text"} <=> x.kind \in WordKinds
        /\ k \in ImageKinds <=> x.kind \in {"input_image"}
    <3>1. CASE x.kind = "input_image"
      BY <2>2, <3>1 DEF WordKinds, ImageKinds
    <3>2. CASE x.kind # "input_image"
      BY <2>1, <2>2, <3>2 DEF ChatKinds, WordKinds, ImageKinds
    <3> QED BY <3>1, <3>2
  <2>7. c[i].kind \in {"text", "image"}
    BY <2>5, <2>6
  <2>8. c[i].kind \in {"text"} <=> kept[i].kind \in WordKinds
    BY <2>1, <2>5, <2>6
  <2>9. c[i].kind \in ImageKinds <=> kept[i].kind \in {"input_image"}
    BY <2>1, <2>5, <2>6
  <2> QED BY <2>1, <2>5, <2>7, <2>8, <2>9
<1>11. c \in Seq(SomePart) /\ Len(c) = n /\ DOMAIN c = 1..n
  <2>1. c \in [1..n -> SomePart]
    BY <1>6, <1>10
  <2> QED BY <2>1
<1>12. TextOf(c) = WordsOf(ps)
  <2>1. Joined({"text"}, c) = Joined(WordKinds, kept)
    <3>1. DOMAIN c = DOMAIN kept
      BY <1>4, <1>11
    <3>2. \A i \in DOMAIN c : /\ c[i].kind \in {"text"} <=> kept[i].kind \in WordKinds
                              /\ c[i].text = kept[i].text
      BY <1>10, <1>11
    <3> QED BY <3>1, <3>2, JoinedAlike
  <2>2. Joined(WordKinds, kept) = Joined(WordKinds \cap ChatKinds, a)
    BY <1>2, <1>3, JoinedKept
  <2>3. Joined(WordKinds \cap ChatKinds, a) = Joined(WordKinds, ps)
    <3>1. \A i \in DOMAIN a : /\ a[i].kind \in WordKinds \cap ChatKinds <=> ps[i].kind \in WordKinds
                              /\ a[i].text = ps[i].text
      <4>1. WordKinds \cap ChatKinds = WordKinds
        BY DEF WordKinds, ChatKinds
      <4> QED BY <1>2, <4>1
    <3> QED BY <1>2, <3>1, JoinedAlike
  <2> QED BY <2>1, <2>2, <2>3, WordsOfSays DEF TextOf
<1>13. Len(OfKind(ImageKinds, c)) = Len(OfKind(Carried, ps))
  <2>1. Len(OfKind(ImageKinds, c)) = Len(OfKind({"input_image"}, kept))
    <3>1. \A i \in DOMAIN c : c[i].kind \in ImageKinds <=> kept[i].kind \in {"input_image"}
      BY <1>10, <1>11
    <3>2. PICK K, L : K = ImageKinds /\ L = {"input_image"}
      OBVIOUS
    <3>3. \A i \in DOMAIN c : c[i].kind \in K <=> kept[i].kind \in L
      BY Zenon, <3>1, <3>2
    <3>4. c \in Seq(SomePart) /\ kept \in Seq(SomePart) /\ Len(c) = Len(kept)
      BY <1>4, <1>11
    <3>5. Len(OfKind(K, c)) = Len(OfKind(L, kept))
      BY Z3, <3>3, <3>4, OfKindAlike
    <3> QED BY Zenon, <3>2, <3>5
  <2>2. OfKind({"input_image"}, kept) = OfKind({"input_image"} \cap ChatKinds, a)
    BY <1>2, <1>3, OfKindKept
  <2>3. Len(OfKind({"input_image"} \cap ChatKinds, a)) = Len(OfKind(Carried, ps))
    <3>1. \A i \in DOMAIN a : a[i].kind \in {"input_image"} \cap ChatKinds <=> ps[i].kind \in Carried
      <4>1. \A i \in DOMAIN a : a[i].kind = "input_image" <=> ps[i].kind = "input_image"
        BY <1>2
      <4>2. {"input_image"} \cap ChatKinds = {"input_image"}
        BY DEF ChatKinds
      <4>3. \A i \in DOMAIN a : ps[i].kind \in Carried <=> ps[i].kind = "input_image"
        BY <1>2 DEF Carried, ItemKinds
      <4> QED BY <4>1, <4>2, <4>3
    <3>2. PICK K, L : K = {"input_image"} \cap ChatKinds /\ L = Carried
      OBVIOUS
    <3>3. \A i \in DOMAIN a : a[i].kind \in K <=> ps[i].kind \in L
      BY Zenon, <3>1, <3>2
    <3>4. a \in Seq(SomePart) /\ Len(a) = Len(ps)
      BY <1>2
    <3>5. Len(OfKind(K, a)) = Len(OfKind(L, ps))
      BY Z3, <3>3, <3>4, OfKindAlike
    <3> QED BY Zenon, <3>2, <3>5
  <2> QED BY <2>1, <2>2, <2>3
<1>14. \A i \in DOMAIN c : c[i].kind \in {"text", "image"}
  BY <1>10, <1>11
<1> QED BY <1>1, <1>5, <1>11, <1>12, <1>13, <1>14

ItemTurns ==
  {t \in SomeTurn :
     /\ ItemValid(t) /\ t.calls = <<>>
     /\ \A i \in DOMAIN t.parts : t.parts[i].kind \in ItemKinds
     /\ t.role \in {"reasoning", "function_call"} =>
          \A i \in DOMAIN t.parts : t.parts[i].kind # "input_image"}

LEMMA NormalizedItem ==
  ASSUME NEW t \in SomeTurn
  PROVE  /\ NormalizeItem(t).role = t.role /\ NormalizeItem(t).answers = t.answers
         /\ NormalizeItem(t).parts = Normalized(t.parts)
<1>1. PICK ps : ps = Normalized(t.parts)
  OBVIOUS
<1>2. NormalizeItem(t) = [t EXCEPT !.parts = ps]
  BY Zenon, <1>1 DEF NormalizeItem, Normalized
<1> QED BY <1>1, <1>2 DEF SomeTurn

(* An item that is no message has nothing to say of its own, and its parts *)
(* call nothing.                                                           *)
LEMMA ItemReads ==
  ASSUME NEW t \in ItemTurns
  PROVE  /\ t \in SomeTurn /\ t.parts \in Seq(SomePart)
         /\ \A i \in DOMAIN t.parts : t.parts[i].kind \in ItemKinds
         /\ Carrier(t.role) => \A who \in Sides : TurnWords(who, t) = <<>>
         /\ ~ Tool(t.role) => TurnExchange(t) = <<>>
         /\ t.role \in {"reasoning", "function_call"} => OfKind(Carried, t.parts) = <<>>
<1>1. PICK ps \in Seq(SomePart) : ps = t.parts
  BY TurnFields DEF ItemTurns
<1>2. \A i \in DOMAIN ps : ps[i].kind \in ItemKinds
  BY <1>1 DEF ItemTurns
<1>3. t \in SomeTurn
  BY DEF ItemTurns
<1>4. ASSUME Carrier(t.role)
      PROVE  \A who \in Sides : TurnWords(who, t) = <<>>
  BY Zenon, <1>4 DEF TurnWords
<1>5. ASSUME ~ Tool(t.role)
      PROVE  TurnExchange(t) = <<>>
  <2>1. \A i \in DOMAIN ps : ps[i].kind \notin Deeds
    BY <1>2 DEF ItemKinds, Deeds
  <2>2. PICK e : e = <<>>
    OBVIOUS
  <2>3. OfKind(Deeds, ps) = e
    BY <2>1, <2>2, OfKindNone
  <2>4. t.calls = e
    BY <2>2 DEF ItemTurns
  <2>5. TurnExchange(t) = Mapped(e, Did) \o Mapped(e, Did)
    BY <1>1, <1>3, <1>5, <2>3, <2>4, ExchangeOfTurn
  <2>6. Mapped(e, Did) = e
    BY Zenon, <2>2, MappedEmpty
  <2>7. e \o e = e
    BY <2>2
  <2> QED BY <2>2, <2>5, <2>6, <2>7
<1>6. ASSUME t.role \in {"reasoning", "function_call"}
      PROVE  OfKind(Carried, ps) = <<>>
  <2>1. \A i \in DOMAIN ps : ps[i].kind # "input_image"
    BY <1>1, <1>6 DEF ItemTurns
  <2>2. \A i \in DOMAIN ps : ps[i].kind \notin Carried
    BY <1>2, <2>1 DEF ItemKinds, Carried
  <2> QED BY <2>2, OfKindNone
<1> QED BY <1>1, <1>2, <1>3, <1>4, <1>5, <1>6

LEMMA ReasoningSays ==
  ASSUME NEW t \in ItemTurns, t.role = "reasoning", NEW how
  PROVE  Renders(<<>>, t, how, FALSE, FALSE)
<1>1. Carrier(t.role) /\ ~ Tool(t.role)
  BY DEF Carrier, Tool
<1>2. t \in SomeTurn /\ TurnExchange(t) = <<>>
  BY <1>1, ItemReads
<1>3. \A who \in Sides : (FALSE /\ who = "system") \/ TurnWords(who, t) = <<>>
  BY <1>1, ItemReads
<1>4. OfKind(Carried, t.parts) = <<>>
  BY ItemReads
<1> QED BY Zenon, <1>2, <1>3, <1>4, RendersNone

LEMMA CallItemSays ==
  ASSUME NEW t \in ItemTurns, t.role = "function_call", NEW how, how = "named",
         NEW text, text = WordsOf(t.parts)
  PROVE  LET u == Turn("assistant", <<>>, <<Part("tool_use", t.answers, text)>>, "")
         IN  u \in ChatTurns /\ Renders(<<u>>, t, how, FALSE, FALSE)
<1>1. t \in SomeTurn /\ t.parts \in Seq(SomePart)
  BY ItemReads
<1>2. text \in Seq(STRING)
  BY <1>1, WordsOfSays
<1>3. PICK id : id = t.answers
  OBVIOUS
<1>4. PICK kind, none, role, e : kind = "tool_use" /\ none = "" /\ role = "assistant" /\ e = <<>>
  OBVIOUS
<1>5. kind \in Literal /\ none \in Literal /\ role \in Literal /\ id \in Literal
  BY <1>1, <1>3, <1>4, NoLiteral, TurnFields DEF Literal
<1>6. e \in Seq(SomePart) /\ Len(e) = 0 /\ DOMAIN e = {}
  <2>1. e = <<>>
    BY <1>4
  <2> QED BY <2>1
<1>7. PICK call : call = Part(kind, id, text)
  OBVIOUS
<1>8. call \in SomePart /\ call.kind = kind /\ call.id = id /\ call.text = text
  BY <1>2, <1>5, <1>7, PartSays
<1>9. PICK calls : calls = <<call>>
  OBVIOUS
<1>10. calls \in Seq(SomePart) /\ DOMAIN calls = {1} /\ calls[1] = call
  BY <1>8, <1>9
<1>11. PICK u : u = Turn(role, e, calls, none)
  OBVIOUS
<1>12. u \in SomeTurn /\ u.role = role /\ u.parts = e /\ u.calls = calls
  <2>1. e \in Seq(SomePart) /\ calls \in Seq(SomePart)
    BY <1>6, <1>10
  <2> QED BY <1>5, <1>11, <2>1, TurnSays
<1>13. u \in ChatTurns
  <2>1. role \in ChatRoles
    BY <1>4 DEF ChatRoles
  <2>2. \A i \in DOMAIN calls : calls[i].kind = "tool_use"
    BY <1>4, <1>8, <1>10
  <2> QED BY <1>4, <1>6, <1>12, <2>1, <2>2 DEF ChatTurns
<1>14. role # "tool"
  BY <1>4
<1>15. TextOf(e) = e
  <2>1. e = <<>>
    BY <1>4
  <2>2. Joined({"text"}, e) = e
    BY <1>6, <2>1, JoinedNone
  <2> QED BY <2>2 DEF TextOf
<1>16. \A who \in Sides : TurnWords(who, u) = e
  <2>1. e = <<>>
    BY <1>4
  <2> QED BY <1>12, <1>13, <1>15, <2>1, ChatTurnReads
<1>17. \A who \in Sides : TurnWords(who, t) = e
  <2>1. Carrier(t.role)
    BY DEF Carrier
  <2>2. e = <<>>
    BY <1>4
  <2> QED BY <2>1, <2>2, ItemReads
<1>18. TurnExchange(u) = <<Did[call]>>
  <2>1. TurnExchange(u) = Mapped(calls, Did)
    BY <1>12, <1>13, <1>14, ChatTurnReads
  <2> QED BY <1>9, <2>1, MappedOne
<1>19. TurnExchange(t) = <<Did[call]>>
  <2>1. Tool(t.role)
    BY DEF Tool
  <2>2. (t.role # "function_call") = FALSE
    OBVIOUS
  <2>3. TurnExchange(t) = << [result |-> t.role # "function_call", id |-> t.answers,
                               text |-> WordsOf(t.parts)] >>
    BY <1>1, <2>1, ExchangeOfTool
  <2>4. (call.kind \in Results) = FALSE
    <3>1. call.kind = "tool_use"
      BY <1>4, <1>8
    <3>2. call.kind \notin Results
      BY <3>1 DEF Results
    <3> QED BY <3>2
  <2>5. Did[call] = [result |-> call.kind \in Results, id |-> call.id, text |-> call.text]
    BY <1>8, DidSays
  <2>6. Did[call] = [result |-> FALSE, id |-> id, text |-> text]
    BY Zenon, <1>8, <2>4, <2>5
  <2> QED BY Zenon, <1>3, <2>2, <2>3, <2>6
<1>20. TurnExchange(u) = Phrased(TurnExchange(t), how)
  <2>1. TurnExchange(t) \in Seq(Deed)
    BY <1>1, ExchangeSays
  <2> QED BY <1>18, <1>19, <2>1, PhrasedSays
<1>21. OfKind(Carried, t.parts) = e /\ OfKind(ImageKinds, e) = e
  <2>1. e = <<>>
    BY <1>4
  <2>2. OfKind(Carried, t.parts) = e
    BY <2>1, ItemReads
  <2>3. OfKind(ImageKinds, e) = e
    BY <1>6, <2>1, OfKindNone
  <2> QED BY <2>2, <2>3
<1>22. Renders(<<u>>, t, how, FALSE, FALSE)
  BY <1>12, <1>16, <1>17, <1>20, <1>21, RendersOne
<1> QED BY Zenon, <1>3, <1>4, <1>7, <1>9, <1>11, <1>13, <1>22

LEMMA OutputItemSays ==
  ASSUME NEW t \in ItemTurns, t.role = "function_call_output", NEW how,
         how = "named"
  PROVE  LET u == Turn("tool", ContentPartsToChat(Normalized(t.parts)), <<>>, t.answers)
         IN  u \in ChatTurns /\ Renders(<<u>>, t, how, FALSE, FALSE)
<1>1. /\ t \in SomeTurn /\ t.parts \in Seq(SomePart)
      /\ \A i \in DOMAIN t.parts : t.parts[i].kind \in ItemKinds
  BY ItemReads
<1>2. PICK c : c = ContentPartsToChat(Normalized(t.parts))
  OBVIOUS
<1>3. /\ c \in Seq(SomePart) /\ (\A i \in DOMAIN c : c[i].kind \in {"text", "image"})
      /\ TextOf(c) = WordsOf(t.parts)
      /\ Len(OfKind(ImageKinds, c)) = Len(OfKind(Carried, t.parts))
  BY Zenon, <1>1, <1>2, ContentSays
<1>4. PICK id \in Literal : id = t.answers
  BY <1>1, TurnFields
<1>5. PICK u : u = Turn("tool", c, <<>>, id)
  OBVIOUS
<1>6. /\ u \in ChatTurns /\ u.parts = c
      /\ TurnExchange(u) = <<Result(id, TextOf(c))>>
      /\ \A who \in Sides : TurnWords(who, u) = <<>>
  BY Zenon, <1>3, <1>5, ToolTurn
<1>7. TurnExchange(t) = <<Result(id, TextOf(c))>>
  <2>1. Tool(t.role)
    BY DEF Tool
  <2>2. (t.role # "function_call") = TRUE
    OBVIOUS
  <2>3. TurnExchange(t) = << [result |-> t.role # "function_call", id |-> t.answers,
                               text |-> WordsOf(t.parts)] >>
    BY <1>1, <2>1, ExchangeOfTool
  <2> QED BY Zenon, <1>3, <1>4, <2>2, <2>3 DEF Result
<1>8. \A who \in Sides : TurnWords(who, u) = TurnWords(who, t)
  <2>1. Carrier(t.role)
    BY DEF Carrier
  <2> QED BY <1>6, <2>1, ItemReads
<1>9. TurnExchange(u) = Phrased(TurnExchange(t), how)
  BY <1>6, <1>7, PhrasedResult
<1>10. u \in SomeTurn
  BY <1>6 DEF ChatTurns
<1>11. Renders(<<u>>, t, how, FALSE, FALSE)
  BY <1>3, <1>6, <1>8, <1>9, <1>10, RendersOne
<1> QED BY <1>2, <1>4, <1>5, <1>6, <1>11

LEMMA MessageItemSays ==
  ASSUME NEW t \in ItemTurns, t.role \in {"user", "assistant", "system", "developer"}, NEW how,
         how = "named"
  PROVE  LET u == Turn(IF t.role = "developer" THEN "system" ELSE t.role,
                       ContentPartsToChat(Normalized(t.parts)), <<>>, "")
         IN  u \in ChatTurns /\ Renders(<<u>>, t, how, FALSE, FALSE)
<1>1. /\ t \in SomeTurn /\ t.parts \in Seq(SomePart)
      /\ \A i \in DOMAIN t.parts : t.parts[i].kind \in ItemKinds
  BY ItemReads
<1>2. PICK c : c = ContentPartsToChat(Normalized(t.parts))
  OBVIOUS
<1>3. /\ c \in Seq(SomePart) /\ (\A i \in DOMAIN c : c[i].kind \in {"text", "image"})
      /\ TextOf(c) = WordsOf(t.parts)
      /\ Len(OfKind(ImageKinds, c)) = Len(OfKind(Carried, t.parts))
  BY Zenon, <1>1, <1>2, ContentSays
<1>4. PICK role : role = IF t.role = "developer" THEN "system" ELSE t.role
  OBVIOUS
<1>5. /\ role \in {"user", "assistant", "system"} /\ role \in Literal /\ role \in ChatRoles
      /\ role # "tool" /\ Who(role) = Who(t.role) /\ ~ Carrier(t.role) /\ ~ Tool(t.role)
  <2>1. role \in {"user", "assistant", "system"}
    BY <1>4
  <2>2. Who(role) = Who(t.role)
    BY <1>4 DEF Who
  <2>3. ~ Carrier(t.role) /\ ~ Tool(t.role)
    BY DEF Carrier, Tool
  <2>4. role \in Literal /\ role \in ChatRoles /\ role # "tool"
    BY <2>1 DEF Literal, ChatRoles
  <2> QED BY <2>1, <2>2, <2>3, <2>4
<1>6. PICK e : e = <<>>
  OBVIOUS
<1>7. e \in Seq(SomePart) /\ DOMAIN e = {}
  BY <1>6
<1>8. PICK none : none = ""
  OBVIOUS
<1>9. none \in Literal
  BY <1>8, NoLiteral
<1>10. PICK u : u = Turn(role, c, e, none)
  OBVIOUS
<1>11. u \in SomeTurn /\ u.role = role /\ u.parts = c /\ u.calls = e
  <2>1. role \in Literal /\ c \in Seq(SomePart) /\ e \in Seq(SomePart)
    BY <1>3, <1>5, <1>7
  <2> QED BY <1>9, <1>10, <2>1, TurnSays
<1>12. u \in ChatTurns
  BY <1>3, <1>5, <1>6, <1>7, <1>11 DEF ChatTurns
<1>13. \A who \in Sides : TurnWords(who, u) = TurnWords(who, t)
  <2>1. \A who \in Sides : TurnWords(who, u) = IF Who(role) = who THEN TextOf(c) ELSE <<>>
    BY <1>5, <1>11, <1>12, ChatTurnReads
  <2>2. \A who \in Sides : TurnWords(who, t) =
          IF Who(t.role) = who THEN WordsOf(t.parts) ELSE <<>>
    BY <1>5 DEF TurnWords
  <2> QED BY <1>3, <1>5, <2>1, <2>2
<1>14. TurnExchange(u) = Phrased(TurnExchange(t), how)
  <2>1. TurnExchange(u) = Mapped(e, Did)
    BY <1>5, <1>11, <1>12, ChatTurnReads
  <2>2. Mapped(e, Did) = e
    BY Zenon, <1>6, MappedEmpty
  <2>3. TurnExchange(t) = e
    BY <1>5, <1>6, ItemReads
  <2> QED BY <1>6, <2>1, <2>2, <2>3, PhrasedNone
<1>15. Renders(<<u>>, t, how, FALSE, FALSE)
  BY <1>3, <1>11, <1>13, <1>14, RendersOne
<1> QED BY Zenon, <1>2, <1>4, <1>6, <1>8, <1>10, <1>12, <1>15

LEMMA ItemTurnSays ==
  ASSUME NEW t \in ItemTurns, NEW how, how = "named"
  PROVE  /\ InputItemToChat(NormalizeItem(t)) \in Seq(ChatTurns)
         /\ Renders(InputItemToChat(NormalizeItem(t)), t, how, FALSE, FALSE)
<1>1. /\ t \in SomeTurn /\ t.parts \in Seq(SomePart)
      /\ \A i \in DOMAIN t.parts : t.parts[i].kind \in ItemKinds
  BY ItemReads
<1>2. PICK item : item = NormalizeItem(t)
  OBVIOUS
<1>3. item.role = t.role /\ item.answers = t.answers /\ item.parts = Normalized(t.parts)
  BY <1>1, <1>2, NormalizedItem
<1>4. PICK out : out = InputItemToChat(item)
  OBVIOUS
<1>5. t.role \in {"user", "assistant", "system", "developer", "reasoning", "function_call",
                  "function_call_output"}
  BY DEF ItemTurns, ItemValid
<1>6. CASE t.role = "reasoning"
  <2>1. out = <<>>
    BY Zenon, <1>3, <1>4, <1>6 DEF InputItemToChat
  <2>2. Renders(<<>>, t, how, FALSE, FALSE)
    BY Zenon, <1>6, ReasoningSays
  <2>3. PICK e : e = <<>>
    OBVIOUS
  <2>4. e \in Seq(ChatTurns)
    BY <2>3
  <2> QED BY <1>2, <1>4, <2>1, <2>2, <2>3, <2>4
<1>7. CASE t.role = "function_call"
  <2>1. PICK text : text = WordsOf(t.parts)
    OBVIOUS
  <2>2. text = TextOf(ContentPartsToChat(item.parts))
    BY Zenon, <1>1, <1>3, <2>1, ContentSays
  <2>3. PICK u : u = Turn("assistant", <<>>, <<Part("tool_use", t.answers, text)>>, "")
    OBVIOUS
  <2>4. u \in ChatTurns /\ Renders(<<u>>, t, how, FALSE, FALSE)
    BY Zenon, <1>7, <2>1, <2>3, CallItemSays
  <2>5. item.role # "reasoning" /\ item.role = "function_call"
    BY <1>3, <1>7
  <2>6. out = <<u>>
    BY Zenon, <1>3, <1>4, <2>2, <2>3, <2>5 DEF InputItemToChat
  <2>7. <<u>> \in Seq(ChatTurns)
    BY <2>4
  <2> QED BY <1>2, <1>4, <2>4, <2>6, <2>7
<1>8. CASE t.role = "function_call_output"
  <2>1. PICK u : u = Turn("tool", ContentPartsToChat(Normalized(t.parts)), <<>>, t.answers)
    OBVIOUS
  <2>2. u \in ChatTurns /\ Renders(<<u>>, t, how, FALSE, FALSE)
    BY Zenon, <1>8, <2>1, OutputItemSays
  <2>3. /\ item.role # "reasoning" /\ item.role # "function_call"
        /\ item.role = "function_call_output"
    BY <1>3, <1>8
  <2>4. out = <<u>>
    BY Zenon, <1>3, <1>4, <2>1, <2>3 DEF InputItemToChat
  <2>5. <<u>> \in Seq(ChatTurns)
    BY <2>2
  <2> QED BY <1>2, <1>4, <2>2, <2>4, <2>5
<1>9. CASE t.role \in {"user", "assistant", "system", "developer"}
  <2>1. PICK u : u = Turn(IF t.role = "developer" THEN "system" ELSE t.role,
                          ContentPartsToChat(Normalized(t.parts)), <<>>, "")
    OBVIOUS
  <2>2. u \in ChatTurns /\ Renders(<<u>>, t, how, FALSE, FALSE)
    BY Zenon, <1>9, <2>1, MessageItemSays
  <2>3. /\ item.role # "reasoning" /\ item.role # "function_call"
        /\ item.role # "function_call_output"
    BY <1>3, <1>9
  <2>4. out = <<u>>
    BY Zenon, <1>3, <1>4, <2>1, <2>3 DEF InputItemToChat
  <2>5. <<u>> \in Seq(ChatTurns)
    BY <2>2
  <2> QED BY <1>2, <1>4, <2>2, <2>4, <2>5
<1> QED BY <1>5, <1>6, <1>7, <1>8, <1>9

------------------------------------------------------------------------------
(* Bodies translated                                                       *)

Named(p) == p \notin {"google", "ollama"}

(* The limits the client set.                                              *)
Bounded(s, b) ==
  /\ b.maxTokens # 0 => s.maxTokens = b.maxTokens
  /\ s.temperature = b.temperature

(* ... with k images.                                                      *)
Says(s, b, how, k) ==
  /\ \A who \in Sides : Words(who, s) = Words(who, b)
  /\ Exchange(s) = Phrased(Exchange(b), how)
  /\ Len(Images(s)) = k
  /\ Bounded(s, b)

ChatBody(b) == b.turns \in Seq(ChatTurns) /\ b.system = <<>>

LEMMA BodyReads ==
  ASSUME NEW b, b.turns \in Seq(SomeTurn)
  PROVE  /\ \A who : Flat(Mapped(b.turns, WordsIn(who))) \in Seq(STRING)
         /\ Exchange(b) \in Seq(Deed)
<1>1. PICK ts \in Seq(SomeTurn) : ts = b.turns
  OBVIOUS
<1>2. ASSUME NEW who
      PROVE  Flat(Mapped(ts, WordsIn(who))) \in Seq(STRING)
  <2>1. WordsIn(who) \in [SomeTurn -> Seq(STRING)]
    BY ObserversSay DEF Maps
  <2>2. Mapped(ts, WordsIn(who)) \in Seq(Seq(STRING))
    BY <2>1, MappedSays
  <2> QED BY <2>2, FlatSays
<1>3. Flat(Mapped(ts, Exchanges)) \in Seq(Deed)
  <2>1. Exchanges \in [SomeTurn -> Seq(Deed)]
    BY ObserversSay DEF Maps
  <2>2. Mapped(ts, Exchanges) \in Seq(Seq(Deed))
    BY <2>1, MappedSays
  <2> QED BY <2>2, FlatSays
<1>4. Exchange(b) = Flat(Mapped(b.turns, Exchanges))
  BY BodySays
<1> QED BY Zenon, <1>1, <1>2, <1>3, <1>4

LEMMA SidesOfTurns ==
  ASSUME NEW b, b.turns \in Seq(SomeTurn), NEW who, who # "system"
  PROVE  Words(who, b) = Flat(Mapped(b.turns, WordsIn(who)))
<1>1. PICK x \in Seq(STRING) : x = Flat(Mapped(b.turns, WordsIn(who)))
  BY BodyReads
<1>2. Words(who, b) = <<>> \o x
  <2>1. Words(who, b) = (IF who = "system" THEN WordsOf(b.system) ELSE <<>>)
                                     \o Flat(Mapped(b.turns, WordsIn(who)))
    BY BodySays
  <2> QED BY Zenon, <1>1, <2>1
<1>3. <<>> \o x = x
  OBVIOUS
<1> QED BY <1>1, <1>2, <1>3

LEMMA SystemOfBody ==
  ASSUME NEW b, b.turns \in Seq(SomeTurn)
  PROVE  Words("system", b) = WordsOf(b.system) \o Flat(Mapped(b.turns, WordsIn("system")))
<1>1. PICK who : who = "system"
  OBVIOUS
<1>2. Words(who, b) = (IF who = "system" THEN WordsOf(b.system) ELSE <<>>)
                                     \o Flat(Mapped(b.turns, WordsIn(who)))
  BY BodySays
<1> QED BY Zenon, <1>1, <1>2

(* From the words of the sides to those of the body.                       *)
LEMMA BodiesSay ==
  ASSUME NEW s, s.turns \in Seq(SomeTurn), NEW b, b.turns \in Seq(SomeTurn), NEW how,
         NEW hoists, TurnsSay(s.turns, b.turns, how, hoists, TRUE),
         Words("system", s) = Words("system", b), Bounded(s, b)
  PROVE  Says(s, b, how, 0)
<1>1. ASSUME NEW who \in Sides
      PROVE  Words(who, s) = Words(who, b)
  <2>1. CASE who = "system"
    BY Zenon, <2>1
  <2>2. CASE who # "system"
    <3>1. Flat(Mapped(s.turns, WordsIn(who))) = Flat(Mapped(b.turns, WordsIn(who)))
      BY Zenon, <2>2 DEF TurnsSay
    <3> QED BY Zenon, <2>2, <3>1, SidesOfTurns
  <2> QED BY <2>1, <2>2
<1>2. Exchange(s) = Phrased(Exchange(b), how)
  <2>1. Flat(Mapped(s.turns, Exchanges)) = Phrased(Flat(Mapped(b.turns, Exchanges)), how)
    BY Zenon DEF TurnsSay
  <2>2. Exchange(s) = Flat(Mapped(s.turns, Exchanges))
    BY BodySays
  <2>3. Exchange(b) = Flat(Mapped(b.turns, Exchanges))
    BY BodySays
  <2> QED BY Zenon, <2>1, <2>2, <2>3
<1>3. Len(Images(s)) = 0
  <2>1. Len(Flat(Mapped(s.turns, ImagesIn(ImageKinds)))) =
          IF TRUE THEN 0 ELSE Len(Flat(Mapped(b.turns, ImagesIn(Carried))))
    BY Zenon DEF TurnsSay
  <2>2. Images(s) = Flat(Mapped(s.turns, ImagesIn(ImageKinds)))
    BY BodySays
  <2> QED BY Zenon, <2>1, <2>2
<1> QED BY Zenon, <1>1, <1>2, <1>3 DEF Says

(* A body whose calls and results have their names is translated again.    *)
LEMMA SaysAgain ==
  ASSUME NEW b, b.turns \in Seq(SomeTurn), NEW m, NEW s, NEW how, NEW k, NEW j,
         Says(m, b, "named", k), Says(s, m, how, j)
  PROVE  Says(s, b, how, j)
<1>1. Exchange(m) = Exchange(b)
  <2>1. PICK n : n = "named"
    OBVIOUS
  <2>2. Exchange(b) \in Seq(Deed)
    BY BodyReads
  <2>3. Phrased(Exchange(b), n) = Exchange(b)
    BY <2>1, <2>2, PhrasedSays
  <2> QED BY Zenon, <2>1, <2>3 DEF Says
<1>2. \A who \in Sides : Words(who, s) = Words(who, b)
  BY Zenon DEF Says
<1>3. Exchange(s) = Phrased(Exchange(b), how)
  BY Zenon, <1>1 DEF Says
<1>4. Len(Images(s)) = j
  BY Zenon DEF Says
<1>5. Bounded(s, b)
  BY Zenon DEF Says, Bounded
<1> QED BY Zenon, <1>2, <1>3, <1>4, <1>5 DEF Says

(* A body that is sent as it is.                                           *)
LEMMA SaysItself ==
  ASSUME NEW b, b.turns \in Seq(SomeTurn), NEW s, s.turns = b.turns,
         s.system = b.system, Bounded(s, b)
  PROVE  Says(s, b, "named", Len(Images(b)))
<1>1. \A who : Words(who, s) = Words(who, b)
  BY Zenon DEF Words
<1>2. Exchange(s) = Exchange(b) /\ Images(s) = Images(b)
  BY Zenon DEF Exchange, Images, Pictures
<1>3. PICK n : n = "named"
  OBVIOUS
<1>4. Phrased(Exchange(b), n) = Exchange(b)
  <2>1. Exchange(b) \in Seq(Deed)
    BY BodyReads
  <2> QED BY <1>3, <2>1, PhrasedSays
<1> QED BY Zenon, <1>1, <1>2, <1>3, <1>4 DEF Says

LEMMA NoWords == WordsOf(<<>>) = <<>>
<1>1. PICK e : e = <<>>
  OBVIOUS
<1>2. e \in Seq(SomePart) /\ DOMAIN e = {}
  BY <1>1
<1>3. Joined(WordKinds, e) = <<>>
  BY <1>2, JoinedNone
<1> QED BY <1>1, <1>2, <1>3, WordsOfSays

(* System text that becomes the first turn.                                *)
LEMMA FrontSays ==
  ASSUME NEW text \in Seq(STRING), NEW front, front = SystemMessage(text)
  PROVE  /\ front \in Seq(ChatTurns)
         /\ \A who \in Sides : Flat(Mapped(front, WordsIn(who))) = IF who = "system" THEN text ELSE <<>>
         /\ Flat(Mapped(front, Exchanges)) = <<>>
         /\ Flat(Mapped(front, ImagesIn(ImageKinds))) = <<>>
<1>1. CASE text = <<>>
  <2>1. front = <<>>
    BY <1>1 DEF SystemMessage
  <2>2. \A g : Flat(Mapped(front, g)) = <<>>
    BY Zenon, <2>1, ReadNone
  <2>3. front \in Seq(ChatTurns)
    BY <2>1
  <2> QED BY Zenon, <1>1, <2>2, <2>3
<1>2. CASE text # <<>>
  <2>1. PICK u : u = Turn("system", <<TextPart(text)>>, <<>>, "")
    OBVIOUS
  <2>2. front = <<u>>
    BY Zenon, <1>2, <2>1 DEF SystemMessage
  <2>3. PICK role : role = "system"
    OBVIOUS
  <2>4. role \in Literal /\ role \in ChatRoles /\ role # "tool" /\ Who(role) = "system"
    BY <2>3 DEF Literal, ChatRoles, Who
  <2>5. /\ u \in ChatTurns /\ OfKind(ImageKinds, u.parts) = <<>> /\ TurnExchange(u) = <<>>
        /\ \A who \in Sides : TurnWords(who, u) = IF Who(role) = who THEN text ELSE <<>>
    BY Zenon, <2>1, <2>3, <2>4, TextTurn
  <2>6. u \in SomeTurn
    BY <2>5 DEF ChatTurns
  <2>7. /\ \A who : Flat(Mapped(front, WordsIn(who))) = TurnWords(who, u)
        /\ Flat(Mapped(front, Exchanges)) = TurnExchange(u)
        /\ Flat(Mapped(front, ImagesIn(ImageKinds))) = OfKind(ImageKinds, u.parts)
    BY Zenon, <2>2, <2>6, TurnReads
  <2>8. front \in Seq(ChatTurns)
    BY <2>2, <2>5
  <2>9. ASSUME NEW who \in Sides
        PROVE  Flat(Mapped(front, WordsIn(who))) = IF who = "system" THEN text ELSE <<>>
    BY Zenon, <2>4, <2>5, <2>7
  <2> QED BY Zenon, <2>5, <2>7, <2>8, <2>9
<1> QED BY <1>1, <1>2

(* What is read off one sequence of turns after another.                   *)
ReadsAs(g, j, s, t) == Flat(Mapped(j, g)) = Flat(Mapped(s, g)) \o Flat(Mapped(t, g))

LEMMA ReadBoth ==
  ASSUME NEW s \in Seq(SomeTurn), NEW t \in Seq(SomeTurn), NEW j, j = s \o t
  PROVE  /\ \A who : ReadsAs(WordsIn(who), j, s, t)
         /\ ReadsAs(Exchanges, j, s, t) /\ ReadsAs(ImagesIn(ImageKinds), j, s, t)
<1>1. ASSUME NEW R, NEW g, Maps(g, SomeTurn, Seq(R))
      PROVE  ReadsAs(g, j, s, t)
  <2>1. Flat(Mapped(s \o t, g)) = Flat(Mapped(s, g)) \o Flat(Mapped(t, g))
    BY <1>1, ReadConcat
  <2> QED BY Zenon, <2>1 DEF ReadsAs
<1>2. ASSUME NEW who PROVE ReadsAs(WordsIn(who), j, s, t)
  <2>1. Maps(WordsIn(who), SomeTurn, Seq(STRING))
    BY ObserversSay
  <2> QED BY Zenon, <1>1, <2>1
<1>3. ReadsAs(Exchanges, j, s, t)
  <2>1. Maps(Exchanges, SomeTurn, Seq(Deed))
    BY ObserversSay
  <2> QED BY Zenon, <1>1, <2>1
<1>4. ReadsAs(ImagesIn(ImageKinds), j, s, t)
  <2>1. Maps(ImagesIn(ImageKinds), SomeTurn, Seq(SomePart))
    BY ObserversSay
  <2> QED BY Zenon, <1>1, <2>1
<1> QED BY Zenon, <1>2, <1>3, <1>4

(* Nothing, and then the turns.                                            *)
LEMMA ReadSecond ==
  ASSUME NEW s \in Seq(SomeTurn), NEW t \in Seq(SomeTurn), NEW j, NEW R, NEW g,
         Maps(g, SomeTurn, Seq(R)), ReadsAs(g, j, s, t), Flat(Mapped(s, g)) = <<>>
  PROVE  Flat(Mapped(j, g)) = Flat(Mapped(t, g))
<1>1. g \in [SomeTurn -> Seq(R)]
  BY DEF Maps
<1>2. Mapped(t, g) \in Seq(Seq(R))
  BY <1>1, MappedSays
<1>3. PICK x \in Seq(R) : x = Flat(Mapped(t, g))
  BY <1>2, FlatSays
<1>4. Flat(Mapped(j, g)) = <<>> \o x
  BY Zenon, <1>3 DEF ReadsAs
<1>5. <<>> \o x = x
  OBVIOUS
<1> QED BY Zenon, <1>3, <1>4, <1>5

(* The second's is all there is.                                           *)
Reads(g, j, t) == Flat(Mapped(j, g)) = Flat(Mapped(t, g))
Silent(g, s) == Flat(Mapped(s, g)) = <<>>

LEMMA ReadsSecond ==
  ASSUME NEW s \in Seq(SomeTurn), NEW t \in Seq(SomeTurn), NEW j, j = s \o t
  PROVE  /\ \A who : Silent(WordsIn(who), s) => Reads(WordsIn(who), j, t)
         /\ Silent(Exchanges, s) => Reads(Exchanges, j, t)
         /\ Silent(ImagesIn(ImageKinds), s) => Reads(ImagesIn(ImageKinds), j, t)
<1>1. ASSUME NEW R, NEW g, Maps(g, SomeTurn, Seq(R)), ReadsAs(g, j, s, t), Silent(g, s)
      PROVE  Reads(g, j, t)
  <2>1. Flat(Mapped(s, g)) = <<>>
    BY Zenon, <1>1 DEF Silent
  <2>2. Flat(Mapped(j, g)) = Flat(Mapped(t, g))
    BY <1>1, <2>1, ReadSecond
  <2> QED BY Zenon, <2>2 DEF Reads
<1>2. /\ \A who : ReadsAs(WordsIn(who), j, s, t)
      /\ ReadsAs(Exchanges, j, s, t) /\ ReadsAs(ImagesIn(ImageKinds), j, s, t)
  BY Zenon, ReadBoth
<1>3. ASSUME NEW who, Silent(WordsIn(who), s) PROVE Reads(WordsIn(who), j, t)
  <2>1. Maps(WordsIn(who), SomeTurn, Seq(STRING))
    BY ObserversSay
  <2> QED BY Zenon, <1>1, <1>2, <1>3, <2>1
<1>4. ASSUME Silent(Exchanges, s) PROVE Reads(Exchanges, j, t)
  <2>1. Maps(Exchanges, SomeTurn, Seq(Deed))
    BY ObserversSay
  <2> QED BY Zenon, <1>1, <1>2, <1>4, <2>1
<1>5. ASSUME Silent(ImagesIn(ImageKinds), s) PROVE Reads(ImagesIn(ImageKinds), j, t)
  <2>1. Maps(ImagesIn(ImageKinds), SomeTurn, Seq(SomePart))
    BY ObserversSay
  <2> QED BY Zenon, <1>1, <1>2, <1>5, <2>1
<1> QED BY Zenon, <1>3, <1>4, <1>5

(* In front of turns that say what the body's say, but for its system text. *)
LEMMA FrontedSays ==
  ASSUME NEW b, b.turns \in Seq(SomeTurn), WordsOf(b.system) \in Seq(STRING),
         NEW m, NEW front, front = SystemMessage(WordsOf(b.system)),
         NEW out \in Seq(ChatTurns), m.turns = front \o out, m.system = <<>>,
         TurnsSay(out, b.turns, "named", FALSE, FALSE), Bounded(m, b)
  PROVE  ChatBody(m) /\ Says(m, b, "named", Len(Pictures(Carried, b)))
<1>1. /\ front \in Seq(ChatTurns)
      /\ \A who \in Sides : Flat(Mapped(front, WordsIn(who))) =
                              IF who = "system" THEN WordsOf(b.system) ELSE <<>>
      /\ Flat(Mapped(front, Exchanges)) = <<>>
      /\ Flat(Mapped(front, ImagesIn(ImageKinds))) = <<>>
  BY FrontSays
<1>2. m.turns \in Seq(ChatTurns)
  BY <1>1
<1>3. ChatBody(m)
  BY <1>2 DEF ChatBody
<1>4. front \in Seq(SomeTurn) /\ out \in Seq(SomeTurn) /\ m.turns \in Seq(SomeTurn)
  BY Zenon, <1>1, <1>2, ChatTurnsAreTurns
<1>5. /\ \A who : ReadsAs(WordsIn(who), m.turns, front, out)
      /\ ReadsAs(Exchanges, m.turns, front, out) /\ ReadsAs(ImagesIn(ImageKinds), m.turns, front, out)
  BY Zenon, <1>4, ReadBoth
<1>6. /\ \A who : Silent(WordsIn(who), front) => Reads(WordsIn(who), m.turns, out)
      /\ Silent(Exchanges, front) => Reads(Exchanges, m.turns, out)
      /\ Silent(ImagesIn(ImageKinds), front) => Reads(ImagesIn(ImageKinds), m.turns, out)
  BY Zenon, <1>4, ReadsSecond
<1>7. ASSUME NEW who \in Sides
      PROVE  Words(who, m) = Words(who, b)
  <2>1. Flat(Mapped(out, WordsIn(who))) = Flat(Mapped(b.turns, WordsIn(who)))
    BY Zenon DEF TurnsSay
  <2>2. Maps(WordsIn(who), SomeTurn, Seq(STRING))
    BY ObserversSay
  <2>3. CASE who # "system"
    <3>1. Flat(Mapped(front, WordsIn(who))) = <<>>
      BY Zenon, <1>1, <2>3
    <3>2. Flat(Mapped(m.turns, WordsIn(who))) = Flat(Mapped(out, WordsIn(who)))
      BY Zenon, <1>6, <3>1 DEF Silent, Reads
    <3> QED BY Zenon, <1>4, <2>1, <2>3, <3>2, SidesOfTurns
  <2>4. CASE who = "system"
    <3>1. Flat(Mapped(front, WordsIn(who))) = WordsOf(b.system)
      BY Zenon, <1>1, <2>4
    <3>2. Flat(Mapped(m.turns, WordsIn(who))) = WordsOf(b.system) \o Flat(Mapped(b.turns, WordsIn(who)))
      BY Zenon, <1>5, <2>1, <3>1 DEF ReadsAs
    <3>3. PICK x \in Seq(STRING) : x = Flat(Mapped(m.turns, WordsIn(who)))
      BY <1>4, BodyReads
    <3>4. WordsOf(m.system) = <<>>
      BY Zenon, NoWords
    <3>5. Words("system", m) = WordsOf(m.system) \o Flat(Mapped(m.turns, WordsIn("system")))
      BY Zenon, <1>4, SystemOfBody
    <3>6. Words(who, m) = <<>> \o x
      BY Zenon, <2>4, <3>3, <3>4, <3>5
    <3>7. <<>> \o x = x
      OBVIOUS
    <3>8. Words("system", b) = WordsOf(b.system) \o Flat(Mapped(b.turns, WordsIn("system")))
      BY Zenon, SystemOfBody
    <3> QED BY Zenon, <2>4, <3>2, <3>3, <3>6, <3>7, <3>8
  <2> QED BY <2>3, <2>4
<1>9. Exchange(m) = Phrased(Exchange(b), "named")
  <2>1. Maps(Exchanges, SomeTurn, Seq(Deed))
    BY ObserversSay
  <2>2. Flat(Mapped(m.turns, Exchanges)) = Flat(Mapped(out, Exchanges))
    BY Zenon, <1>1, <1>6 DEF Silent, Reads
  <2>3. Flat(Mapped(out, Exchanges)) = Phrased(Flat(Mapped(b.turns, Exchanges)), "named")
    BY Zenon DEF TurnsSay
  <2>4. Exchange(m) = Flat(Mapped(m.turns, Exchanges))
    BY <1>4, BodySays
  <2>5. Exchange(b) = Flat(Mapped(b.turns, Exchanges))
    BY BodySays
  <2> QED BY Zenon, <2>2, <2>3, <2>4, <2>5
<1>10. Len(Images(m)) = Len(Pictures(Carried, b))
  <2>1. Maps(ImagesIn(ImageKinds), SomeTurn, Seq(SomePart))
    BY ObserversSay
  <2>2. Flat(Mapped(m.turns, ImagesIn(ImageKinds))) = Flat(Mapped(out, ImagesIn(ImageKinds)))
    BY Zenon, <1>1, <1>6 DEF Silent, Reads
  <2>3. Len(Flat(Mapped(out, ImagesIn(ImageKinds)))) = Len(Flat(Mapped(b.turns, ImagesIn(Carried))))
    BY Zenon DEF TurnsSay
  <2>4. Images(m) = Flat(Mapped(m.turns, ImagesIn(ImageKinds)))
    BY <1>4, BodySays
  <2>5. Pictures(Carried, b) = Flat(Mapped(b.turns, ImagesIn(Carried)))
    BY BodySays
  <2> QED BY Zenon, <2>2, <2>3, <2>4, <2>5
<1> QED BY Zenon, <1>3, <1>7, <1>9, <1>10 DEF Says

(* System text that is said apart from the turns.                          *)
LEMMA HoistedSays ==
  ASSUME NEW b, ChatBody(b), NEW s, s.turns \in Seq(SomeTurn),
         WordsOf(s.system) = Flat(Mapped(b.turns, WordsIn("system"))),
         NEW how, TurnsSay(s.turns, b.turns, how, TRUE, TRUE), Bounded(s, b)
  PROVE  Says(s, b, how, 0)
<1>1. b.turns \in Seq(SomeTurn)
  BY ChatTurnsAreTurns DEF ChatBody
<1>2. PICK x \in Seq(STRING) : x = Flat(Mapped(b.turns, WordsIn("system")))
  BY <1>1, BodyReads
<1>3. Flat(Mapped(s.turns, WordsIn("system"))) = <<>>
  <2>1. PICK who \in Sides : who = "system"
    BY DEF Sides
  <2> QED BY Zenon, <2>1 DEF TurnsSay
<1>4. Words("system", s) = x \o <<>>
  <2>1. Words("system", s) = WordsOf(s.system) \o Flat(Mapped(s.turns, WordsIn("system")))
    BY Zenon, SystemOfBody
  <2> QED BY Zenon, <1>2, <1>3, <2>1
<1>5. Words("system", b) = <<>> \o x
  <2>1. Words("system", b) = WordsOf(b.system) \o Flat(Mapped(b.turns, WordsIn("system")))
    BY Zenon, <1>1, SystemOfBody
  <2>2. WordsOf(b.system) = <<>>
    BY Zenon, NoWords DEF ChatBody
  <2> QED BY Zenon, <1>2, <2>1, <2>2
<1>6. x \o <<>> = <<>> \o x
  OBVIOUS
<1>7. Words("system", s) = Words("system", b)
  BY Zenon, <1>4, <1>5, <1>6
<1> QED BY Zenon, <1>1, <1>7, BodiesSay

(* The fields that say something.                                          *)
SameTalk(c, b) ==
  /\ c.turns = b.turns /\ c.system = b.system
  /\ c.maxTokens = b.maxTokens /\ c.temperature = b.temperature

LEMMA BlankFields ==
  /\ DOMAIN Blank = {"system", "turns", "tools", "hosted", "choice", "maxTokens",
                     "temperature", "thinking", "effort", "parallel", "stream"}
  /\ Blank.system = <<>>
BY DEF Blank

LEMMA StreamSet ==
  ASSUME NEW g, DOMAIN g = DOMAIN Blank, NEW x
  PROVE  SameTalk([g EXCEPT !.stream = x], g)
BY BlankFields DEF SameTalk

LEMMA ToolsSet ==
  ASSUME NEW b, HasFields(b), NEW x
  PROVE  /\ SameTalk([b EXCEPT !.tools = x], b)
         /\ DOMAIN [b EXCEPT !.tools = x] = DOMAIN Blank
<1>1. DOMAIN b = DOMAIN Blank
  BY DEF HasFields
<1> QED BY <1>1, BlankFields DEF SameTalk

LEMMA SaysSame ==
  ASSUME NEW s, NEW t, SameTalk(t, s), NEW b, NEW c, SameTalk(c, b), NEW how, NEW k,
         Says(s, c, how, k)
  PROVE  Says(t, b, how, k)
<1>1. /\ \A who : Words(who, t) = Words(who, s)
      /\ Exchange(t) = Exchange(s) /\ Images(t) = Images(s)
  BY Zenon DEF SameTalk, Words, Exchange, Images, Pictures
<1>2. /\ \A who : Words(who, b) = Words(who, c)
      /\ Exchange(b) = Exchange(c)
  BY Zenon DEF SameTalk, Words, Exchange
<1>3. Bounded(t, b)
  BY Zenon DEF SameTalk, Says, Bounded
<1> QED BY Zenon, <1>1, <1>2, <1>3 DEF Says

------------------------------------------------------------------------------
(* Messages and Responses, as a chat                                       *)

(* System text is text parts.                                              *)
PlainSystem(b) ==
  WordsOf(b.system) \in Seq(STRING) /\ TextOf(b.system) = WordsOf(b.system)

LEMMA MessagesAsChat ==
  ASSUME NEW b, b.turns \in Seq(MessageTurns), PlainSystem(b), NEW p, NEW m,
         m = AnthropicToOpenAIRequest(b, p)
  PROVE  /\ ChatBody(m) /\ Says(m, b, "named", Len(Pictures(Carried, b)))
         /\ DOMAIN m = DOMAIN Blank /\ m.maxTokens = b.maxTokens
<1>1. PICK T : T = [t \in MessageTurns |-> AnthropicTurnToChat(t)]
  OBVIOUS
<1>2. PICK n : n = "named"
  OBVIOUS
<1>3. PICK s \in Seq(MessageTurns) : s = b.turns
  OBVIOUS
<1>4. \A t \in MessageTurns : /\ AnthropicTurnToChat(t) \in Seq(ChatTurns)
                              /\ Renders(AnthropicTurnToChat(t), t, n, FALSE, FALSE)
  BY Zenon, <1>2, MessageTurnSays
<1>5. T \in [MessageTurns -> Seq(ChatTurns)]
  BY Zenon, <1>1, <1>4
<1>6. PICK out : out = Flat(Mapped(s, T))
  OBVIOUS
<1>7. out \in Seq(ChatTurns)
  <2>1. Mapped(s, T) \in Seq(Seq(ChatTurns))
    BY <1>5, MappedSays
  <2> QED BY <1>6, <2>1, FlatSays
<1>8. Maps(T, MessageTurns, Seq(SomeTurn))
  <2>1. \A t \in MessageTurns : AnthropicTurnToChat(t) \in Seq(SomeTurn)
    BY Zenon, <1>4, ChatTurnsAreTurns
  <2> QED BY Zenon, <1>1, <2>1 DEF Maps
<1>9. \A t \in MessageTurns : Renders(T[t], t, n, FALSE, FALSE)
  BY Zenon, <1>1, <1>4
<1>10. MessageTurns \in SUBSET SomeTurn
  BY DEF MessageTurns
<1>11. TurnsSay(out, s, n, FALSE, FALSE)
  BY Zenon, <1>6, <1>8, <1>9, <1>10, TurnsRendered
<1>12. [i \in DOMAIN s |-> AnthropicTurnToChat(s[i])] = Mapped(s, T)
  <2>1. \A i \in DOMAIN s : s[i] \in MessageTurns
    OBVIOUS
  <2> QED BY Zenon, <1>1, <2>1 DEF Mapped
<1>13. /\ m.turns = SystemMessage(TextOf(b.system))
                    \o Flat([i \in DOMAIN b.turns |-> AnthropicTurnToChat(b.turns[i])])
       /\ m.system = <<>> /\ m.maxTokens = b.maxTokens /\ m.temperature = b.temperature
       /\ DOMAIN m = DOMAIN Blank
  BY DEF AnthropicToOpenAIRequest, Blank
<1>14. PICK front : front = SystemMessage(WordsOf(b.system))
  OBVIOUS
<1>15. m.turns = front \o out
  BY Zenon, <1>3, <1>6, <1>12, <1>13, <1>14 DEF PlainSystem
<1>16. s \in Seq(SomeTurn)
  BY <1>10
<1>17. Bounded(m, b)
  BY Zenon, <1>13 DEF Bounded
<1>18. ChatBody(m) /\ Says(m, b, n, Len(Pictures(Carried, b)))
  BY Zenon, <1>2, <1>3, <1>7, <1>11, <1>13, <1>14, <1>15, <1>16, <1>17, FrontedSays
     DEF PlainSystem
<1> QED BY Zenon, <1>2, <1>13, <1>18

(* Strings as items, and the rest as it was.                               *)
Itemized(d, b) ==
  /\ d.turns = [i \in DOMAIN b.turns |-> NormalizeItem(b.turns[i])]
  /\ d.system = b.system /\ d.maxTokens = b.maxTokens /\ d.temperature = b.temperature

LEMMA ResponsesAsChat ==
  ASSUME NEW b, b.turns \in Seq(ItemTurns), PlainSystem(b), NEW p, NEW capable, NEW m, NEW d,
         Itemized(d, b), m = ResponsesToChatBody(d, p, capable)
  PROVE  /\ ChatBody(m) /\ Says(m, b, "named", Len(Pictures(Carried, b)))
         /\ DOMAIN m = DOMAIN Blank /\ m.maxTokens = b.maxTokens
<1>1. PICK T : T = [t \in ItemTurns |-> InputItemToChat(NormalizeItem(t))]
  OBVIOUS
<1>2. PICK n : n = "named"
  OBVIOUS
<1>3. PICK s \in Seq(ItemTurns) : s = b.turns
  OBVIOUS
<1>4. \A t \in ItemTurns : /\ InputItemToChat(NormalizeItem(t)) \in Seq(ChatTurns)
                           /\ Renders(InputItemToChat(NormalizeItem(t)), t, n, FALSE, FALSE)
  BY Zenon, <1>2, ItemTurnSays
<1>5. T \in [ItemTurns -> Seq(ChatTurns)]
  BY Zenon, <1>1, <1>4
<1>6. PICK out : out = Flat(Mapped(s, T))
  OBVIOUS
<1>7. out \in Seq(ChatTurns)
  <2>1. Mapped(s, T) \in Seq(Seq(ChatTurns))
    BY <1>5, MappedSays
  <2> QED BY <1>6, <2>1, FlatSays
<1>8. Maps(T, ItemTurns, Seq(SomeTurn))
  <2>1. \A t \in ItemTurns : InputItemToChat(NormalizeItem(t)) \in Seq(SomeTurn)
    BY Zenon, <1>4, ChatTurnsAreTurns
  <2> QED BY Zenon, <1>1, <2>1 DEF Maps
<1>9. \A t \in ItemTurns : Renders(T[t], t, n, FALSE, FALSE)
  BY Zenon, <1>1, <1>4
<1>10. ItemTurns \in SUBSET SomeTurn
  BY DEF ItemTurns
<1>11. TurnsSay(out, s, n, FALSE, FALSE)
  BY Zenon, <1>6, <1>8, <1>9, <1>10, TurnsRendered
<1>12. [i \in DOMAIN d.turns |-> InputItemToChat(d.turns[i])] = Mapped(s, T)
  <2>1. \A i \in DOMAIN s : s[i] \in ItemTurns
    OBVIOUS
  <2>2. d.turns = [i \in DOMAIN s |-> NormalizeItem(s[i])]
    BY Zenon, <1>3 DEF Itemized
  <2>3. DOMAIN d.turns = DOMAIN s /\ \A i \in DOMAIN s : d.turns[i] = NormalizeItem(s[i])
    BY Zenon, <2>2
  <2>4. \A i \in DOMAIN s : InputItemToChat(d.turns[i]) = T[s[i]]
    BY Zenon, <1>1, <2>1, <2>3
  <2> QED BY Zenon, <2>3, <2>4 DEF Mapped
<1>13. /\ m.turns = SystemMessage(TextOf(d.system))
                    \o Flat([i \in DOMAIN d.turns |-> InputItemToChat(d.turns[i])])
       /\ m.system = <<>> /\ m.maxTokens = d.maxTokens /\ m.temperature = d.temperature
       /\ DOMAIN m = DOMAIN Blank
  BY ZenonT(40) DEF ResponsesToChatBody, Blank
<1>14. PICK front : front = SystemMessage(WordsOf(b.system))
  OBVIOUS
<1>15. m.turns = front \o out
  BY Zenon, <1>6, <1>12, <1>13, <1>14 DEF PlainSystem, Itemized
<1>16. s \in Seq(SomeTurn)
  BY <1>10
<1>17. Bounded(m, b)
  BY Zenon, <1>13 DEF Bounded, Itemized
<1>18. ChatBody(m) /\ Says(m, b, n, Len(Pictures(Carried, b)))
  BY Zenon, <1>2, <1>3, <1>7, <1>11, <1>13, <1>14, <1>15, <1>16, <1>17, FrontedSays
     DEF PlainSystem
<1> QED BY Zenon, <1>2, <1>13, <1>18 DEF Itemized

------------------------------------------------------------------------------
(* A chat, as Messages, for Gemini and for Ollama                          *)

LEMMA SpokenSays ==
  ASSUME NEW turns \in Seq(ChatTurns)
  PROVE  /\ Spoken(turns) \in Seq(ChatTurns)
         /\ \A i \in DOMAIN Spoken(turns) : ~ IsSystem(Spoken(turns)[i])
<1>1. PICK Q : Q = {m \in ToSet(turns) : ~ IsSystem(m)}
  OBVIOUS
<1>2. Spoken(turns) = Keep(turns, Q)
  BY Zenon, <1>1 DEF Spoken
<1>3. Keep(turns, Q) \in Seq(ChatTurns)
  BY KeepSays
<1>4. \A i \in DOMAIN Keep(turns, Q) : Keep(turns, Q)[i] \in Q
  BY KeepSays DEF Subsequence
<1>5. \A m \in Q : ~ IsSystem(m)
  BY <1>1
<1> QED BY Zenon, <1>2, <1>3, <1>4, <1>5

LEMMA ChatAsMessages ==
  ASSUME NEW b, ChatBody(b), NEW m, m = ChatToAnthropicRequest(b)
  PROVE  Says(m, b, "valued", 0) /\ DOMAIN m = DOMAIN Blank
<1>1. PICK f : f = [t \in ChatTurns |-> IF IsSystem(t) THEN t ELSE ChatMessageToAnthropic(t)]
  OBVIOUS
<1>2. PICK s \in Seq(ChatTurns) : s = b.turns
  BY DEF ChatBody
<1>3. \A t \in ChatTurns : f[t] = IF IsSystem(t) THEN t ELSE ChatMessageToAnthropic(t)
  BY Zenon, <1>1
<1>4. ASSUME NEW t \in ChatTurns
      PROVE  /\ f[t] \in SomeTurn
             /\ ~ IsSystem(t) => Renders(<<f[t]>>, t, "valued", TRUE, TRUE)
  <2>1. CASE IsSystem(t)
    <3>1. t \in SomeTurn
      BY DEF ChatTurns
    <3> QED BY Zenon, <1>3, <2>1, <3>1
  <2>2. CASE ~ IsSystem(t)
    <3>1. ChatMessageToAnthropic(t) \in SomeTurn
          /\ Renders(<<ChatMessageToAnthropic(t)>>, t, "valued", TRUE, TRUE)
      BY Zenon, <2>2, AnthropicTurnSays
    <3>2. f[t] = ChatMessageToAnthropic(t)
      BY Zenon, <1>3, <2>2
    <3> QED BY Zenon, <3>1, <3>2
  <2> QED BY <2>1, <2>2
<1>5. Maps(f, ChatTurns, SomeTurn)
  BY Zenon, <1>1, <1>3, <1>4 DEF Maps
<1>6. TurnsSay(Mapped(Spoken(s), f), s, "valued", TRUE, TRUE)
  BY Zenon, <1>4, <1>5, HoistedTurns
<1>7. PICK k \in Seq(ChatTurns) : k = Spoken(s) /\ \A i \in DOMAIN k : ~ IsSystem(k[i])
  BY Zenon, SpokenSays
<1>8. [i \in DOMAIN k |-> ChatMessageToAnthropic(k[i])] = Mapped(k, f)
  <2>1. \A i \in DOMAIN k : k[i] \in ChatTurns
    OBVIOUS
  <2>2. \A i \in DOMAIN k : f[k[i]] = ChatMessageToAnthropic(k[i])
    BY Zenon, <1>3, <1>7, <2>1
  <2> QED BY Zenon, <2>2 DEF Mapped
<1>9. /\ m.turns = [i \in DOMAIN Spoken(b.turns) |-> ChatMessageToAnthropic(Spoken(b.turns)[i])]
      /\ m.system = IF \E i \in DOMAIN b.turns : IsSystem(b.turns[i])
                    THEN <<TextPart(SystemText(b.turns))>> ELSE <<>>
      /\ m.maxTokens = IF b.maxTokens = 0 THEN DefaultMaxTokens ELSE b.maxTokens
      /\ m.temperature = b.temperature /\ DOMAIN m = DOMAIN Blank
  BY DEF ChatToAnthropicRequest, Blank
<1>10. m.turns = Mapped(Spoken(s), f)
  BY Zenon, <1>2, <1>7, <1>8, <1>9
<1>11. m.turns \in Seq(SomeTurn)
  BY Zenon, <1>6, <1>10 DEF TurnsSay
<1>12. WordsOf(m.system) = Flat(Mapped(s, WordsIn("system")))
  BY Zenon, <1>2, <1>9, SystemHoisted
<1>13. Bounded(m, b)
  BY <1>9 DEF Bounded
<1>14. Says(m, b, "valued", 0)
  BY Zenon, <1>2, <1>6, <1>10, <1>11, <1>12, <1>13, HoistedSays
<1> QED BY <1>9, <1>14

LEMMA ChatAsGemini ==
  ASSUME NEW b, ChatBody(b), NEW m, m = ChatToGeminiRequest(b)
  PROVE  Says(m, b, "bare", 0)
<1>1. PICK f : f = [t \in ChatTurns |-> IF IsSystem(t) THEN t ELSE ChatMessageToGemini(t)]
  OBVIOUS
<1>2. PICK s \in Seq(ChatTurns) : s = b.turns
  BY DEF ChatBody
<1>3. \A t \in ChatTurns : f[t] = IF IsSystem(t) THEN t ELSE ChatMessageToGemini(t)
  BY Zenon, <1>1
<1>4. ASSUME NEW t \in ChatTurns
      PROVE  /\ f[t] \in SomeTurn
             /\ ~ IsSystem(t) => Renders(<<f[t]>>, t, "bare", TRUE, TRUE)
  <2>1. CASE IsSystem(t)
    <3>1. t \in SomeTurn
      BY DEF ChatTurns
    <3> QED BY Zenon, <1>3, <2>1, <3>1
  <2>2. CASE ~ IsSystem(t)
    <3>1. ChatMessageToGemini(t) \in SomeTurn
          /\ Renders(<<ChatMessageToGemini(t)>>, t, "bare", TRUE, TRUE)
      BY Zenon, <2>2, GeminiTurnSays
    <3>2. f[t] = ChatMessageToGemini(t)
      BY Zenon, <1>3, <2>2
    <3> QED BY Zenon, <3>1, <3>2
  <2> QED BY <2>1, <2>2
<1>5. Maps(f, ChatTurns, SomeTurn)
  BY Zenon, <1>1, <1>3, <1>4 DEF Maps
<1>6. TurnsSay(Mapped(Spoken(s), f), s, "bare", TRUE, TRUE)
  BY Zenon, <1>4, <1>5, HoistedTurns
<1>7. PICK k \in Seq(ChatTurns) : k = Spoken(s) /\ \A i \in DOMAIN k : ~ IsSystem(k[i])
  BY Zenon, SpokenSays
<1>8. [i \in DOMAIN k |-> ChatMessageToGemini(k[i])] = Mapped(k, f)
  <2>1. \A i \in DOMAIN k : k[i] \in ChatTurns
    OBVIOUS
  <2>2. \A i \in DOMAIN k : f[k[i]] = ChatMessageToGemini(k[i])
    BY Zenon, <1>3, <1>7, <2>1
  <2> QED BY Zenon, <2>2 DEF Mapped
<1>9. /\ m.turns = [i \in DOMAIN Spoken(b.turns) |-> ChatMessageToGemini(Spoken(b.turns)[i])]
      /\ m.system = IF \E i \in DOMAIN b.turns : IsSystem(b.turns[i])
                    THEN <<TextPart(SystemText(b.turns))>> ELSE <<>>
      /\ m.maxTokens = b.maxTokens /\ m.temperature = b.temperature
  BY DEF ChatToGeminiRequest, Blank
<1>10. m.turns = Mapped(Spoken(s), f)
  BY Zenon, <1>2, <1>7, <1>8, <1>9
<1>11. m.turns \in Seq(SomeTurn)
  BY Zenon, <1>6, <1>10 DEF TurnsSay
<1>12. WordsOf(m.system) = Flat(Mapped(s, WordsIn("system")))
  BY Zenon, <1>2, <1>9, SystemHoisted
<1>13. Bounded(m, b)
  BY <1>9 DEF Bounded
<1> QED BY Zenon, <1>2, <1>6, <1>10, <1>11, <1>12, <1>13, HoistedSays

LEMMA ChatAsOllama ==
  ASSUME NEW b, ChatBody(b), NEW m, m = ChatToOllamaRequest(b)
  PROVE  Says(m, b, "bare", 0)
<1>1. PICK f : f = [t \in ChatTurns |-> OllamaTurn(t)]
  OBVIOUS
<1>2. PICK s \in Seq(ChatTurns) : s = b.turns
  BY DEF ChatBody
<1>3. \A t \in ChatTurns : f[t] = OllamaTurn(t)
  BY Zenon, <1>1
<1>4. \A t \in ChatTurns : f[t] \in SomeTurn /\ Renders(<<f[t]>>, t, "bare", FALSE, TRUE)
  BY Zenon, <1>3, OllamaTurnSays
<1>5. Maps(f, ChatTurns, SomeTurn)
  BY Zenon, <1>1, <1>3, <1>4 DEF Maps
<1>6. ChatTurns \in SUBSET SomeTurn
  BY DEF ChatTurns
<1>7. TurnsSay(Mapped(s, f), s, "bare", FALSE, TRUE)
  BY Zenon, <1>4, <1>5, <1>6, TurnsOneByOne
<1>8. [i \in DOMAIN s |-> OllamaTurn(s[i])] = Mapped(s, f)
  <2>1. \A i \in DOMAIN s : s[i] \in ChatTurns
    OBVIOUS
  <2> QED BY Zenon, <1>3, <2>1 DEF Mapped
<1>9. /\ m.turns = [i \in DOMAIN b.turns |-> OllamaTurn(b.turns[i])]
      /\ m.system = <<>> /\ m.maxTokens = b.maxTokens /\ m.temperature = b.temperature
  BY DEF ChatToOllamaRequest, Blank, OllamaTurn
<1>10. m.turns = Mapped(s, f)
  BY Zenon, <1>2, <1>8, <1>9
<1>11. m.turns \in Seq(SomeTurn)
  BY Zenon, <1>7, <1>10 DEF TurnsSay
<1>12. b.turns \in Seq(SomeTurn)
  BY <1>2, <1>6
<1>13. Words("system", m) = Words("system", b)
  <2>1. PICK who \in Sides : who = "system"
    BY DEF Sides
  <2>2. Flat(Mapped(m.turns, WordsIn(who))) = Flat(Mapped(b.turns, WordsIn(who)))
    BY Zenon, <1>2, <1>7, <1>10 DEF TurnsSay
  <2>3. m.system = b.system
    BY <1>9 DEF ChatBody
  <2>4. /\ Words("system", m) = WordsOf(m.system) \o Flat(Mapped(m.turns, WordsIn("system")))
        /\ Words("system", b) = WordsOf(b.system) \o Flat(Mapped(b.turns, WordsIn("system")))
    BY Zenon, <1>11, <1>12, SystemOfBody
  <2> QED BY Zenon, <2>1, <2>2, <2>3, <2>4
<1>14. Bounded(m, b)
  BY Zenon, <1>9 DEF Bounded
<1> QED BY Zenon, <1>2, <1>7, <1>10, <1>11, <1>12, <1>13, <1>14, BodiesSay

------------------------------------------------------------------------------
(* What clients say                                                        *)

LEMMA TurnsAreTurns ==
  ASSUME NEW kinds \in SUBSET Literal, NEW calls \in SUBSET Literal,
         NEW ts \in TurnsOf(kinds, calls)
  PROVE  /\ ts \in Seq(SomeTurn)
         /\ \A i \in DOMAIN ts :
              /\ \A k \in DOMAIN ts[i].parts : ts[i].parts[k].kind \in kinds
              /\ \A k \in DOMAIN ts[i].calls : ts[i].calls[k].kind \in calls
<1>1. PICK P, C : P = PartsOf(kinds) /\ C = PartsOf(calls)
  OBVIOUS
<1>2. \A ps \in P : ps \in Seq(SomePart) /\ \A k \in DOMAIN ps : ps[k].kind \in kinds
  BY Zenon, <1>1, PartsAreParts
<1>3. \A ps \in C : ps \in Seq(SomePart) /\ \A k \in DOMAIN ps : ps[k].kind \in calls
  BY Zenon, <1>1, PartsAreParts
<1>4. PICK TS : TS = [role : STRING, parts : P, calls : C, answers : STRING]
  OBVIOUS
<1>5. ts \in Seq(TS)
  BY Zenon, <1>1, <1>4 DEF TurnsOf
<1>6. ASSUME NEW t \in TS
      PROVE  /\ t \in SomeTurn
             /\ \A k \in DOMAIN t.parts : t.parts[k].kind \in kinds
             /\ \A k \in DOMAIN t.calls : t.calls[k].kind \in calls
  <2>1. t.parts \in P /\ t.calls \in C /\ t.role \in STRING /\ t.answers \in STRING
    BY <1>4
  <2>2. STRING \subseteq Literal
    BY Zenon DEF Literal
  <2>3. t = [role |-> t.role, parts |-> t.parts, calls |-> t.calls, answers |-> t.answers]
    BY <1>4
  <2>4. t.role \in Literal /\ t.answers \in Literal
    BY <2>1, <2>2
  <2>5. t.parts \in Seq(SomePart) /\ t.calls \in Seq(SomePart)
    BY Zenon, <1>2, <1>3, <2>1
  <2>6. t \in SomeTurn
    BY <2>3, <2>4, <2>5 DEF SomeTurn
  <2> QED BY Zenon, <1>2, <1>3, <2>1, <2>6
<1>7. \A i \in DOMAIN ts : ts[i] \in TS
  BY <1>5
<1>8. ts \in Seq(SomeTurn)
  BY <1>5, <1>6
<1> QED BY Zenon, <1>6, <1>7, <1>8

LEMMA TextSystem ==
  ASSUME NEW b, b.system \in PartsOf({"text"})
  PROVE  PlainSystem(b)
<1>1. PICK ps : ps = b.system
  OBVIOUS
<1>2. {"text"} \in SUBSET Literal
  BY DEF Literal
<1>3. ps \in Seq(SomePart) /\ \A i \in DOMAIN ps : ps[i].kind \in {"text"}
  BY <1>1, <1>2, PartsAreParts
<1>4. Joined({"text"}, ps) = Joined(WordKinds, ps)
  <2>1. \A i \in DOMAIN ps : ps[i].kind \in {"text"} <=> ps[i].kind \in WordKinds
    BY <1>3 DEF WordKinds
  <2> QED BY Zenon, <2>1, JoinedSame
<1>5. WordsOf(ps) = Joined(WordKinds, ps) /\ WordsOf(ps) \in Seq(STRING)
  BY <1>3, WordsOfSays
<1> QED BY Zenon, <1>1, <1>4, <1>5 DEF PlainSystem, TextOf

LEMMA ChatTalk ==
  ASSUME NEW b, Conversation("chat", b), ChatValid(b)
  PROVE  ChatBody(b)
<1>1. PICK ts : ts = b.turns
  OBVIOUS
<1>2. /\ b.system = <<>> /\ ts \in TurnsOf({"text", "image", "image_ref"}, {"tool_use"})
      /\ \A i \in DOMAIN ts : ts[i].calls # <<>> => ts[i].role = "assistant"
  BY Zenon, <1>1 DEF Conversation
<1>3. {"text", "image", "image_ref"} \in SUBSET Literal /\ {"tool_use"} \in SUBSET Literal
  BY DEF Literal
<1>4. /\ ts \in Seq(SomeTurn)
      /\ \A i \in DOMAIN ts :
           /\ \A k \in DOMAIN ts[i].parts : ts[i].parts[k].kind \in {"text", "image", "image_ref"}
           /\ \A k \in DOMAIN ts[i].calls : ts[i].calls[k].kind \in {"tool_use"}
  BY Zenon, <1>2, <1>3, TurnsAreTurns
<1>5. \A i \in DOMAIN ts : ts[i].role \in ChatRoles
  BY <1>1 DEF ChatValid, ChatRoles
<1>6. \A i \in DOMAIN ts : ts[i] \in ChatTurns
  <2> SUFFICES ASSUME NEW i \in DOMAIN ts PROVE ts[i] \in ChatTurns
    OBVIOUS
  <2>1. PICK t \in SomeTurn : t = ts[i]
    BY <1>4
  <2>2. t.role \in ChatRoles /\ (t.calls # <<>> => t.role = "assistant")
    BY Zenon, <1>2, <1>5, <2>1
  <2>3. \A k \in DOMAIN t.parts : t.parts[k].kind \in {"text", "image", "image_ref"}
    BY Zenon, <1>4, <2>1
  <2>4. \A k \in DOMAIN t.calls : t.calls[k].kind = "tool_use"
    BY <1>4, <2>1
  <2> QED BY Zenon, <2>1, <2>2, <2>3, <2>4 DEF ChatTurns
<1>7. ts \in Seq(ChatTurns)
  BY <1>4, <1>6
<1> QED BY <1>1, <1>2, <1>7 DEF ChatBody

LEMMA NoCalls ==
  ASSUME NEW cs \in Seq(SomePart), \A k \in DOMAIN cs : cs[k].kind \in {}
  PROVE  cs = <<>>
OBVIOUS

LEMMA MessagesTalk ==
  ASSUME NEW surface, surface \notin {"chat", "responses"}, NEW b, Conversation(surface, b)
  PROVE  b.turns \in Seq(SomeTurn) /\ (MessagesValid(b) => b.turns \in Seq(MessageTurns))
<1>1. PICK ts : ts = b.turns
  OBVIOUS
<1>0. PICK none : none = {}
  OBVIOUS
<1>2. ts \in TurnsOf(MessageKinds, none) /\ \A i \in DOMAIN ts : MessagesTurn(ts[i])
  BY Zenon, <1>0, <1>1 DEF Conversation, MessageKinds
<1>3. MessageKinds \in SUBSET Literal /\ none \in SUBSET Literal
  BY <1>0 DEF Literal, MessageKinds
<1>4. /\ ts \in Seq(SomeTurn)
      /\ \A i \in DOMAIN ts :
           /\ \A k \in DOMAIN ts[i].parts : ts[i].parts[k].kind \in MessageKinds
           /\ \A k \in DOMAIN ts[i].calls : ts[i].calls[k].kind \in none
  BY Zenon, <1>2, <1>3, TurnsAreTurns
<1>5. ASSUME MessagesValid(b)
      PROVE  ts \in Seq(MessageTurns)
  <2>1. \A i \in DOMAIN ts : ts[i].role \in {"user", "assistant", "system"}
    BY Zenon, <1>1, <1>5 DEF MessagesValid
  <2>2. ASSUME NEW i \in DOMAIN ts
        PROVE  ts[i] \in MessageTurns
    <3>1. PICK t \in SomeTurn : t = ts[i]
      BY <1>4
    <3>2. t.calls = <<>>
      <4>1. t.calls \in Seq(SomePart)
        BY TurnFields
      <4>2. \A k \in DOMAIN t.calls : t.calls[k].kind \in none
        BY Zenon, <1>4, <3>1
      <4> QED BY <1>0, <4>1, <4>2, NoCalls
    <3>3. /\ t.role \in {"user", "assistant", "system"} /\ MessagesTurn(t)
          /\ \A k \in DOMAIN t.parts : t.parts[k].kind \in MessageKinds
      BY Zenon, <1>2, <1>4, <2>1, <3>1
    <3> QED BY Zenon, <3>1, <3>2, <3>3 DEF MessageTurns
  <2> QED BY <1>4, <2>2
<1> QED BY Zenon, <1>1, <1>4, <1>5

LEMMA ResponsesTalk ==
  ASSUME NEW b, Conversation("responses", b), NEW previous, ResponsesValid(b, previous)
  PROVE  b.turns \in Seq(ItemTurns) /\ b.turns \in Seq(SomeTurn)
<1>1. PICK ts : ts = b.turns
  OBVIOUS
<1>0. PICK none : none = {}
  OBVIOUS
<1>2. ts \in TurnsOf(ItemKinds, none) /\ \A i \in DOMAIN ts : ResponsesItem(ts[i])
  BY Zenon, <1>0, <1>1 DEF Conversation, ItemKinds
<1>3. ItemKinds \in SUBSET Literal /\ none \in SUBSET Literal
  BY <1>0 DEF Literal, ItemKinds
<1>4. /\ ts \in Seq(SomeTurn)
      /\ \A i \in DOMAIN ts :
           /\ \A k \in DOMAIN ts[i].parts : ts[i].parts[k].kind \in ItemKinds
           /\ \A k \in DOMAIN ts[i].calls : ts[i].calls[k].kind \in none
  BY Zenon, <1>2, <1>3, TurnsAreTurns
<1>5. \A i \in DOMAIN ts : ItemValid(ts[i])
  BY Zenon, <1>1 DEF ResponsesValid
<1>6. ASSUME NEW i \in DOMAIN ts
      PROVE  ts[i] \in ItemTurns
  <2>1. PICK t \in SomeTurn : t = ts[i]
    BY <1>4
  <2>2. t.calls = <<>>
    <3>1. t.calls \in Seq(SomePart)
      BY TurnFields
    <3>2. \A k \in DOMAIN t.calls : t.calls[k].kind \in none
      BY Zenon, <1>4, <2>1
    <3> QED BY <1>0, <3>1, <3>2, NoCalls
  <2>3. /\ ItemValid(t) /\ ResponsesItem(t)
        /\ \A k \in DOMAIN t.parts : t.parts[k].kind \in ItemKinds
    BY Zenon, <1>2, <1>4, <1>5, <2>1
  <2>4. ASSUME t.role = "reasoning"
        PROVE  \A k \in DOMAIN t.parts : t.parts[k].kind # "input_image"
    <3>1. t.parts \in PartsOf({"summary"})
      BY Zenon, <2>3, <2>4 DEF ResponsesItem
    <3>2. {"summary"} \in SUBSET Literal
      BY DEF Literal
    <3>3. \A k \in DOMAIN t.parts : t.parts[k].kind \in {"summary"}
      BY Zenon, <3>1, <3>2, PartsAreParts
    <3> QED BY <3>3
  <2>5. ASSUME t.role = "function_call"
        PROVE  \A k \in DOMAIN t.parts : t.parts[k].kind # "input_image"
    <3>1. t.parts \in PartsOf({"text", "input_text"})
      BY Zenon, <2>3, <2>5 DEF ResponsesItem
    <3>2. {"text", "input_text"} \in SUBSET Literal
      BY DEF Literal
    <3>3. \A k \in DOMAIN t.parts : t.parts[k].kind \in {"text", "input_text"}
      BY Zenon, <3>1, <3>2, PartsAreParts
    <3> QED BY <3>3
  <2>6. t.role \in {"reasoning", "function_call"} =>
          \A k \in DOMAIN t.parts : t.parts[k].kind # "input_image"
    BY <2>4, <2>5
  <2> QED BY Zenon, <2>1, <2>2, <2>3, <2>6 DEF ItemTurns
<1>7. ts \in Seq(ItemTurns)
  BY <1>4, <1>6
<1> QED BY <1>1, <1>4, <1>7

------------------------------------------------------------------------------
(* What is sent                                                            *)

(* A body as its surface has it, before it is translated.                  *)
Speaks(surface, b) ==
  /\ DOMAIN b = DOMAIN Blank /\ PlainSystem(b) /\ b.turns \in Seq(SomeTurn)
  /\ surface = "chat" => ChatBody(b)
  /\ surface = "messages" => b.turns \in Seq(MessageTurns)
  /\ surface = "responses" => b.turns \in Seq(ItemTurns)

(* How calls reach a provider.                                             *)
Imageless(surface, p) == surface = "chat" /\ p = "anthropic"
Rewritten(surface, p) ==
  \/ surface = "messages" /\ p # "anthropic"
  \/ surface = "responses" /\ p # "openai"
Manner(surface, p) ==
  IF ~ Named(p) THEN "bare" ELSE IF Imageless(surface, p) THEN "valued" ELSE "named"

LEMMA ImagesForSays ==
  ASSUME NEW b, NEW surface, NEW p
  PROVE  /\ ~ Named(p) \/ Imageless(surface, p) => Len(ImagesFor(b, surface, p)) = 0
         /\ Named(p) /\ Rewritten(surface, p) =>
              ImagesFor(b, surface, p) = Pictures(Carried, b)
         /\ Named(p) /\ ~ Imageless(surface, p) /\ ~ Rewritten(surface, p) =>
              ImagesFor(b, surface, p) = Images(b)
<1>1. PICK e, c, all : e = <<>> /\ c = Pictures(Carried, b) /\ all = Images(b)
  OBVIOUS
<1>2. ImagesFor(b, surface, p) =
        CASE p \in {"google", "ollama"} -> e
          [] surface = "chat" /\ p = "anthropic" -> e
          [] \/ surface = "messages" /\ p \notin {"anthropic", "google", "ollama"}
             \/ surface = "responses" /\ p \notin {"openai", "google", "ollama"} -> c
          [] OTHER -> all
  BY Zenon, <1>1 DEF ImagesFor, Carried
<1>3. Len(e) = 0
  BY <1>1
<1>4. ASSUME ~ Named(p) \/ Imageless(surface, p)
      PROVE  ImagesFor(b, surface, p) = e
  BY <1>2, <1>4 DEF Named, Imageless
<1>5. ASSUME Named(p), Rewritten(surface, p)
      PROVE  ImagesFor(b, surface, p) = c
  BY <1>2, <1>5 DEF Named, Rewritten
<1>6. ASSUME Named(p), ~ Imageless(surface, p), ~ Rewritten(surface, p)
      PROVE  ImagesFor(b, surface, p) = all
  BY <1>2, <1>6 DEF Named, Imageless, Rewritten
<1> QED BY Zenon, <1>1, <1>3, <1>4, <1>5, <1>6

LEMMA SentInManner ==
  ASSUME NEW surface, NEW p, NEW calls \in Seq(Deed)
  PROVE  AsSent(calls, surface, p) = Phrased(calls, Manner(surface, p))
<1>1. PICK how : how = Manner(surface, p)
  OBVIOUS
<1> DEFINE bare == p \in {"google", "ollama"}
           valued == bare \/ (surface = "chat" /\ p = "anthropic")
           sent(c) == [c EXCEPT !.id = IF bare THEN "" ELSE c.id,
                                !.text = IF valued THEN Arguments(c.text) ELSE c.text]
<1>4. AsSent(calls, surface, p) =
        [i \in DOMAIN calls |-> IF calls[i].result THEN calls[i] ELSE sent(calls[i])]
  BY Zenon DEF AsSent
<1>5. (bare <=> how = "bare") /\ (valued <=> how # "named")
  BY <1>1 DEF Manner, Named, Imageless
<1> HIDE DEF bare, valued
<1>6. ASSUME NEW d \in Deed
      PROVE  (IF d.result THEN d ELSE sent(d)) = Phrase(d, how)
  <2>1. CASE d.result
    BY Zenon, <2>1 DEF Phrase
  <2>2. CASE ~ d.result /\ how = "named"
    <3>1. sent(d) = [d EXCEPT !.id = d.id, !.text = d.text]
      <4>1. ~ bare /\ ~ valued
        BY <1>5, <2>2
      <4> QED BY Zenon, <4>1
    <3>2. [d EXCEPT !.id = d.id, !.text = d.text] = d
      BY DEF Deed
    <3>3. Phrase(d, how) = d
      BY Zenon, <2>2 DEF Phrase
    <3> QED BY Zenon, <2>2, <3>1, <3>2, <3>3
  <2>3. CASE ~ d.result /\ how # "named"
    <3>1. PICK id : id = IF bare THEN "" ELSE d.id
      OBVIOUS
    <3>2. id = IF how = "bare" THEN "" ELSE d.id
      BY Zenon, <1>5, <3>1
    <3>3. sent(d) = [d EXCEPT !.id = id, !.text = Arguments(d.text)]
      BY Zenon, <1>5, <2>3, <3>1
    <3>4. Phrase(d, how) = [d EXCEPT !.id = id, !.text = Arguments(d.text)]
      BY Zenon, <2>3, <3>2 DEF Phrase
    <3> QED BY Zenon, <2>3, <3>3, <3>4
  <2> QED BY <2>1, <2>2, <2>3
<1>7. \A i \in DOMAIN calls : calls[i] \in Deed
  OBVIOUS
<1> HIDE DEF sent
<1>8. Phrased(calls, how) = [i \in DOMAIN calls |-> Phrase(calls[i], how)]
  BY Zenon DEF Phrased
<1> QED BY Zenon, <1>1, <1>4, <1>6, <1>7, <1>8

(* What the gateway makes of a body: what a provider that names its calls  *)
(* reads, and a chat for the two adapters that translate it again.         *)
Gated(g, b, surface, p) ==
  /\ DOMAIN g = DOMAIN Blank
  /\ Named(p) => Says(g, b, Manner(surface, p), Len(ImagesFor(b, surface, p)))
  /\ ~ Named(p) => ChatBody(g) /\ \E k : Says(g, b, "named", k)

LEMMA AsChatGated ==
  ASSUME NEW b, NEW g, NEW surface, NEW p, Rewritten(surface, p),
         DOMAIN g = DOMAIN Blank, ChatBody(g), Says(g, b, "named", Len(Pictures(Carried, b)))
  PROVE  Gated(g, b, surface, p)
<1>1. ASSUME Named(p)
      PROVE  Says(g, b, Manner(surface, p), Len(ImagesFor(b, surface, p)))
  <2>1. ~ Imageless(surface, p)
    BY DEF Imageless, Rewritten
  <2>2. Manner(surface, p) = "named"
    BY Zenon, <1>1, <2>1 DEF Manner
  <2>3. ImagesFor(b, surface, p) = Pictures(Carried, b)
    BY Zenon, <1>1, ImagesForSays
  <2> QED BY Zenon, <2>2, <2>3
<1> QED BY Zenon, <1>1 DEF Gated

LEMMA AsItIsGated ==
  ASSUME NEW surface, NEW b, Speaks(surface, b), NEW p, ~ Imageless(surface, p),
         ~ Rewritten(surface, p), ~ Named(p) => surface = "chat"
  PROVE  Gated(b, b, surface, p)
<1>1. b.turns \in Seq(SomeTurn) /\ DOMAIN b = DOMAIN Blank
  BY Zenon DEF Speaks
<1>2. Bounded(b, b)
  BY Zenon DEF Bounded
<1>3. Says(b, b, "named", Len(Images(b)))
  BY Zenon, <1>1, <1>2, SaysItself
<1>4. ASSUME Named(p)
      PROVE  Says(b, b, Manner(surface, p), Len(ImagesFor(b, surface, p)))
  <2>1. Manner(surface, p) = "named"
    BY Zenon, <1>4 DEF Manner
  <2>2. ImagesFor(b, surface, p) = Images(b)
    BY Zenon, <1>4, ImagesForSays
  <2> QED BY Zenon, <1>3, <2>1, <2>2
<1>5. ~ Named(p) => ChatBody(b)
  BY Zenon DEF Speaks
<1> QED BY Zenon, <1>1, <1>3, <1>4, <1>5 DEF Gated

LEMMA GateSays ==
  ASSUME NEW surface \in Surfaces, NEW b, Speaks(surface, b), NEW p,
         surface = "count_tokens" => p = "anthropic"
  PROVE  Gated(GatewayBody(surface, b, p), b, surface, p)
<1>1. PICK g : g = GatewayBody(surface, b, p)
  OBVIOUS
<1>2. b.turns \in Seq(SomeTurn) /\ PlainSystem(b) /\ DOMAIN b = DOMAIN Blank
  BY Zenon DEF Speaks
<1>3. CASE surface = "messages" /\ p # "anthropic"
  <2>1. g = AnthropicToOpenAIRequest(b, p)
    BY <1>1, <1>3 DEF GatewayBody
  <2>2. b.turns \in Seq(MessageTurns)
    BY Zenon, <1>3 DEF Speaks
  <2>3. /\ ChatBody(g) /\ Says(g, b, "named", Len(Pictures(Carried, b)))
        /\ DOMAIN g = DOMAIN Blank
    BY Zenon, <1>2, <2>1, <2>2, MessagesAsChat
  <2>4. Rewritten(surface, p)
    BY <1>3 DEF Rewritten
  <2> QED BY Zenon, <1>1, <2>3, <2>4, AsChatGated
<1>4. CASE surface = "responses" /\ p # "openai"
  <2>1. ProtocolTo(surface, p) = "openai_chat"
    BY <1>4 DEF ProtocolTo, UpstreamProtocols
  <2>2. PICK d, capable : /\ d = [b EXCEPT !.turns = [i \in DOMAIN @ |-> NormalizeItem(@[i])]]
                          /\ capable = Capable(p)
    OBVIOUS
  <2>3. g = ResponsesToChatBody(d, p, capable)
    BY <1>1, <1>4, <2>1, <2>2 DEF GatewayBody
  <2>4. Itemized(d, b)
    BY <1>2, <2>2, BlankFields DEF Itemized
  <2>5. b.turns \in Seq(ItemTurns)
    BY Zenon, <1>4 DEF Speaks
  <2>6. /\ ChatBody(g) /\ Says(g, b, "named", Len(Pictures(Carried, b)))
        /\ DOMAIN g = DOMAIN Blank
    BY Zenon, <1>2, <2>3, <2>4, <2>5, ResponsesAsChat
  <2>7. Rewritten(surface, p)
    BY <1>4 DEF Rewritten
  <2> QED BY Zenon, <1>1, <2>6, <2>7, AsChatGated
<1>5. CASE surface = "chat" /\ p = "anthropic"
  <2>1. g = ChatToAnthropicRequest(b)
    BY <1>1, <1>5 DEF GatewayBody
  <2>2. ChatBody(b) /\ Named(p) /\ Imageless(surface, p)
    BY <1>5 DEF Speaks, Named, Imageless
  <2>3. Says(g, b, "valued", 0) /\ DOMAIN g = DOMAIN Blank
    BY Zenon, <2>1, <2>2, ChatAsMessages
  <2>4. Len(ImagesFor(b, surface, p)) = 0
    BY Zenon, <2>2, ImagesForSays
  <2>5. Manner(surface, p) = "valued"
    BY Zenon, <2>2 DEF Manner
  <2> QED BY Zenon, <1>1, <2>2, <2>3, <2>4, <2>5 DEF Gated
<1>6. CASE ~ Rewritten(surface, p) /\ ~ Imageless(surface, p)
  <2>1. g = b
    BY <1>1, <1>6 DEF GatewayBody, ProtocolTo, UpstreamProtocols, Rewritten, Imageless
  <2>2. ~ Named(p) => surface = "chat"
    BY <1>6 DEF Named, Surfaces, Rewritten
  <2> QED BY Zenon, <1>1, <1>6, <2>1, <2>2, AsItIsGated
<1> QED BY <1>3, <1>4, <1>5, <1>6 DEF Rewritten, Imageless

LEMMA ChatBodySame ==
  ASSUME NEW g, NEW h, SameTalk(h, g), ChatBody(g)
  PROVE  ChatBody(h)
BY Zenon DEF SameTalk, ChatBody

LEMMA SpeaksSame ==
  ASSUME NEW surface, NEW b, NEW c, SameTalk(c, b), DOMAIN c = DOMAIN Blank, Speaks(surface, b)
  PROVE  Speaks(surface, c)
BY Zenon DEF SameTalk, Speaks, PlainSystem, ChatBody

(* What leaves for a provider says what the body said.                     *)
LEMMA WireSays ==
  ASSUME NEW surface \in Surfaces, NEW b, Speaks(surface, b), NEW p,
         surface = "count_tokens" => p = "anthropic"
  PROVE  Says(WireBody(surface, b, p), b, Manner(surface, p), Len(ImagesFor(b, surface, p)))
<1>1. PICK g : g = GatewayBody(surface, b, p)
  OBVIOUS
<1>2. PICK asked : asked = Asked(surface, b, p)
  OBVIOUS
<1>3. PICK h : h = [g EXCEPT !.stream = asked]
  OBVIOUS
<1>4. Gated(g, b, surface, p)
  BY Zenon, <1>1, GateSays
<1>5. SameTalk(h, g)
  <2>1. DOMAIN g = DOMAIN Blank
    BY Zenon, <1>4 DEF Gated
  <2> QED BY Zenon, <1>3, <2>1, StreamSet
<1>6. SameTalk(b, b)
  BY Zenon DEF SameTalk
<1>7. b.turns \in Seq(SomeTurn)
  BY Zenon DEF Speaks
<1>8. WireBody(surface, b, p) = CASE p = "google" -> ChatToGeminiRequest(h)
                                  [] p = "ollama" -> ChatToOllamaRequest(h)
                                  [] OTHER -> h
  BY Zenon, <1>1, <1>2, <1>3 DEF WireBody
<1>9. PICK how, k : how = Manner(surface, p) /\ k = Len(ImagesFor(b, surface, p))
  OBVIOUS
<1>10. CASE Named(p)
  <2>1. Says(g, b, how, k)
    BY Zenon, <1>4, <1>9, <1>10 DEF Gated
  <2>2. WireBody(surface, b, p) = h
    BY <1>8, <1>10 DEF Named
  <2>3. Says(h, b, how, k)
    BY Zenon, <1>5, <1>6, <2>1, SaysSame
  <2> QED BY Zenon, <1>9, <2>2, <2>3
<1>11. CASE ~ Named(p)
  <2>1. how = "bare" /\ k = 0
    BY Zenon, <1>9, <1>11, ImagesForSays DEF Manner
  <2>2. PICK j : ChatBody(g) /\ Says(g, b, "named", j)
    BY Zenon, <1>4, <1>11 DEF Gated
  <2>3. ChatBody(h) /\ Says(h, b, "named", j)
    BY Zenon, <1>5, <1>6, <2>2, ChatBodySame, SaysSame
  <2>4. CASE p = "google"
    <3>1. PICK m : m = ChatToGeminiRequest(h)
      OBVIOUS
    <3>2. Says(m, h, "bare", 0)
      BY Zenon, <2>3, <3>1, ChatAsGemini
    <3>3. Says(m, b, "bare", 0)
      BY Zenon, <1>7, <2>3, <3>2, SaysAgain
    <3>4. WireBody(surface, b, p) = m
      BY <1>8, <2>4, <3>1
    <3> QED BY Zenon, <1>9, <2>1, <3>3, <3>4
  <2>5. CASE p = "ollama"
    <3>1. PICK m : m = ChatToOllamaRequest(h)
      OBVIOUS
    <3>2. Says(m, h, "bare", 0)
      BY Zenon, <2>3, <3>1, ChatAsOllama
    <3>3. Says(m, b, "bare", 0)
      BY Zenon, <1>7, <2>3, <3>2, SaysAgain
    <3>4. WireBody(surface, b, p) = m
      BY <1>8, <2>5, <3>1
    <3> QED BY Zenon, <1>9, <2>1, <3>3, <3>4
  <2> QED BY <1>11, <2>4, <2>5 DEF Named
<1> QED BY <1>10, <1>11

LEMMA ClientsSpeak ==
  ASSUME NEW q, q.surface \in Surfaces, Conversation(q.surface, q.body), Parsed(q),
         HasFields(q.body)
  PROVE  Speaks(q.surface, q.body)
<1>1. PICK b, surface : b = q.body /\ surface = q.surface
  OBVIOUS
<1>2. DOMAIN b = DOMAIN Blank
  BY <1>1 DEF HasFields
<1>3. PlainSystem(b)
  <2>1. b.system \in PartsOf({"text"})
    BY Zenon, <1>1 DEF Conversation
  <2> QED BY Zenon, <2>1, TextSystem
<1>4. CASE surface = "chat"
  <2>1. Conversation("chat", b) /\ ChatValid(b)
    BY Zenon, <1>1, <1>4 DEF Parsed
  <2>2. ChatBody(b)
    BY <2>1, ChatTalk
  <2>3. b.turns \in Seq(SomeTurn)
    BY Zenon, <2>2, ChatTurnsAreTurns DEF ChatBody
  <2>4. surface # "messages" /\ surface # "responses"
    BY <1>4
  <2> QED BY Zenon, <1>1, <1>2, <1>3, <2>2, <2>3, <2>4 DEF Speaks
<1>5. CASE surface = "responses"
  <2>1. PICK previous : previous = q.previous
    OBVIOUS
  <2>2. Conversation("responses", b) /\ ResponsesValid(b, previous)
    BY <1>1, <1>5, <2>1 DEF Parsed
  <2>3. b.turns \in Seq(ItemTurns) /\ b.turns \in Seq(SomeTurn)
    BY <2>2, ResponsesTalk
  <2>4. surface # "messages" /\ surface # "chat"
    BY <1>5
  <2> QED BY Zenon, <1>1, <1>2, <1>3, <2>3, <2>4 DEF Speaks
<1>6. CASE surface \notin {"chat", "responses"}
  <2>1. b.turns \in Seq(SomeTurn) /\ (MessagesValid(b) => b.turns \in Seq(MessageTurns))
    BY Zenon, <1>1, <1>6, MessagesTalk
  <2>2. surface = "messages" => MessagesValid(b)
    BY <1>1, <1>6 DEF Parsed
  <2>3. surface # "chat" /\ surface # "responses"
    BY <1>6
  <2> QED BY Zenon, <1>1, <1>2, <1>3, <2>1, <2>2, <2>3 DEF Speaks
<1> QED BY <1>4, <1>5, <1>6

(* What a handler sent says what its client said.                          *)
LEMMA SentSays ==
  ASSUME NEW q, q.surface \in Surfaces, Conversation(q.surface, q.body), HasFields(q.body),
         NEW x, Relays(x, q), NEW p, p = x.hop.provider
  PROVE  /\ q.body.turns \in Seq(SomeTurn)
         /\ Says(x.body, q.body, Manner(q.surface, p), Len(ImagesFor(q.body, q.surface, p)))
<1>1. PICK d, surface : d = q.body /\ surface = q.surface
  OBVIOUS
<1>2. Parsed(q) /\ (surface = "count_tokens" => p = "anthropic")
  BY Zenon, <1>1 DEF Relays
<1>3. PICK b : ClientsBody(b, q) /\ x.body = WireBody(surface, b, p)
  BY Zenon, <1>1 DEF Relays
<1>4. SameTalk(b, d) /\ DOMAIN b = DOMAIN Blank
  <2>1. PICK tools : b = [d EXCEPT !.tools = tools]
    BY Zenon, <1>1, <1>3 DEF ClientsBody
  <2>2. HasFields(d)
    BY <1>1
  <2> QED BY Zenon, <2>1, <2>2, ToolsSet
<1>5. Speaks(surface, d)
  BY Zenon, <1>1, <1>2, ClientsSpeak
<1>6. Speaks(surface, b)
  BY Zenon, <1>4, <1>5, SpeaksSame
<1>7. PICK how, k : how = Manner(surface, p) /\ k = Len(ImagesFor(b, surface, p))
  OBVIOUS
<1>8. Len(ImagesFor(b, surface, p)) = Len(ImagesFor(d, surface, p))
  <2>1. \A kinds : Pictures(kinds, b) = Pictures(kinds, d)
    BY Zenon, <1>4 DEF SameTalk, Pictures
  <2>2. Images(b) = Images(d)
    BY Zenon, <2>1 DEF Images
  <2>3. CASE ~ Named(p) \/ Imageless(surface, p)
    BY Zenon, <2>3, ImagesForSays
  <2>4. CASE Named(p) /\ Rewritten(surface, p)
    BY Zenon, <2>1, <2>4, ImagesForSays
  <2>5. CASE Named(p) /\ ~ Imageless(surface, p) /\ ~ Rewritten(surface, p)
    BY Zenon, <2>2, <2>5, ImagesForSays
  <2> QED BY Zenon, <2>3, <2>4, <2>5
<1>9. PICK w : w = x.body /\ SameTalk(w, w)
  BY Zenon DEF SameTalk
<1>10. Says(w, b, how, k)
  <2>1. surface \in Surfaces
    BY Zenon, <1>1
  <2> QED BY Zenon, <1>2, <1>3, <1>6, <1>7, <1>9, <2>1, WireSays
<1>11. Says(w, d, how, k)
  BY <1>4, <1>9, <1>10, SaysSame
<1>12. d.turns \in Seq(SomeTurn)
  BY Zenon, <1>5 DEF Speaks
<1> QED BY Zenon, <1>1, <1>7, <1>8, <1>9, <1>11, <1>12

(* Across every pair of protocols, for every conversation: what each side  *)
(* said, which call came when, with which arguments, and what it returned, *)
(* the limits the client set and every image the translation carries reach *)
(* the upstream; arguments that are not JSON arrive as an empty object     *)
(* where the upstream wants a value (NothingLostInTranslation).            *)
THEOREM NothingIsLost == Spec => []NothingLostInTranslation
<1>1. SentInv /\ CarryInv => NothingLostInTranslation
  <2> SUFFICES ASSUME SentInv, CarryInv, NEW r \in DOMAIN inbox, NEW i \in DOMAIN req[r].sent
               PROVE  LET q == inbox[r].body
                          p == req[r].sent[i].hop.provider
                          s == req[r].sent[i].body
                      IN  /\ \A who \in {"system", "user", "assistant"} : Words(who, s) = Words(who, q)
                          /\ Exchange(s) = AsSent(Exchange(q), inbox[r].surface, p)
                          /\ Len(Images(s)) = Len(ImagesFor(q, inbox[r].surface, p))
                          /\ q.maxTokens # 0 => s.maxTokens = q.maxTokens
                          /\ s.temperature = q.temperature
    BY Zenon DEF NothingLostInTranslation
  <2>1. PICK q, x : q = inbox[r] /\ x = req[r].sent[i]
    OBVIOUS
  <2>2. PICK b, p, s : b = q.body /\ p = x.hop.provider /\ s = x.body
    OBVIOUS
  <2>3. /\ q.surface \in Surfaces /\ Conversation(q.surface, b) /\ Relays(x, q)
        /\ HasFields(b)
    BY Zenon, <2>1, <2>2 DEF SentInv, CarryInv, Carries, BodyOk
  <2>4. /\ b.turns \in Seq(SomeTurn)
        /\ Says(s, b, Manner(q.surface, p), Len(ImagesFor(b, q.surface, p)))
    BY Zenon, <2>2, <2>3, SentSays
  <2>5. Exchange(b) \in Seq(Deed)
    BY Zenon, <2>4, BodyReads
  <2>6. AsSent(Exchange(b), q.surface, p) = Phrased(Exchange(b), Manner(q.surface, p))
    BY Zenon, <2>5, SentInManner
  <2> QED BY Zenon, <2>1, <2>2, <2>4, <2>6 DEF Says, Bounded, Sides
<1> QED BY <1>1, CarriedAlong, PTL
===============================================================================
