---------------------------- MODULE RoutePlanning ----------------------------
(***************************************************************************)
(* Where a request goes: name resolution (src/models/aliases.ts), the      *)
(* complexity classifier (src/routing/complexity.ts), the planner with its *)
(* cascade and cross-provider fallbacks (src/routing/engine.ts,            *)
(* cross-provider.ts), the agent policy (policy.ts) and the gateway's glue *)
(* (planRouteFor, enforcePolicy).                                          *)
(*                                                                         *)
(* A model name is a record [space, id]: space is the part up to the first *)
(* ":" or "/" that the code looks at, "" when there is none.  A native id  *)
(* is a string; Family says which provider's prefix rule it matches.       *)
(***************************************************************************)
EXTENDS Filters, SequencesExt

CONSTANTS
  SmartAliases,     \* routing-mode name -> candidate
  ModelMapping,     \* friendly name -> candidate
  Family,           \* native id -> provider, for the ids a prefix rule knows
  SlashProvider,    \* "openai/" -> "openai", ... for the providers "/" allows
  BuiltInMapping,   \* <<from provider, to provider, model>> -> model
  Unsupported,      \* registered model -> the capabilities it lacks
  Text              \* text -> [signals, tokens, ands], what the classifier sees

Name(space, id) == [space |-> space, id |-> id]
Candidate(provider, model) == [provider |-> provider, model |-> model]
Unresolved == Candidate("none", "none")
IsCandidate(c) == c = Candidate(c.provider, c.model)

(* What a routing mode or a friendly name stands for is a candidate.       *)
ASSUME AliasAssumption ==
  /\ \A n \in DOMAIN SmartAliases : IsCandidate(SmartAliases[n])
  /\ \A n \in DOMAIN ModelMapping : IsCandidate(ModelMapping[n])

(* aipp:, relayplane: and rp: are one space; rp:auto means rp:balanced.    *)
NormalizeAlias(n) ==
  LET id == IF n.space \in {"aipp:", "relayplane:", "rp:"} /\ n.id = "auto"
            THEN "balanced" ELSE n.id
  IN  Name(IF n.space \in {"aipp:", "relayplane:"} THEN "rp:" ELSE n.space, id)

(* Overrides, then aliases, then the family prefixes, then provider/model. *)
ResolveModel(n, overrides) ==
  LET name  == IF n \in DOMAIN overrides THEN overrides[n] ELSE n
      alias == NormalizeAlias(name)
  IN  IF alias \in DOMAIN SmartAliases THEN SmartAliases[alias]
      ELSE IF alias \in DOMAIN ModelMapping THEN ModelMapping[alias]
      ELSE IF name.space = "" /\ name.id \in DOMAIN Family
           THEN Candidate(Family[name.id], name.id)
      ELSE IF name.space \in DOMAIN SlashProvider
           THEN Candidate(SlashProvider[name.space], name.id)
      ELSE Unresolved

------------------------------------------------------------------------------
(* The complexity classifier.  A message has a role and parts, a part a    *)
(* kind and a text, a sequence of texts joined; only parts of kind "text"  *)
(* (and plain strings) count, as in messageText.                           *)

SeenText(messages) ==
  LET parts == FlattenSeq([i \in DOMAIN messages |-> messages[i].parts])
      seen  == SelectSeq(parts, LAMBDA p : p.kind = "text")
  IN  FlattenSeq([i \in DOMAIN seen |-> seen[i].text])

SeenTokens(messages) ==
  FoldLeft(LAMBDA n, t : n + Text[t].tokens, 0, SeenText(messages))

SignalWeight(s) ==
  CASE s = "architecture" -> 3 [] s = "planning" -> 1 [] OTHER -> 2

(* The keyword signals are those of the last user message, or of the whole *)
(* conversation when no user speaks in it.                                 *)
Scored(messages) ==
  LET last == SelectLastInSeq(messages, LAMBDA m : m.role = "user")
  IN  IF last = 0 THEN messages ELSE <<messages[last]>>

Over(n, bounds) ==   \* how many points the highest bound below n is worth
  FoldLeft(LAMBDA points, b : IF n > b[1] THEN b[2] ELSE points, 0, bounds)

Score(messages) ==
  LET scored  == SeenText(Scored(messages))
      signals == UNION {Text[scored[i]].signals : i \in DOMAIN scored}
      ands    == FoldLeft(LAMBDA k, t : k + Text[t].ands, 0, scored)
  IN  MapThenSumSet(SignalWeight, signals)
      + Over(SeenTokens(Scored(messages)), <<<<500, 1>>, <<2000, 3>>, <<5000, 5>>>>)
      + Over(ands, <<<<2, 1>>, <<4, 2>>>>)
      + Over(SeenTokens(messages), <<<<20000, 2>>, <<50000, 3>>, <<100000, 5>>>>)
      + Over(Len(messages), <<<<20, 1>>, <<50, 2>>>>)

Band(score) ==
  CASE score >= 4 -> "complex" [] score \in 2..3 -> "moderate" [] OTHER -> "simple"

ClassifyComplexity(messages) == Band(Score(messages))

------------------------------------------------------------------------------
(* The planner.  routing is config.routing: [mode, tiers, chain, cross,    *)
(* enforce]; an entry of tiers or chain is a name or a candidate.          *)

CoerceModel(entry, overrides) ==
  IF "provider" \in DOMAIN entry THEN Candidate(entry.provider, entry.model)
  ELSE ResolveModel(entry, overrides)

KnownUnsupported(model, required) ==
  model \in DOMAIN Unsupported /\ Unsupported[model] \cap required # {}

FilterByCapabilities(candidates, required) ==
  Keep(candidates, {c \in ToSet(candidates) : ~ KnownUnsupported(c.model, required)})

(* No mapping, no candidate: there is no identity fallback.                *)
MapModel(model, from, to, custom) ==
  LET key == <<from, to, model>>
  IN  IF from = to THEN model
      ELSE IF key \in DOMAIN custom THEN custom[key]
      ELSE IF key \in DOMAIN BuiltInMapping THEN BuiltInMapping[key]
      ELSE "none"

(* The providers configured after the current one, or all of them.         *)
FallbackProviders(current, providers) ==
  LET i == SelectInSeq(providers, LAMBDA p : p = current)
  IN  SubSeq(providers, i + 1, Len(providers))

CrossProviderCandidates(primary, cross, required) ==
  LET mapped(to) == MapModel(primary.model, primary.provider, to, cross.mapping)
      later == FallbackProviders(primary.provider, cross.providers)
      tried == Keep(later, {to \in ToSet(later) : mapped(to) # "none"})
  IN  FilterByCapabilities([i \in DOMAIN tried |->
                            Candidate(tried[i], mapped(tried[i]))], required)

AppendNew(chain, c) == IF Contains(chain, c) THEN chain ELSE Append(chain, c)

(* The chain, and of more what it does not hold yet, one after the other.  *)
AppendEachNew(chain, more) ==
  LET joined[n \in 0..Len(more)] ==
        IF n = 0 THEN chain ELSE AppendNew(joined[n - 1], more[n])
  IN  joined[Len(more)]

CascadeChain(routing, overrides) ==
  LET named == [i \in DOMAIN routing.chain |-> CoerceModel(routing.chain[i], overrides)]
  IN  Keep(named, ToSet(named) \ {Unresolved})

(* The chain the mode selects, its primary first, and the reason recorded. *)
Selection(base, band, routing, overrides) ==
  LET tier  == IF band \in DOMAIN routing.tiers
               THEN CoerceModel(routing.tiers[band], overrides) ELSE Unresolved
      chain == CascadeChain(routing, overrides)
  IN  CASE routing.mode \in {"complexity", "auto"} /\ tier # Unresolved ->
             [chain |-> <<tier>>, reason |-> band]
        [] routing.mode \in {"complexity", "auto"} /\ tier = Unresolved ->
             [chain |-> <<base>>, reason |-> "unmapped"]
        [] routing.mode = "cascade" /\ chain # <<>> ->
             [chain |-> chain, reason |-> "cascade"]
        [] routing.mode = "cascade" /\ chain = <<>> ->
             [chain |-> <<base>>, reason |-> "unconfigured"]
        [] OTHER -> [chain |-> <<base>>, reason |-> routing.mode]

(* The decision: the mode's chain, extended across providers where         *)
(* configured, every fallback capability-preserving.                       *)
Extended(selected, required, routing) ==
  LET primary  == selected.chain[1]
      crossed  == IF routing.cross.enabled
                  THEN AppendEachNew(selected.chain,
                         CrossProviderCandidates(primary, routing.cross, required))
                  ELSE selected.chain
  IN  [primary |-> primary,
       fallbacks |-> FilterByCapabilities(Tail(crossed), required),
       reason |-> selected.reason, neverDowngrade |-> FALSE]

PlanRoute(base, messages, required, routing, overrides) ==
  IF base = Unresolved THEN Unresolved
  ELSE Extended(Selection(base, ClassifyComplexity(messages), routing, overrides),
                required, routing)

------------------------------------------------------------------------------
(* The agent policy: [agents, tasks]; a rule is [preferred, escalateTo,    *)
(* onComplexity, neverDowngrade], an agent adds a fingerprint and tasks.   *)

Preferred(rule, band) ==
  IF rule.onComplexity /\ band = "complex" THEN rule.escalateTo
  ELSE rule.preferred

MatchedAgent(policy, headers) ==
  LET byPrint == {a \in DOMAIN policy.agents :
                    headers.fingerprint # "none" /\
                    policy.agents[a].fingerprint = headers.fingerprint}
  IN  IF byPrint # {} THEN CHOOSE a \in byPrint : TRUE
      ELSE IF headers.agent \in DOMAIN policy.agents THEN headers.agent
      ELSE "none"

(* The rules that apply, most specific first: the agent's rule for the     *)
(* task, the task's rule, the agent's own.                                 *)
PolicyRules == <<"agent_task", "task", "agent">>

RulesFor(policy, headers) ==
  LET agent == MatchedAgent(policy, headers)
      entry == policy.agents[agent]
      applies(rule) ==
        CASE rule = "agent_task" -> agent # "none" /\ headers.task \in DOMAIN entry.tasks
          [] rule = "task" -> headers.task \in DOMAIN policy.tasks
          [] OTHER -> agent # "none"
  IN  Keep(PolicyRules, {rule \in ToSet(PolicyRules) : applies(rule)})

ResolvePolicy(policy, headers, band, candidate) ==
  LET rules == RulesFor(policy, headers)
      agent == policy.agents[MatchedAgent(policy, headers)]
      rule  == CASE rules[1] = "agent_task" -> agent.tasks[headers.task]
                 [] rules[1] = "task" -> policy.tasks[headers.task]
                 [] OTHER -> agent.rule
  IN  IF rules = <<>>
      THEN [model |-> candidate, neverDowngrade |-> FALSE, by |-> "routed"]
      ELSE [model |-> Preferred(rule, band),
            neverDowngrade |-> rule.neverDowngrade, by |-> rules[1]]

(* A rule replaces the primary alone; a name nobody knows leaves it.       *)
Resolved(decision, candidate, resolution, target) ==
  LET kept == [decision EXCEPT !.neverDowngrade = resolution.neverDowngrade]
  IN  IF resolution.model = candidate \/ target = Unresolved THEN kept
      ELSE [kept EXCEPT !.primary = target, !.reason = resolution.by]

EnforcePolicy(decision, policy, headers, messages, overrides) ==
  LET candidate  == Name(decision.primary.provider \o "/", decision.primary.model)
      resolution == ResolvePolicy(policy, headers,
                                  ClassifyComplexity(messages), candidate)
  IN  Resolved(decision, candidate, resolution,
               ResolveModel(resolution.model, overrides))

(* planRouteFor: the whole decision, or Unresolved.                        *)
PlanRouteFor(name, messages, required, config, headers) ==
  LET plan == PlanRoute(ResolveModel(name, config.overrides), messages, required,
                        config.routing, config.overrides)
  IN  IF plan # Unresolved /\ config.routing.enforce
      THEN EnforcePolicy(plan, config.policy, headers, messages, config.overrides)
      ELSE plan
=============================================================================
