----------------------------- MODULE ToolPolicy ------------------------------
(***************************************************************************)
(* Which of the tools a request offers may reach an upstream: the deny-by- *)
(* default tool authorizer of src/tools/authorization.ts, shared by the    *)
(* three client surfaces, and the hosted-tool rule of the Responses        *)
(* surface (src/protocols/openai-responses/tools.ts).                      *)
(*                                                                         *)
(* A tool is its name, and "" is one that has none: a Chat body may offer  *)
(* entries without function.name.  A pack lists its entries in order and   *)
(* has a default for the entries that inherit; for a tool no active pack   *)
(* lists, the code asks no default.                                        *)
(***************************************************************************)
EXTENDS Sequences, SequencesExt, Filters

CONSTANTS
  ToolsEnforced,    \* config.tools.enabled
  Packs,            \* pack name -> [entries, default], built-in and custom
  Agents,           \* agent id -> [allowPacks, denyPacks, overrides]
  DenyList,         \* config.tools.denyList
  AllowedHosted     \* protocols.openaiResponses.allowedHostedTools

ASSUME ToolAssumption ==
  /\ ToolsEnforced \in BOOLEAN
  /\ \A p \in DOMAIN Packs : Packs[p].default \in {"allow", "deny"}

(* The packs a request activates: the one its task type names, those its   *)
(* agent adds, without those its agent removes.                            *)
ActivePacks(task, agent) ==
  LET named == SelectSeq(<<task>>, LAMBDA p : p \in DOMAIN Packs)
      added == SelectSeq(Agents[agent].allowPacks,
                         LAMBDA p : p \in DOMAIN Packs /\ p # task)
  IN  IF agent \notin DOMAIN Agents
      THEN named
      ELSE SelectSeq(named \o added,
                     LAMBDA p : ~ Contains(Agents[agent].denyPacks, p))

(* What a pack says of the tools it lists; the first entry of a name wins. *)
EntryPolicy(pack, tool) ==
  LET i == SelectInSeq(pack.entries, LAMBDA e : e.name = tool)
      e == pack.entries[i]
  IN  IF e.policy = "inherit" THEN pack.default ELSE e.policy

Lists(pack, tool) == \E i \in DOMAIN pack.entries : pack.entries[i].name = tool

(* Mutant: an agent's override beats the deny list.                        *)
EffectivePolicyAs(tool, active, agent) ==
  LET first == SelectInSeq(active, LAMBDA p : Lists(Packs[p], tool))
      packed == IF first = 0 THEN "deny"
                ELSE EntryPolicy(Packs[active[first]], tool)
      overridden == /\ agent \in DOMAIN Agents
                    /\ tool \in DOMAIN Agents[agent].overrides
  IN  IF overridden THEN Agents[agent].overrides[tool]
      ELSE IF tool \in DenyList THEN "deny"
      ELSE packed

(* The policy of one tool: packs in order, then the agent's overrides,     *)
(* then the deny list; a tool nobody names is denied.                      *)
EffectivePolicy(tool, active, agent) ==
  LET first == SelectInSeq(active, LAMBDA p : Lists(Packs[p], tool))
      packed == IF first = 0 THEN "deny"
                ELSE EntryPolicy(Packs[active[first]], tool)
      overridden == /\ agent \in DOMAIN Agents
                    /\ tool \in DOMAIN Agents[agent].overrides
  IN  IF tool \in DenyList THEN "deny"
      ELSE IF overridden THEN Agents[agent].overrides[tool]
      ELSE packed

(* The names the authorizer is asked about.                                *)
RequestedNames(tools) == Keep(tools, ToSet(tools) \ {""})

(* The surfaces strip by the set of the names that are allowed.            *)
CheckTools(requested, active, agent) ==
  IF ~ ToolsEnforced
  THEN requested
  ELSE Keep(requested,
            {t \in ToSet(requested) : EffectivePolicy(t, active, agent) = "allow"})

(* What becomes of a request: its tools pass as they are, some are         *)
(* stripped from it, or it is rejected because none is left.  A tool       *)
(* without a name is not asked about, and is stripped with a denied one.   *)
Enforced(tools, task, agent) ==
  LET requested == RequestedNames(tools)
      allowed   == CheckTools(requested, ActivePacks(task, agent), agent)
  IN  IF allowed = requested
      THEN [action |-> "allow", tools |-> tools]
      ELSE [action |-> IF allowed = <<>> THEN "reject" ELSE "strip", tools |-> allowed]

(* Hosted tools run at OpenAI only, each one only if it is configured; one *)
(* that may not pass rejects the request.                                  *)
HostedPass(hosted, provider) ==
  hosted # {} => provider = "openai" /\ hosted \subseteq AllowedHosted
=============================================================================
