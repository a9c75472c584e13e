---------------------------- MODULE ResponseCache -----------------------------
(***************************************************************************)
(* The response cache of src/ops/cache/cache.ts: which requests share an   *)
(* entry, when an entry answers, and what an insert evicts.                *)
(*                                                                         *)
(* A table maps keys to rows [answer, model, created, expires]; it is the  *)
(* SQLite table, so it survives a restart.                                 *)
(***************************************************************************)
EXTENDS Integers, Sequences, FiniteSets, SequencesExt

CONSTANTS
  CacheTtl,         \* defaultTtlSeconds
  CacheBudget,      \* maxSizeMb, in the units of SizeOf
  SizeOf(_)         \* the size of a stored answer

ASSUME CacheAssumption == CacheTtl \in Nat /\ CacheBudget \in Nat

EmptyTable == [k \in {} |-> {}]

(* Mutant: the tools a client offers are not part of the question.         *)
ComputeCacheKeyAs(name, b) ==
  [model |-> name, system |-> b.system, messages |-> b.turns,
   choice |-> b.choice, maxTokens |-> b.maxTokens, temperature |-> b.temperature]

(* The fields of a Messages body the key is computed from.  stream,        *)
(* thinking and everything else a client may send is not among them.       *)
ComputeCacheKey(name, b) ==
  [model |-> name, system |-> b.system, messages |-> b.turns,
   tools |-> b.tools, choice |-> b.choice, maxTokens |-> b.maxTokens,
   temperature |-> b.temperature]

ShouldBypass(b) == b.temperature # 0

(* A row answers until it expires; looking up an expired row deletes it.   *)
Fresh(row, now) == row.expires > now

CacheHit(table, key, now) == key \in DOMAIN table /\ Fresh(table[key], now)

AfterLookup(table, key, now) ==
  IF key \in DOMAIN table /\ ~ CacheHit(table, key, now)
  THEN Restrict(table, DOMAIN table \ {key}) ELSE table

(* The sum of the sizes, as a count of what is stored unit by unit.        *)
Units(table) == UNION {{k} \X (1..SizeOf(table[k].answer)) : k \in DOMAIN table}
TotalSize(table) == Cardinality(Units(table))

(* Mutant: the youngest rows go first.                                     *)
EvictedAs(table) ==
  {kept \in SUBSET DOMAIN table :
     LET gone == DOMAIN table \ kept
         rest == Restrict(table, kept)
     IN  /\ TotalSize(rest) <= CacheBudget
         /\ \A g \in gone, k \in kept : table[g].created >= table[k].created
         /\ gone # {} =>
              \E last \in gone :
                TotalSize(rest) + SizeOf(table[last].answer) > CacheBudget}

(* What may be left when the oldest rows are deleted until the rest fits;  *)
(* rows created at the same time go in any order.                          *)
Evicted(table) ==
  {kept \in SUBSET DOMAIN table :
     LET gone == DOMAIN table \ kept
         rest == Restrict(table, kept)
     IN  /\ TotalSize(rest) <= CacheBudget
         /\ \A g \in gone, k \in kept : table[g].created <= table[k].created
         /\ gone # {} =>
              \E last \in gone :
                /\ \A g \in gone : table[g].created <= table[last].created
                /\ TotalSize(rest) + SizeOf(table[last].answer) > CacheBudget}

(* set: replace the row, then evict; the tables that may result.           *)
AfterStore(table, key, model, answer, now) ==
  LET row    == [answer |-> answer, model |-> model, created |-> now,
                 expires |-> now + CacheTtl]
      stored == [k \in DOMAIN table \cup {key} |->
                   IF k = key THEN row ELSE table[k]]
  IN  {Restrict(stored, kept) : kept \in Evicted(stored)}
=============================================================================
