--------------------------- MODULE MCAttemptLoop ---------------------------
(* Instances of AttemptLoop for TLC.                                       *)
EXTENDS AttemptLoop

CONSTANTS anthropic, openai, zai, r1, r2

(* One request with everything its handler can do: rotation, retries, a    *)
(* candidate without an adapter, two models of one provider, statuses that *)
(* trigger a fallback.                                                     *)
OneRequest == {r1}
OneProviders == {anthropic, openai, zai}
OneRoutes ==
  {<<anthropic, anthropic>>, <<anthropic, openai, zai>>, <<openai, anthropic>>}
OneRegistered == {anthropic, openai}
OneAccounts == [p \in OneProviders |-> IF p = anthropic THEN 2 ELSE 0]

(* Two requests that share the breaker of two providers.                   *)
TwoRequests == {r1, r2}
TwoProviders == {anthropic, openai}
TwoRoutes == {<<anthropic, openai>>, <<openai>>}
TwoAccounts == [p \in TwoProviders |-> 0]

RequestSymmetry == Permutations(TwoRequests)
=============================================================================
