------------------------------- MODULE Anomalies ------------------------------
(***************************************************************************)
(* The anomaly detector (src/ops/anomaly/detector.ts) and the alert        *)
(* manager's deduplication and history (src/ops/alerts/manager.ts).        *)
(*                                                                         *)
(* A sample is [at, cost, pattern]; a pattern stands for a model with its  *)
(* token count rounded to hundreds.  The baseline that minuteBuckets keeps *)
(* only changes the wording of a velocity spike.                           *)
(***************************************************************************)
EXTENDS Integers, Sequences, SequencesExt, Filters

CONSTANTS
  BufferSize,       \* samples kept (100)
  Window,           \* windowMs
  Explosion,        \* tokenExplosionUsd
  Velocity,         \* velocityThreshold
  Repetition,       \* repetitionThreshold
  Accelerating,     \* samples before acceleration is considered (10)
  Cooldown,         \* cooldownMs of the alerts
  AlertAge,         \* the age at which opening the database deletes alerts
  MaxHistory        \* alerts kept

ASSUME AnomalyAssumption ==
  /\ {BufferSize, Window, Velocity, Repetition, MaxHistory} \subseteq Nat \ {0}
  /\ Accelerating \in Nat \ {0, 1} /\ {Explosion, Cooldown, AlertAge} \subseteq Nat

Sampled(samples, sample) ==
  LET added == Append(samples, sample)
  IN  IF Len(added) > BufferSize THEN Tail(added) ELSE added

Recent(samples, now) == Keep(samples, {s \in ToSet(samples) : s.at >= now - Window})

Repeated(samples, pattern) ==
  Len(Keep(samples, {s \in ToSet(samples) : s.pattern = pattern}))

(* Mutant: both comparisons are off by one.                                *)
RepetitionAs(recent) ==
  /\ Len(recent) > Repetition
  /\ \E i \in DOMAIN recent : Repeated(recent, recent[i].pattern) > Repetition

RepetitionIn(recent) ==
  /\ Len(recent) >= Repetition
  /\ \E i \in DOMAIN recent : Repeated(recent, recent[i].pattern) >= Repetition

Spend(samples) == FoldLeft(LAMBDA n, s : n + s.cost, 0, samples)

Span(samples) ==
  LET d == Last(samples).at - Head(samples).at IN IF d = 0 THEN 1 ELSE d

(* The second half of the window is spent more than twice as fast.         *)
AccelerationIn(recent) ==
  LET mid    == Len(recent) \div 2
      first  == SubSeq(recent, 1, mid)
      second == SubSeq(recent, mid + 1, Len(recent))
  IN  /\ Len(recent) >= Accelerating
      /\ Spend(first) > 0 /\ Spend(second) > 1
      /\ Spend(second) * Span(first) > 2 * Spend(first) * Span(second)

(* The anomalies a sample brings to light, in the order they are reported. *)
AnomalyTypes == <<"token_explosion", "velocity_spike", "repetition", "cost_acceleration">>

Detected(type, recent, sample) ==
  CASE type = "token_explosion" -> sample.cost > Explosion
    [] type = "velocity_spike" -> Len(recent) >= Velocity
    [] type = "repetition" -> RepetitionIn(recent)
    [] OTHER -> AccelerationIn(recent)

Analyze(samples, sample) ==
  LET recent == Recent(samples, sample.at)
  IN  Keep(AnomalyTypes, {t \in ToSet(AnomalyTypes) : Detected(t, recent, sample)})

Suppressed(dedup, type, now) ==
  type \in DOMAIN dedup /\ now - dedup[type] < Cooldown

(* isDuplicate marks the types it lets pass.                               *)
Marked(dedup, types, now) ==
  [t \in DOMAIN dedup \cup types |-> IF t \in types THEN now ELSE dedup[t]]

Newest(s, n) == SubSeq(s, IF Len(s) > n THEN Len(s) - n + 1 ELSE 1, Len(s))

(* store: insert, and delete the oldest rows over the limit.               *)
Stored(alerts, added) == Newest(alerts \o added, MaxHistory)

(* fireAnomaly for each of types: what is not suppressed is marked, then   *)
(* stored.  A store that throws ends the sink's handler: its type stays    *)
(* marked, the types after it are not tried.                               *)
Fired(dedup, alerts, types, now, boot, throws) ==
  LET due  == Keep(types, {t \in ToSet(types) : ~ Suppressed(dedup, t, now)})
      fail == throws /\ due # <<>>
  IN  [dedup  |-> Marked(dedup, IF fail THEN {due[1]} ELSE ToSet(due), now),
       thrown |-> IF fail THEN due[1] ELSE "none",
       alerts |-> IF fail THEN alerts
                  ELSE Stored(alerts, [i \in DOMAIN due |->
                                         [type |-> due[i], at |-> now, boot |-> boot]])]

(* The constructor deletes the alerts older than seven days.               *)
Unexpired(alerts, now) ==
  Keep(alerts, {a \in ToSet(alerts) : a.at >= now - AlertAge})
===============================================================================
