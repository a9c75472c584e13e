---------------------------- MODULE BudgetLedger ----------------------------
(***************************************************************************)
(* The unified budget ledger (src/ops/budget/budget.ts) as the gateway     *)
(* uses it: the downgrade decision and the pre-request check of            *)
(* handleMessages (src/gateway/server.ts), and the spend its sink          *)
(* (src/ops/budget/sink.ts) records when a request has been answered.      *)
(*                                                                         *)
(* The ledger is a table on disk; the check reads in-memory caches of its  *)
(* sums for the current day and hour, which are rolled forward when they   *)
(* are found to be of another window.  The table is represented by its two *)
(* sums (the rows of a day, the rows of an hour), spend and ceilings by    *)
(* numbers, time by the hour.  spentDay and spentHour are history          *)
(* variables: what the answered requests cost, whatever was recorded.      *)
(* The model has the budget enabled, with the default action, "block".     *)
(***************************************************************************)
EXTENDS Integers, FiniteSets

CONSTANTS
  Slots,          \* requests that may be in flight at once
  Unchecked,      \* those of the OpenAI surfaces, which never call check()
  MaxHour,        \* bound: the last hour
  DayOf,          \* the day of an hour
  Costs,          \* what a request may cost (0: no usage, or no price)
  MaxCost,        \* the largest of them
  DailyUsd,       \* config.dailyUsd
  HourlyUsd,      \* config.hourlyUsd
  DowngradeUsd,   \* the daily spend at routing.downgrade.thresholdPercent
  MaxArrivals,    \* bound: requests
  MaxRestarts     \* bound: restarts of the process

Hours == 0 .. MaxHour

Days == {DayOf[h] : h \in Hours}

ASSUME BudgetAssumption ==
  /\ IsFiniteSet(Slots)
  /\ Unchecked \subseteq Slots
  /\ MaxHour \in Nat
  /\ DayOf \in [Hours -> Nat]
  /\ \A h, k \in Hours : h <= k => DayOf[h] <= DayOf[k]
  /\ MaxCost \in Nat
  /\ Costs \subseteq 0 .. MaxCost
  /\ DailyUsd \in Nat \ {0}
  /\ HourlyUsd \in Nat \ {0}
  /\ DowngradeUsd \in Nat \ {0}
  /\ MaxArrivals \in Nat
  /\ MaxRestarts \in Nat

VARIABLES
  hour,       \* the wall clock
  up,         \* the process runs
  ledgerDay,  \* SUM(amount) of the rows of a day
  ledgerHour, \* SUM(amount) of the rows of an hour
  win,        \* dailyKey, hourlyKey, dailyCache, hourlyCache
  inflight,   \* the slots whose request was dispatched
  decision,   \* what the latest request was told
  arrivals,   \* requests so far
  restarts,   \* restarts so far
  failed,     \* history: the kinds of statements that have failed
  spentDay,   \* history: what requests answered on a day have cost
  spentHour,  \* history: the same for an hour
  freeDay,    \* history: the part of spentDay that Unchecked requests made
  freeHour    \* history: the same for an hour

vars == <<hour, up, ledgerDay, ledgerHour, win, inflight, decision, arrivals,
          restarts, failed, spentDay, spentHour, freeDay, freeHour>>

ledger == <<ledgerDay, ledgerHour>>

spent == <<spentDay, spentHour, freeDay, freeHour>>

-----------------------------------------------------------------------------

Today == DayOf[hour]

Windows == [day : Days, hour : Hours, daily : Nat, hourly : Nat]

Decision == [outcome : {"none", "dispatched", "blocked", "unchecked"},
             downgraded : BOOLEAN]

(* refreshWindows().                                                       *)
Refreshed == [day |-> Today, hour |-> hour,
              daily |-> ledgerDay[Today], hourly |-> ledgerHour[hour]]

(* ensureWindows().                                                        *)
Rolled ==
  [day |-> Today, hour |-> hour,
   daily |-> IF win.day = Today THEN win.daily ELSE ledgerDay[Today],
   hourly |-> IF win.hour = hour THEN win.hourly ELSE ledgerHour[hour]]

(* ensureWindows() when its SELECT throws: the key has moved already, the  *)
(* sum has not, and the window after it is not looked at.                  *)
HalfRolled ==
  {w \in {[day |-> Today, hour |-> win.hour,
           daily |-> win.daily, hourly |-> win.hourly]} : win.day # Today}
  \cup
  {w \in {[day |-> Today, hour |-> hour,
           daily |-> Rolled.daily, hourly |-> win.hourly]} : win.hour # hour}

(* Mutant: the ceilings may be exceeded by one.                            *)
BreachedLate(w) == w.hourly > HourlyUsd \/ w.daily > DailyUsd

(* The hourly and the daily ceiling; the caller gives no estimate to hold  *)
(* against the per-request one.                                            *)
Breached(w) == w.hourly >= HourlyUsd \/ w.daily >= DailyUsd

(* Mutant: the downgrade goes by the hour's spend.                         *)
DowngradesByHour(w) == w.hourly >= DowngradeUsd

(* dailyPercent() against the threshold, as checkDowngrade does.           *)
Downgrades(w) == w.daily >= DowngradeUsd

Added(w, c) ==
  [day |-> w.day, hour |-> w.hour, daily |-> w.daily + c,
   hourly |-> w.hourly + c]

-----------------------------------------------------------------------------

(* The clock moves on to the next hour.                                    *)
Tick ==
  /\ hour < MaxHour
  /\ hour' = hour + 1
  /\ UNCHANGED <<up, ledger, win, inflight, decision, arrivals, restarts,
                 failed, spent>>

(* Mutant: a request that is blocked is dispatched all the same.           *)
AdmitAll(s, w) ==
  /\ inflight' = inflight \cup {s}
  /\ decision' = [outcome |-> "dispatched", downgraded |-> Downgrades(win)]

(* The downgrade looks at the caches as they are; the check rolls them.    *)
Decide(s, w) ==
  IF Breached(w)
  THEN /\ decision' = [outcome |-> "blocked", downgraded |-> Downgrades(win)]
       /\ UNCHANGED inflight
  ELSE /\ decision' = [outcome |-> "dispatched", downgraded |-> Downgrades(win)]
       /\ inflight' = inflight \cup {s}

Arrive(s) ==
  /\ up
  /\ s \in Slots \ (inflight \cup Unchecked)
  /\ arrivals < MaxArrivals
  /\ arrivals' = arrivals + 1
  /\ win' = Rolled
  /\ Decide(s, Rolled)
  /\ UNCHANGED <<hour, up, ledger, restarts, failed, spent>>

(* A SELECT of check() or getStatus() throws: nothing catches what the     *)
(* handler throws, and an unhandled rejection ends the process.            *)
HandlerThrows ==
  /\ up
  /\ HalfRolled # {}
  /\ failed' = failed \cup {"select"}
  /\ up' = FALSE
  /\ inflight' = {}
  /\ UNCHANGED <<hour, ledger, win, decision, arrivals, restarts, spent>>

(* A request of another surface is dispatched without a look at the ledger.*)
ArriveUnchecked(s) ==
  /\ up
  /\ s \in Unchecked \ inflight
  /\ arrivals < MaxArrivals
  /\ arrivals' = arrivals + 1
  /\ inflight' = inflight \cup {s}
  /\ decision' = [outcome |-> "unchecked", downgraded |-> FALSE]
  /\ UNCHANGED <<hour, up, ledger, win, restarts, failed, spent>>

(* A request is answered, at a cost; its sink is called at once.           *)
Answer(s, c) ==
  /\ s \in inflight
  /\ inflight' = inflight \ {s}
  /\ spentDay' = [spentDay EXCEPT ![Today] = @ + c]
  /\ spentHour' = [spentHour EXCEPT ![hour] = @ + c]
  /\ LET free == IF s \in Unchecked THEN c ELSE 0 IN
     /\ freeDay' = [freeDay EXCEPT ![Today] = @ + free]
     /\ freeHour' = [freeHour EXCEPT ![hour] = @ + free]
  /\ UNCHANGED <<hour, up, decision, arrivals, restarts>>

(* Mutant: the row is stamped with the windows as they were.               *)
InsertedUnrolled(c) ==
  /\ ledgerDay' = [ledgerDay EXCEPT ![win.day] = @ + c]
  /\ ledgerHour' = [ledgerHour EXCEPT ![win.hour] = @ + c]

Inserted(c) ==
  /\ ledgerDay' = [ledgerDay EXCEPT ![Today] = @ + c]
  /\ ledgerHour' = [ledgerHour EXCEPT ![hour] = @ + c]

(* recordSpend(); a request without cost records nothing.                  *)
Record(s, c) ==
  /\ Answer(s, c)
  /\ win' = IF c = 0 THEN win ELSE Added(Rolled, c)
  /\ Inserted(c)
  /\ UNCHANGED failed

(* The row cannot be inserted: the caches have the spend already.          *)
RecordInsertFails(s, c) ==
  /\ c > 0
  /\ Answer(s, c)
  /\ win' = Added(Rolled, c)
  /\ failed' = failed \cup {"insert"}
  /\ UNCHANGED ledger

(* The windows cannot be rolled: the spend is recorded nowhere.  The sink's *)
(* registry catches what recordSpend() throws.                             *)
RecordReadFails(s, c) ==
  /\ c > 0
  /\ Answer(s, c)
  /\ win' \in HalfRolled
  /\ failed' = failed \cup {"read"}
  /\ UNCHANGED ledger

(* getStatus(), of the dashboard.                                          *)
GetStatus ==
  /\ up
  /\ win' = Rolled
  /\ UNCHANGED <<hour, up, ledger, inflight, decision, arrivals, restarts, failed,
                 spent>>

(* The process is killed.                                                  *)
Kill ==
  /\ up
  /\ up' = FALSE
  /\ inflight' = {}
  /\ UNCHANGED <<hour, ledger, win, decision, arrivals, restarts, failed,
                 spent>>

(* Mutant: the caches start from nothing.                                  *)
RestartFromZero ==
  /\ ~up
  /\ restarts < MaxRestarts
  /\ up' = TRUE
  /\ restarts' = restarts + 1
  /\ win' = [day |-> Today, hour |-> hour, daily |-> 0, hourly |-> 0]
  /\ UNCHANGED <<hour, ledger, inflight, decision, arrivals, failed, spent>>

Restart ==
  /\ ~up
  /\ restarts < MaxRestarts
  /\ up' = TRUE
  /\ restarts' = restarts + 1
  /\ win' = Refreshed
  /\ UNCHANGED <<hour, ledger, inflight, decision, arrivals, failed, spent>>

-----------------------------------------------------------------------------

Nothing == [d \in Days |-> 0]

Init ==
  /\ hour = 0
  /\ up = TRUE
  /\ ledgerDay = Nothing
  /\ ledgerHour = [h \in Hours |-> 0]
  /\ win = [day |-> DayOf[0], hour |-> 0, daily |-> 0, hourly |-> 0]
  /\ inflight = {}
  /\ decision = [outcome |-> "none", downgraded |-> FALSE]
  /\ arrivals = 0
  /\ restarts = 0
  /\ failed = {}
  /\ spentDay = Nothing
  /\ spentHour = [h \in Hours |-> 0]
  /\ freeDay = Nothing
  /\ freeHour = [h \in Hours |-> 0]

Next ==
  \/ Tick
  \/ \E s \in Slots : Arrive(s) \/ ArriveUnchecked(s)
  \/ HandlerThrows
  \/ \E s \in Slots, c \in Costs :
       Record(s, c) \/ RecordInsertFails(s, c) \/ RecordReadFails(s, c)
  \/ GetStatus
  \/ Kill
  \/ Restart

Spec == Init /\ [][Next]_vars

-----------------------------------------------------------------------------

(* Every variable keeps its type, and the caches are never of a window to  *)
(* come.                                                                   *)
TypeOK ==
  /\ hour \in Hours
  /\ up \in BOOLEAN
  /\ ledgerDay \in [Days -> Nat]
  /\ ledgerHour \in [Hours -> Nat]
  /\ win \in Windows
  /\ win.hour <= hour /\ win.day <= Today
  /\ inflight \subseteq Slots
  /\ decision \in Decision
  /\ arrivals \in Nat
  /\ restarts \in Nat
  /\ failed \subseteq {"insert", "read", "select"}
  /\ spentDay \in [Days -> Nat]
  /\ spentHour \in [Hours -> Nat]
  /\ freeDay \in [Days -> Nat]
  /\ freeHour \in [Hours -> Nat]

(* No window was rolled forward without its sum, and no spend that is in   *)
(* memory only was lost in a restart.                                      *)
Trusted == "read" \notin failed /\ ("insert" \notin failed \/ restarts = 0)

(* Every cent is counted once, whatever the order of rolls, answers and    *)
(* restarts: the caches hold what the requests answered in their windows   *)
(* have cost, and a window that was left behind is one in which a later    *)
(* request has cost nothing yet.                                           *)
SpendCounted ==
  Trusted =>
    /\ win.daily = spentDay[win.day]
    /\ win.hourly = spentHour[win.hour]
    /\ win.day # Today => spentDay[Today] = 0
    /\ win.hour # hour => spentHour[hour] = 0

(* The ledger never claims more than was spent, and unless a spend could   *)
(* not be recorded it has all of it: a restart forgets nothing.            *)
LedgerIsSpend ==
  /\ \A d \in Days : ledgerDay[d] <= spentDay[d]
  /\ failed \cap {"insert", "read"} = {} =>
       ledgerDay = spentDay /\ ledgerHour = spentHour

(* A request that is checked is blocked exactly when the day's or the      *)
(* hour's spend, by the clock and not by the caches, has reached its       *)
(* ceiling.                                                                *)
BlockedIffSpent ==
  [][arrivals' # arrivals /\ Trusted' /\ decision'.outcome # "unchecked" =>
       (decision'.outcome = "blocked" <=>
          spentHour[hour] >= HourlyUsd \/ spentDay[Today] >= DailyUsd)]_vars

(* The check comes before the spend: requests that were dispatched under   *)
(* the ceiling may pass it together, but by no more than one cost each;    *)
(* what is spent beyond that, the unchecked requests have spent.           *)
Overshoot == MaxCost * Cardinality(Slots \ Unchecked)

OvershootBounded ==
  Trusted =>
    /\ spentDay[Today] - freeDay[Today] < DailyUsd + Overshoot
    /\ spentHour[hour] - freeHour[hour] < HourlyUsd + Overshoot

(* Once the day's spend has reached the threshold every further request    *)
(* that is checked is downgraded.                                          *)
NoDowngradeMissed ==
  [][  /\ arrivals' # arrivals
       /\ Trusted
       /\ decision'.outcome # "unchecked"
       /\ spentDay[Today] >= DowngradeUsd
     => decision'.downgraded]_vars

=============================================================================
