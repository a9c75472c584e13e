------------------------- MODULE BudgetLedgerProofs -------------------------
(***************************************************************************)
(* For any ceilings, costs, calendar and number of requests: the types,    *)
(* every cent counted once, blocking exactly at the ceilings, and the      *)
(* bound on what may be spent beyond them.                                 *)
(***************************************************************************)
EXTENDS BudgetLedger, FiniteSetTheorems, TLAPS

USE BudgetAssumption DEF Hours

LEMMA TodayIsADay ==
  ASSUME hour \in Hours
  PROVE  Today \in Days /\ Today \in Nat
BY DEF Today, Days

(* Rolling the windows yields windows, whether the reads succeed or not.   *)
LEMMA RollsAreWindows ==
  ASSUME TypeOK
  PROVE  /\ Rolled \in Windows /\ Refreshed \in Windows
         /\ \A w \in HalfRolled : w \in Windows /\ w.hour <= hour
                                  /\ w.day <= Today
         /\ \A c \in Nat : Added(Rolled, c) =
              [day |-> Today, hour |-> hour, daily |-> Rolled.daily + c,
               hourly |-> Rolled.hourly + c]
<1>1. Today \in Days /\ Today \in Nat
  BY TodayIsADay DEF TypeOK
<1>2. /\ win.day \in Days /\ win.hour \in Hours
      /\ win.daily \in Nat /\ win.hourly \in Nat
  BY DEF TypeOK, Windows
<1>3. ledgerDay[Today] \in Nat /\ ledgerHour[hour] \in Nat
  BY <1>1 DEF TypeOK
<1>4. Rolled \in Windows /\ Refreshed \in Windows
  BY <1>1, <1>2, <1>3 DEF Rolled, Refreshed, Windows, TypeOK
<1>5. ASSUME NEW w \in HalfRolled
      PROVE  w \in Windows /\ w.hour <= hour /\ w.day <= Today
  <2>1. CASE w = [day |-> Today, hour |-> win.hour, daily |-> win.daily,
                  hourly |-> win.hourly]
    BY <1>1, <1>2, <2>1 DEF Windows, TypeOK
  <2>2. CASE w = [day |-> Today, hour |-> hour, daily |-> Rolled.daily,
                  hourly |-> win.hourly]
    <3>1. Rolled.daily \in Nat
      BY <1>4 DEF Windows
    <3>2. hour \in Hours /\ hour <= hour /\ Today <= Today
      BY <1>1 DEF TypeOK
    <3>3. w \in Windows /\ w.day = Today /\ w.hour = hour
      <4> DEFINE d == Rolled.daily
      <4> HIDE DEF d
      <4>1. d \in Nat /\ w = [day |-> Today, hour |-> hour, daily |-> d,
                             hourly |-> win.hourly]
        BY <2>2, <3>1, Zenon DEF d
      <4> QED
        BY <1>1, <1>2, <3>2, <4>1 DEF Windows
    <3> QED
      BY <3>2, <3>3
  <2> QED
    BY <1>5, <2>1, <2>2, Zenon DEF HalfRolled
<1>6. ASSUME NEW c \in Nat
      PROVE  Added(Rolled, c) =
               [day |-> Today, hour |-> hour, daily |-> Rolled.daily + c,
                hourly |-> Rolled.hourly + c]
  BY DEF Added, Rolled
<1> QED
  BY <1>4, <1>5, <1>6

-----------------------------------------------------------------------------

LEMMA TypeInit == Init => TypeOK
<1> SUFFICES ASSUME Init PROVE TypeOK
  OBVIOUS
<1>1. 0 \in Hours
  OBVIOUS
<1>2. DayOf[0] \in Days /\ DayOf[0] \in Nat
  BY <1>1 DEF Days
<1> QED
  BY <1>1, <1>2 DEF Init, TypeOK, Nothing, Windows, Decision, Today

LEMMA Bump ==
  ASSUME NEW S, NEW f \in [S -> Nat], NEW i \in S, NEW c \in Nat
  PROVE  [f EXCEPT ![i] = @ + c] \in [S -> Nat]
OBVIOUS

(* What every answer does, whether its cost could be recorded or not.      *)
LEMMA AnswerTypes ==
  ASSUME TypeOK, NEW s \in Slots, NEW c \in Costs, Answer(s, c)
  PROVE  /\ c \in Nat
         /\ hour' = hour /\ Today' = Today
         /\ UNCHANGED <<up, decision, arrivals, restarts>>
         /\ inflight' \subseteq Slots
         /\ spentDay' \in [Days -> Nat] /\ spentHour' \in [Hours -> Nat]
         /\ freeDay' \in [Days -> Nat] /\ freeHour' \in [Hours -> Nat]
<1>1. c \in Nat /\ Today \in Days /\ hour \in Hours
  BY TodayIsADay DEF TypeOK
<1>2. hour' = hour /\ Today' = Today
  BY DEF Answer, Today
<1> DEFINE free == IF s \in Unchecked THEN c ELSE 0
<1>3. free \in Nat
  BY <1>1
<1>4. /\ spentDay' = [spentDay EXCEPT ![Today] = @ + c]
      /\ spentHour' = [spentHour EXCEPT ![hour] = @ + c]
      /\ freeDay' = [freeDay EXCEPT ![Today] = @ + free]
      /\ freeHour' = [freeHour EXCEPT ![hour] = @ + free]
  BY DEF Answer
<1> HIDE DEF free
<1>5. /\ spentDay' \in [Days -> Nat] /\ spentHour' \in [Hours -> Nat]
      /\ freeDay' \in [Days -> Nat] /\ freeHour' \in [Hours -> Nat]
  <2>1. /\ spentDay \in [Days -> Nat] /\ spentHour \in [Hours -> Nat]
        /\ freeDay \in [Days -> Nat] /\ freeHour \in [Hours -> Nat]
    BY DEF TypeOK
  <2> QED
    BY <1>1, <1>3, <1>4, <2>1, Bump, Zenon
<1>6. inflight' \subseteq Slots /\ UNCHANGED <<up, decision, arrivals, restarts>>
  BY DEF Answer, TypeOK
<1> QED
  BY <1>1, <1>2, <1>5, <1>6

(* The windows after the spend has been added to them.                     *)
LEMMA AddedTypes ==
  ASSUME TypeOK, NEW c \in Nat
  PROVE  /\ Added(Rolled, c) \in Windows
         /\ Added(Rolled, c).hour = hour /\ Added(Rolled, c).day = Today
<1>1. Rolled.daily + c \in Nat /\ Rolled.hourly + c \in Nat
  <2>1. Rolled \in Windows
    BY RollsAreWindows
  <2> QED
    BY <2>1 DEF Windows
<1>2. Today \in Days /\ hour \in Hours
  BY TodayIsADay DEF TypeOK
<1>3. Added(Rolled, c) =
        [day |-> Today, hour |-> hour, daily |-> Rolled.daily + c,
         hourly |-> Rolled.hourly + c]
  BY RollsAreWindows
<1> QED
  BY <1>1, <1>2, <1>3 DEF Windows

(* The types after a step that leaves the clock alone.                     *)
LEMMA TypeAgain ==
  ASSUME TypeOK, hour' = hour, up' \in BOOLEAN,
         ledgerDay' \in [Days -> Nat], ledgerHour' \in [Hours -> Nat],
         win' \in Windows, win'.hour <= hour, win'.day <= Today,
         inflight' \subseteq Slots, decision' \in Decision,
         arrivals' \in Nat, restarts' \in Nat,
         failed' \subseteq {"insert", "read", "select"},
         spentDay' \in [Days -> Nat], spentHour' \in [Hours -> Nat],
         freeDay' \in [Days -> Nat], freeHour' \in [Hours -> Nat]
  PROVE  TypeOK'
<1>1. Today' = Today
  BY DEF Today
<1>2. hour' \in Hours /\ win'.hour <= hour' /\ win'.day <= Today'
  BY <1>1 DEF TypeOK
<1> QED
  BY <1>2, Zenon DEF TypeOK

LEMMA TypeStep == TypeOK /\ [Next]_vars => TypeOK'
<1> SUFFICES ASSUME TypeOK, [Next]_vars PROVE TypeOK'
  OBVIOUS
<1>0. /\ Today \in Days /\ Today \in Nat
      /\ hour \in Hours /\ hour <= hour /\ Today <= Today
  BY TodayIsADay DEF TypeOK
<1>r. /\ Rolled \in Windows /\ Refreshed \in Windows
      /\ Rolled.hour = hour /\ Rolled.day = Today
      /\ Refreshed.hour = hour /\ Refreshed.day = Today
  BY RollsAreWindows DEF Rolled, Refreshed
<1>h. \A w \in HalfRolled : w \in Windows /\ w.hour <= hour /\ w.day <= Today
  BY RollsAreWindows
<1>d. Downgrades(win) \in BOOLEAN
  BY DEF Downgrades
<1>t. /\ up \in BOOLEAN
      /\ ledgerDay \in [Days -> Nat] /\ ledgerHour \in [Hours -> Nat]
      /\ win \in Windows /\ win.hour <= hour /\ win.day <= Today
      /\ inflight \subseteq Slots /\ decision \in Decision
      /\ arrivals \in Nat /\ restarts \in Nat
      /\ failed \subseteq {"insert", "read", "select"}
      /\ spentDay \in [Days -> Nat] /\ spentHour \in [Hours -> Nat]
      /\ freeDay \in [Days -> Nat] /\ freeHour \in [Hours -> Nat]
  BY DEF TypeOK
<1>1. CASE Tick
  <2>1. hour' \in Hours /\ hour <= hour'
    BY <1>1, <1>0 DEF Tick
  <2>2. Today' \in Nat /\ Today <= Today'
    BY <1>0, <2>1 DEF Today
  <2>3. win.hour \in Nat /\ win.day \in Nat /\ hour \in Nat /\ hour' \in Nat
    BY <1>0, <1>t, <2>1 DEF Windows, Days
  <2>4. win'.hour <= hour' /\ win'.day <= Today'
    <3>1. win.hour <= hour'
      <4>1. win.hour <= hour /\ hour <= hour'
        BY <1>t, <2>1
      <4> QED
        BY <2>3, <4>1
    <3>3. win.day <= Today'
      <4>1. win.day <= Today /\ Today <= Today'
        BY <1>t, <2>2
      <4> QED
        BY <1>0, <2>2, <2>3, <4>1
    <3>2. win' = win
      BY <1>1 DEF Tick
    <3> QED
      BY <3>1, <3>2, <3>3
  <2>5. UNCHANGED <<up, ledgerDay, ledgerHour, win, inflight, decision, arrivals,
                    restarts, failed, spentDay, spentHour, freeDay, freeHour>>
    BY <1>1 DEF Tick, ledger, spent
  <2> QED
    BY <1>t, <2>1, <2>4, <2>5 DEF TypeOK
<1>2. ASSUME NEW s \in Slots, Arrive(s) PROVE TypeOK'
  <2>1. /\ hour' = hour /\ win' = Rolled /\ arrivals' = arrivals + 1
        /\ UNCHANGED <<up, ledgerDay, ledgerHour, restarts, failed, spentDay,
                       spentHour, freeDay, freeHour>>
    BY <1>2 DEF Arrive, ledger, spent
  <2>2. inflight' \subseteq Slots /\ decision' \in Decision
    <3>1. Decide(s, Rolled)
      BY <1>2 DEF Arrive
    <3>2. \/ /\ decision' = [outcome |-> "blocked",
                             downgraded |-> Downgrades(win)]
             /\ inflight' = inflight
          \/ /\ decision' = [outcome |-> "dispatched",
                             downgraded |-> Downgrades(win)]
             /\ inflight' = inflight \cup {s}
      BY <3>1, Zenon DEF Decide
    <3>3. decision' \in Decision
      BY <1>d, <3>2 DEF Decision
    <3> QED
      BY <1>t, <3>2, <3>3
  <2>3. arrivals' \in Nat /\ win' \in Windows /\ win'.hour <= hour
        /\ win'.day <= Today
    BY <1>0, <1>r, <1>t, <2>1
  <2> QED
    BY <1>t, <2>1, <2>2, <2>3, TypeAgain, Zenon
<1>3. ASSUME NEW s \in Slots, ArriveUnchecked(s) PROVE TypeOK'
  <2>1. /\ hour' = hour /\ arrivals' = arrivals + 1
        /\ inflight' \subseteq Slots /\ decision' \in Decision
        /\ UNCHANGED <<up, ledgerDay, ledgerHour, win, restarts, failed, spentDay,
                       spentHour, freeDay, freeHour>>
    BY <1>3, <1>t DEF ArriveUnchecked, ledger, spent, Decision
  <2>2. arrivals' \in Nat
    BY <1>t, <2>1
  <2> QED
    BY <1>t, <2>1, <2>2, TypeAgain, Zenon
<1>4. CASE HandlerThrows
  <2>1. /\ hour' = hour /\ up' = FALSE /\ inflight' = {}
        /\ failed' \subseteq {"insert", "read", "select"}
        /\ UNCHANGED <<ledgerDay, ledgerHour, win, decision, arrivals, restarts,
                       spentDay, spentHour, freeDay, freeHour>>
    BY <1>4, <1>t DEF HandlerThrows, ledger, spent
  <2>2. up' \in BOOLEAN /\ inflight' \subseteq Slots
    BY <2>1
  <2> QED
    BY <1>t, <2>1, <2>2, TypeAgain, Zenon
<1>5. ASSUME NEW s \in Slots, NEW c \in Costs, Record(s, c) PROVE TypeOK'
  <2>1. Answer(s, c) /\ Inserted(c) /\ failed' = failed
        /\ (win' = win \/ win' = Added(Rolled, c))
    BY <1>5 DEF Record
  <2>2. /\ c \in Nat /\ hour' = hour
        /\ UNCHANGED <<up, decision, arrivals, restarts>>
        /\ inflight' \subseteq Slots
        /\ spentDay' \in [Days -> Nat] /\ spentHour' \in [Hours -> Nat]
        /\ freeDay' \in [Days -> Nat] /\ freeHour' \in [Hours -> Nat]
    BY <2>1, AnswerTypes
  <2>3. ledgerDay' \in [Days -> Nat] /\ ledgerHour' \in [Hours -> Nat]
    BY <1>0, <1>t, <2>1, <2>2, Bump, Zenon DEF Inserted
  <2>4. win' \in Windows /\ win'.hour <= hour /\ win'.day <= Today
    <3>1. CASE win' = win
      BY <1>t, <3>1
    <3>2. CASE win' = Added(Rolled, c)
      BY <1>0, <2>2, <3>2, AddedTypes
    <3> QED
      BY <2>1, <3>1, <3>2
  <2> QED
    BY <1>t, <2>1, <2>2, <2>3, <2>4, TypeAgain, Zenon
<1>6. ASSUME NEW s \in Slots, NEW c \in Costs, RecordInsertFails(s, c)
      PROVE  TypeOK'
  <2>1. Answer(s, c) /\ win' = Added(Rolled, c)
        /\ failed' \subseteq {"insert", "read", "select"}
        /\ UNCHANGED <<ledgerDay, ledgerHour>>
    BY <1>6, <1>t DEF RecordInsertFails, ledger
  <2>2. /\ c \in Nat /\ hour' = hour
        /\ UNCHANGED <<up, decision, arrivals, restarts>>
        /\ inflight' \subseteq Slots
        /\ spentDay' \in [Days -> Nat] /\ spentHour' \in [Hours -> Nat]
        /\ freeDay' \in [Days -> Nat] /\ freeHour' \in [Hours -> Nat]
    BY <2>1, AnswerTypes
  <2>3. win' \in Windows /\ win'.hour <= hour /\ win'.day <= Today
    BY <1>0, <2>1, <2>2, AddedTypes
  <2> QED
    BY <1>t, <2>1, <2>2, <2>3, TypeAgain, Zenon
<1>7. ASSUME NEW s \in Slots, NEW c \in Costs, RecordReadFails(s, c)
      PROVE  TypeOK'
  <2>1. Answer(s, c) /\ win' \in HalfRolled
        /\ failed' \subseteq {"insert", "read", "select"}
        /\ UNCHANGED <<ledgerDay, ledgerHour>>
    BY <1>7, <1>t DEF RecordReadFails, ledger
  <2>2. /\ hour' = hour
        /\ UNCHANGED <<up, decision, arrivals, restarts>>
        /\ inflight' \subseteq Slots
        /\ spentDay' \in [Days -> Nat] /\ spentHour' \in [Hours -> Nat]
        /\ freeDay' \in [Days -> Nat] /\ freeHour' \in [Hours -> Nat]
    BY <2>1, AnswerTypes
  <2>3. win' \in Windows /\ win'.hour <= hour /\ win'.day <= Today
    BY <1>h, <2>1
  <2> QED
    BY <1>t, <2>1, <2>2, <2>3, TypeAgain, Zenon
<1>8. CASE GetStatus
  <2>1. /\ hour' = hour /\ win' = Rolled
        /\ UNCHANGED <<up, ledgerDay, ledgerHour, inflight, decision, arrivals,
                       restarts, failed, spentDay, spentHour, freeDay,
                       freeHour>>
    BY <1>8 DEF GetStatus, ledger, spent
  <2>2. win' \in Windows /\ win'.hour <= hour /\ win'.day <= Today
    BY <1>0, <1>r, <2>1
  <2> QED
    BY <1>t, <2>1, <2>2, TypeAgain, Zenon
<1>9. CASE Restart
  <2>1. /\ hour' = hour /\ up' = TRUE /\ win' = Refreshed
        /\ restarts' = restarts + 1
        /\ UNCHANGED <<ledgerDay, ledgerHour, inflight, decision, arrivals,
                       failed, spentDay, spentHour, freeDay, freeHour>>
    BY <1>9 DEF Restart, ledger, spent
  <2>2. win' \in Windows /\ win'.hour <= hour /\ win'.day <= Today
    BY <1>0, <1>r, <2>1
  <2>3. up' \in BOOLEAN /\ restarts' \in Nat
    BY <1>t, <2>1
  <2> QED
    BY <1>t, <2>1, <2>2, <2>3, TypeAgain, Zenon
<1>11. CASE Kill
  <2>1. /\ hour' = hour /\ up' = FALSE /\ inflight' = {}
        /\ UNCHANGED <<ledgerDay, ledgerHour, win, decision, arrivals, restarts,
                       failed, spentDay, spentHour, freeDay, freeHour>>
    BY <1>11 DEF Kill, ledger, spent
  <2>2. up' \in BOOLEAN /\ inflight' \subseteq Slots
    BY <2>1
  <2> QED
    BY <1>t, <2>1, <2>2, TypeAgain, Zenon
<1>10. CASE UNCHANGED vars
  BY <1>10 DEF vars, TypeOK, Today
<1> QED
  BY <1>1, <1>2, <1>3, <1>4, <1>5, <1>6, <1>7, <1>8, <1>9, <1>10, <1>11
   DEF Next

(* Every variable keeps its type, whatever the constants.                  *)
THEOREM BudgetTypeCorrect == Spec => []TypeOK
BY TypeInit, TypeStep, PTL DEF Spec

-----------------------------------------------------------------------------
(* The invariant behind the other properties: nothing has been spent yet   *)
(* in a window to come, the ledger has at most what was spent, and all of  *)
(* it unless a spend could not be recorded.                                *)

Future ==
  /\ \A d \in Days : d > Today => spentDay[d] = 0
  /\ \A h \in Hours : h > hour => spentHour[h] = 0

LedgerBelow ==
  /\ \A d \in Days : ledgerDay[d] <= spentDay[d]
  /\ \A h \in Hours : ledgerHour[h] <= spentHour[h]

Complete ==
  failed \cap {"insert", "read"} = {} =>
    ledgerDay = spentDay /\ ledgerHour = spentHour

IInv == TypeOK /\ Future /\ LedgerBelow /\ Complete /\ SpendCounted

LEMMA IInvInit == Init => IInv
<1> SUFFICES ASSUME Init PROVE IInv
  OBVIOUS
<1>1. TypeOK
  BY TypeInit
<1>2. hour = 0 /\ 0 \in Hours /\ Today = DayOf[0] /\ DayOf[0] \in Days
  BY DEF Init, Today, Days
<1>3. /\ spentDay = Nothing /\ ledgerDay = Nothing
      /\ spentHour = [h \in Hours |-> 0] /\ ledgerHour = [h \in Hours |-> 0]
      /\ win = [day |-> DayOf[0], hour |-> 0, daily |-> 0, hourly |-> 0]
  BY DEF Init
<1>4. Future /\ LedgerBelow /\ Complete
  BY <1>3 DEF Future, LedgerBelow, Complete, Nothing
<1>5. SpendCounted
  BY <1>2, <1>3 DEF SpendCounted, Nothing
<1> QED
  BY <1>1, <1>4, <1>5 DEF IInv

(* A step moves the clock, or is an answer, or leaves the money alone.     *)
LEMMA StepKinds ==
  ASSUME TypeOK, [Next]_vars
  PROVE  \/ Tick
         \/ \E s \in Slots, c \in Costs :
              \/ Record(s, c)
              \/ RecordInsertFails(s, c)
              \/ RecordReadFails(s, c)
         \/ /\ UNCHANGED <<hour, ledgerDay, ledgerHour, spentDay, spentHour>>
            /\ failed \cap {"insert", "read"} = failed' \cap {"insert", "read"}
            /\ \/ win' = win /\ restarts' = restarts
               \/ win' = Rolled /\ restarts' = restarts
               \/ win' = Refreshed /\ restarts' = restarts + 1
<1>1. CASE \E s \in Slots : Arrive(s) \/ ArriveUnchecked(s)
  BY <1>1 DEF Arrive, ArriveUnchecked, ledger, spent
<1>2. CASE HandlerThrows
  BY <1>2 DEF HandlerThrows, ledger, spent
<1>3. CASE GetStatus \/ Kill \/ Restart
  BY <1>3 DEF GetStatus, Kill, Restart, ledger, spent
<1>4. CASE UNCHANGED vars
  BY <1>4 DEF vars
<1> QED
  BY <1>1, <1>2, <1>3, <1>4, Zenon DEF Next

(* What an answer of cost c does to the sums.                              *)
LEMMA AnswerSums ==
  ASSUME TypeOK, NEW s \in Slots, NEW c \in Costs, Answer(s, c)
  PROVE  /\ c \in Nat /\ hour' = hour /\ Today' = Today
         /\ restarts' = restarts
         /\ spentDay'[Today] = spentDay[Today] + c
         /\ spentHour'[hour] = spentHour[hour] + c
         /\ \A d \in Days \ {Today} : spentDay'[d] = spentDay[d]
         /\ \A h \in Hours \ {hour} : spentHour'[h] = spentHour[h]
<1>1. c \in Nat /\ hour' = hour /\ Today' = Today /\ restarts' = restarts
  BY AnswerTypes
<1>2. Today \in Days /\ hour \in Hours
  BY TodayIsADay DEF TypeOK
<1>3. /\ spentDay' = [spentDay EXCEPT ![Today] = @ + c]
      /\ spentHour' = [spentHour EXCEPT ![hour] = @ + c]
  BY DEF Answer
<1>4. spentDay \in [Days -> Nat] /\ spentHour \in [Hours -> Nat]
  BY DEF TypeOK
<1> QED
  BY <1>1, <1>2, <1>3, <1>4

(* ... and to the ledger, when its row is inserted.                        *)
LEMMA InsertedSums ==
  ASSUME TypeOK, NEW c \in Nat, Inserted(c)
  PROVE  /\ ledgerDay'[Today] = ledgerDay[Today] + c
         /\ ledgerHour'[hour] = ledgerHour[hour] + c
         /\ \A d \in Days \ {Today} : ledgerDay'[d] = ledgerDay[d]
         /\ \A h \in Hours \ {hour} : ledgerHour'[h] = ledgerHour[h]
<1>1. Today \in Days /\ hour \in Hours
  BY TodayIsADay DEF TypeOK
<1>2. ledgerDay \in [Days -> Nat] /\ ledgerHour \in [Hours -> Nat]
  BY DEF TypeOK
<1> QED
  BY <1>1, <1>2 DEF Inserted

LEMMA FutureStep == TypeOK /\ Future /\ [Next]_vars => Future'
<1> SUFFICES ASSUME TypeOK, Future, [Next]_vars PROVE Future'
  OBVIOUS
<1>0. Today \in Days /\ Today \in Nat /\ hour \in Hours
  BY TodayIsADay DEF TypeOK
<1>1. CASE Tick
  <2>1. /\ hour' = hour + 1 /\ hour' \in Hours
        /\ spentDay' = spentDay /\ spentHour' = spentHour
    BY <1>0, <1>1 DEF Tick, spent
  <2>2. Today' \in Nat /\ Today <= Today'
    BY <1>0, <2>1 DEF Today
  <2>3. \A d \in Days : d \in Nat
    BY DEF Days
  <2>4. \A d \in Days : d > Today' => d > Today
    BY <1>0, <2>2, <2>3
  <2>5. \A h \in Hours : h > hour' => h > hour
    BY <1>0, <2>1
  <2> QED
    BY <2>1, <2>4, <2>5 DEF Future
<1>2. ASSUME NEW s \in Slots, NEW c \in Costs, Answer(s, c) PROVE Future'
  <2>1. \A d \in Days : d > Today => d # Today
    BY <1>0
  <2>2. \A h \in Hours : h > hour => h # hour
    BY <1>0
  <2> QED
    BY <1>2, <2>1, <2>2, AnswerSums DEF Future
<1>3. CASE UNCHANGED <<hour, ledgerDay, ledgerHour, spentDay, spentHour>>
  BY <1>3 DEF Future, Today
<1> QED
  BY <1>1, <1>2, <1>3, StepKinds, Zenon
     DEF Record, RecordInsertFails, RecordReadFails

LEMMA LedgerStep ==
  TypeOK /\ LedgerBelow /\ Complete /\ [Next]_vars => LedgerBelow' /\ Complete'
<1> SUFFICES ASSUME TypeOK, LedgerBelow, Complete, [Next]_vars
             PROVE  LedgerBelow' /\ Complete'
  OBVIOUS
<1>0. Today \in Days /\ Today \in Nat /\ hour \in Hours
  BY TodayIsADay DEF TypeOK
<1>t. /\ ledgerDay \in [Days -> Nat] /\ ledgerHour \in [Hours -> Nat]
      /\ spentDay \in [Days -> Nat] /\ spentHour \in [Hours -> Nat]
  BY DEF TypeOK
<1>1. CASE Tick
  BY <1>1 DEF Tick, ledger, spent, LedgerBelow, Complete
<1>2. ASSUME NEW s \in Slots, NEW c \in Costs, Record(s, c)
      PROVE  LedgerBelow' /\ Complete'
  <2>1. Answer(s, c) /\ Inserted(c) /\ failed' = failed
    BY <1>2 DEF Record
  <2>2. /\ c \in Nat
        /\ spentDay'[Today] = spentDay[Today] + c
        /\ spentHour'[hour] = spentHour[hour] + c
        /\ \A d \in Days \ {Today} : spentDay'[d] = spentDay[d]
        /\ \A h \in Hours \ {hour} : spentHour'[h] = spentHour[h]
    BY <2>1, AnswerSums
  <2>3. /\ ledgerDay'[Today] = ledgerDay[Today] + c
        /\ ledgerHour'[hour] = ledgerHour[hour] + c
        /\ \A d \in Days \ {Today} : ledgerDay'[d] = ledgerDay[d]
        /\ \A h \in Hours \ {hour} : ledgerHour'[h] = ledgerHour[h]
    BY <2>1, <2>2, InsertedSums
  <2>4. LedgerBelow'
    <3>1. ledgerDay'[Today] <= spentDay'[Today]
      BY <1>0, <1>t, <2>2, <2>3 DEF LedgerBelow
    <3>2. ledgerHour'[hour] <= spentHour'[hour]
      BY <1>0, <1>t, <2>2, <2>3 DEF LedgerBelow
    <3> QED
      BY <2>2, <2>3, <3>1, <3>2 DEF LedgerBelow
  <2>5. ASSUME ledgerDay = spentDay, ledgerHour = spentHour
        PROVE  ledgerDay' = spentDay' /\ ledgerHour' = spentHour'
    BY <2>1, <2>5 DEF Answer, Inserted
  <2> QED
    BY <2>1, <2>4, <2>5 DEF Complete
<1>3. ASSUME NEW s \in Slots, NEW c \in Costs,
             RecordInsertFails(s, c) \/ RecordReadFails(s, c)
      PROVE  LedgerBelow' /\ Complete'
  <2>1. /\ Answer(s, c) /\ ledgerDay' = ledgerDay /\ ledgerHour' = ledgerHour
        /\ failed' \cap {"insert", "read"} # {}
    BY <1>3 DEF RecordInsertFails, RecordReadFails, ledger
  <2>2. /\ c \in Nat
        /\ spentDay'[Today] = spentDay[Today] + c
        /\ spentHour'[hour] = spentHour[hour] + c
        /\ \A d \in Days \ {Today} : spentDay'[d] = spentDay[d]
        /\ \A h \in Hours \ {hour} : spentHour'[h] = spentHour[h]
    BY <2>1, AnswerSums
  <2>3. ledgerDay[Today] <= spentDay'[Today]
    BY <1>0, <1>t, <2>2 DEF LedgerBelow
  <2>4. ledgerHour[hour] <= spentHour'[hour]
    BY <1>0, <1>t, <2>2 DEF LedgerBelow
  <2> QED
    BY <2>1, <2>2, <2>3, <2>4 DEF LedgerBelow, Complete
<1>4. CASE /\ UNCHANGED <<hour, ledgerDay, ledgerHour, spentDay, spentHour>>
           /\ failed \cap {"insert", "read"} = failed' \cap {"insert", "read"}
  BY <1>4 DEF LedgerBelow, Complete
<1> QED
  BY <1>1, <1>2, <1>3, <1>4, StepKinds, Zenon

(* What the rolled windows and the windows of a restart hold.              *)
LEMMA RolledSums ==
  ASSUME TypeOK, LedgerBelow, SpendCounted, Trusted
  PROVE  Rolled.daily = spentDay[Today] /\ Rolled.hourly = spentHour[hour]
<1>0. Today \in Days /\ hour \in Hours
  BY TodayIsADay DEF TypeOK
<1>t. /\ ledgerDay[Today] \in Nat /\ ledgerHour[hour] \in Nat
      /\ spentDay[Today] \in Nat /\ spentHour[hour] \in Nat
  BY <1>0 DEF TypeOK
<1>1. Rolled.daily = IF win.day = Today THEN win.daily ELSE ledgerDay[Today]
  BY DEF Rolled
<1>2. Rolled.hourly = IF win.hour = hour THEN win.hourly ELSE ledgerHour[hour]
  BY DEF Rolled
<1>3. ledgerDay[Today] <= spentDay[Today] /\ ledgerHour[hour] <= spentHour[hour]
  BY <1>0 DEF LedgerBelow
<1>4. /\ win.daily = spentDay[win.day] /\ win.hourly = spentHour[win.hour]
      /\ win.day # Today => spentDay[Today] = 0
      /\ win.hour # hour => spentHour[hour] = 0
  BY DEF SpendCounted
<1> QED
  BY <1>t, <1>1, <1>2, <1>3, <1>4

LEMMA TrustStep ==
  ASSUME TypeOK, [Next]_vars, Trusted'
  PROVE  Trusted
<1>r. restarts \in Nat
  BY DEF TypeOK
<1>1. CASE Tick
  BY <1>1 DEF Tick, Trusted
<1>2. ASSUME NEW s \in Slots, NEW c \in Costs,
             Record(s, c) \/ RecordInsertFails(s, c) \/ RecordReadFails(s, c)
      PROVE  Trusted
  BY <1>2 DEF Record, RecordInsertFails, RecordReadFails, Answer, Trusted
<1>3. CASE /\ failed \cap {"insert", "read"} = failed' \cap {"insert", "read"}
           /\ restarts' = restarts \/ restarts' = restarts + 1
  <2>1. \A x \in {"insert", "read"} : x \in failed <=> x \in failed'
    BY <1>3
  <2>2. restarts' = 0 => restarts = 0
    BY <1>r, <1>3
  <2> QED
    BY <2>1, <2>2 DEF Trusted
<1> QED
  BY <1>1, <1>2, <1>3, StepKinds, Zenon

LEMMA SpendCountedStep == IInv /\ [Next]_vars => SpendCounted'
<1> SUFFICES ASSUME IInv, [Next]_vars, Trusted' PROVE SpendCounted'
  BY DEF SpendCounted
<1>i. TypeOK /\ Future /\ LedgerBelow /\ Complete /\ SpendCounted
  BY DEF IInv
<1>0. Today \in Days /\ Today \in Nat /\ hour \in Hours
  BY <1>i, TodayIsADay DEF TypeOK
<1>t. Trusted
  BY <1>i, TrustStep
<1>c. /\ win.daily = spentDay[win.day] /\ win.hourly = spentHour[win.hour]
      /\ win.day # Today => spentDay[Today] = 0
      /\ win.hour # hour => spentHour[hour] = 0
  BY <1>i, <1>t DEF SpendCounted
<1>r. /\ Rolled.daily = spentDay[Today] /\ Rolled.hourly = spentHour[hour]
      /\ Rolled.day = Today /\ Rolled.hour = hour
  BY <1>i, <1>t, RolledSums DEF Rolled
<1>1. CASE Tick
  <2>1. /\ hour' = hour + 1 /\ hour' \in Hours /\ win' = win
        /\ spentDay' = spentDay /\ spentHour' = spentHour
    BY <1>0, <1>1 DEF Tick, spent
  <2>2. Today' \in Days /\ Today' \in Nat /\ Today <= Today'
    BY <1>0, <2>1 DEF Today, Days
  <2>3. spentHour[hour'] = 0
    BY <1>0, <1>i, <2>1 DEF Future
  <2>4. Today' # Today => spentDay[Today'] = 0
    BY <1>0, <1>i, <2>2 DEF Future
  <2>5. win.day # Today' => spentDay[Today'] = 0
    BY <1>c, <2>4
  <2> QED
    BY <1>c, <2>1, <2>3, <2>5 DEF SpendCounted
<1>2. ASSUME NEW s \in Slots, NEW c \in Costs, Answer(s, c),
             \/ win' = Added(Rolled, c)
             \/ c = 0 /\ win' = win
      PROVE  SpendCounted'
  <2>1. /\ c \in Nat /\ hour' = hour /\ Today' = Today
        /\ spentDay'[Today] = spentDay[Today] + c
        /\ spentHour'[hour] = spentHour[hour] + c
        /\ \A d \in Days \ {Today} : spentDay'[d] = spentDay[d]
        /\ \A h \in Hours \ {hour} : spentHour'[h] = spentHour[h]
    BY <1>2, <1>i, AnswerSums
  <2>2. CASE win' = Added(Rolled, c)
    <3>1. /\ win'.daily = Rolled.daily + c /\ win'.hourly = Rolled.hourly + c
          /\ win'.day = Today /\ win'.hour = hour
      BY <1>i, <2>1, <2>2, RollsAreWindows
    <3> QED
      BY <1>r, <2>1, <3>1 DEF SpendCounted
  <2>3. CASE c = 0 /\ win' = win
    <3>1. \A d \in Days : spentDay'[d] = spentDay[d]
      <4>1. spentDay[Today] \in Nat
        BY <1>0, <1>i DEF TypeOK
      <4> QED
        BY <2>1, <2>3, <4>1
    <3>2. \A h \in Hours : spentHour'[h] = spentHour[h]
      <4>1. spentHour[hour] \in Nat
        BY <1>0, <1>i DEF TypeOK
      <4> QED
        BY <2>1, <2>3, <4>1
    <3>3. win.day \in Days /\ win.hour \in Hours
      BY <1>i DEF TypeOK, Windows
    <3> QED
      BY <1>0, <1>c, <2>1, <2>3, <3>1, <3>2, <3>3 DEF SpendCounted
  <2> QED
    BY <1>2, <2>2, <2>3
<1>3. ASSUME NEW s \in Slots, NEW c \in Costs, Record(s, c)
      PROVE  SpendCounted'
  <2>1. /\ Answer(s, c)
        /\ win' = Added(Rolled, c) \/ (c = 0 /\ win' = win)
    BY <1>3 DEF Record
  <2> QED
    BY <1>2, <2>1
<1>4. ASSUME NEW s \in Slots, NEW c \in Costs, RecordInsertFails(s, c)
      PROVE  SpendCounted'
  BY <1>2, <1>4 DEF RecordInsertFails
<1>5. ASSUME NEW s \in Slots, NEW c \in Costs, RecordReadFails(s, c)
      PROVE  SpendCounted'
  BY <1>5 DEF RecordReadFails, Trusted
<1>6. CASE /\ UNCHANGED <<hour, ledgerDay, ledgerHour, spentDay, spentHour>>
           /\ failed \cap {"insert", "read"} = failed' \cap {"insert", "read"}
           /\ \/ win' = win /\ restarts' = restarts
              \/ win' = Rolled /\ restarts' = restarts
              \/ win' = Refreshed /\ restarts' = restarts + 1
  <2>1. /\ Today' = Today /\ hour' = hour
        /\ spentDay' = spentDay /\ spentHour' = spentHour
    BY <1>6 DEF Today
  <2>2. CASE win' = win
    BY <1>c, <2>1, <2>2 DEF SpendCounted
  <2>3. CASE win' = Rolled
    BY <1>r, <2>1, <2>3 DEF SpendCounted
  <2>4. CASE win' = Refreshed /\ restarts' = restarts + 1
    <3>1. restarts \in Nat
      BY <1>i DEF TypeOK
    <3>2. restarts' # 0
      BY <2>4, <3>1
    <3>3. "read" \notin failed' /\ "insert" \notin failed'
      BY <3>2 DEF Trusted
    <3>4. failed \cap {"insert", "read"} = {}
      BY <1>6, <3>3
    <3>5. ledgerDay = spentDay /\ ledgerHour = spentHour
      BY <1>i, <3>4 DEF Complete
    <3>6. /\ win'.day = Today /\ win'.hour = hour
          /\ win'.daily = spentDay[Today] /\ win'.hourly = spentHour[hour]
      BY <2>4, <3>5 DEF Refreshed
    <3> QED
      BY <2>1, <3>6 DEF SpendCounted
  <2> QED
    BY <1>6, <2>2, <2>3, <2>4
<1> QED
  BY <1>1, <1>3, <1>4, <1>5, <1>6, <1>i, StepKinds, Zenon

LEMMA IInvStep == IInv /\ [Next]_vars => IInv'
<1>1. IInv /\ [Next]_vars => TypeOK' /\ Future'
  BY TypeStep, FutureStep DEF IInv
<1>2. IInv /\ [Next]_vars => LedgerBelow' /\ Complete'
  BY LedgerStep DEF IInv
<1> QED
  BY <1>1, <1>2, SpendCountedStep DEF IInv

LEMMA IInvAlways == Spec => []IInv
BY IInvInit, IInvStep, PTL DEF Spec

(* The caches hold what was spent in their windows, whatever the order of  *)
(* arrivals, answers, rolls, kills and restarts.                           *)
THEOREM CachesCountSpend == Spec => []SpendCounted
<1>1. IInv => SpendCounted
  BY DEF IInv
<1> QED
  BY <1>1, IInvAlways, PTL

(* The table has what was spent, unless a spend could not be recorded.     *)
THEOREM LedgerHoldsSpend == Spec => []LedgerIsSpend
<1>1. IInv => LedgerIsSpend
  BY DEF IInv, LedgerBelow, Complete, LedgerIsSpend
<1> QED
  BY <1>1, IInvAlways, PTL

-----------------------------------------------------------------------------
(* What a request is told.                                                 *)

(* A request that was looked at is one of Arrive.                          *)
LEMMA CheckedArrival ==
  ASSUME TypeOK, [Next]_vars, arrivals' # arrivals,
         decision'.outcome # "unchecked"
  PROVE  \E s \in Slots : Arrive(s)
<1>1. ASSUME NEW s \in Slots, ArriveUnchecked(s) PROVE FALSE
  BY <1>1 DEF ArriveUnchecked
<1>2. CASE \/ Tick \/ HandlerThrows \/ GetStatus \/ Kill \/ Restart
           \/ UNCHANGED vars
  BY <1>2 DEF Tick, HandlerThrows, GetStatus, Kill, Restart, vars
<1>3. ASSUME NEW s \in Slots, NEW c \in Costs,
             Record(s, c) \/ RecordInsertFails(s, c) \/ RecordReadFails(s, c)
      PROVE  FALSE
  BY <1>3 DEF Record, RecordInsertFails, RecordReadFails, Answer
<1> QED
  BY <1>1, <1>2, <1>3, Zenon DEF Next

LEMMA Told ==
  ASSUME NEW s \in Slots, Arrive(s)
  PROVE  /\ decision'.outcome = "blocked" <=> Breached(Rolled)
         /\ decision'.downgraded = Downgrades(win)
<1>1. \/ /\ Breached(Rolled)
         /\ decision' = [outcome |-> "blocked", downgraded |-> Downgrades(win)]
      \/ /\ ~Breached(Rolled)
         /\ decision' =
              [outcome |-> "dispatched", downgraded |-> Downgrades(win)]
  BY Zenon DEF Arrive, Decide
<1> DEFINE b == Breached(Rolled)
           d == Downgrades(win)
<1> HIDE DEF b, d
<1>2. \/ b /\ decision' = [outcome |-> "blocked", downgraded |-> d]
      \/ ~b /\ decision' = [outcome |-> "dispatched", downgraded |-> d]
  BY <1>1, Zenon DEF b, d
<1>3. (decision'.outcome = "blocked" <=> b) /\ decision'.downgraded = d
  BY <1>2
<1> QED
  BY <1>3, Zenon DEF b, d

(* A checked request is blocked exactly when the spend of the clock's day  *)
(* or hour has reached its ceiling, however stale the caches were.         *)
THEOREM BlockedExactly == Spec => BlockedIffSpent
<1>1. ASSUME IInv, [Next]_vars, arrivals' # arrivals, Trusted',
             decision'.outcome # "unchecked"
      PROVE  decision'.outcome = "blocked" <=>
               spentHour[hour] >= HourlyUsd \/ spentDay[Today] >= DailyUsd
  <2>i. TypeOK /\ LedgerBelow /\ SpendCounted /\ Trusted
    BY <1>1, TrustStep DEF IInv
  <2>1. PICK s \in Slots : Arrive(s)
    BY <1>1, <2>i, CheckedArrival
  <2>2. decision'.outcome = "blocked" <=> Breached(Rolled)
    BY <2>1, Told
  <2>3. Rolled.daily = spentDay[Today] /\ Rolled.hourly = spentHour[hour]
    BY <2>i, RolledSums
  <2>4. Breached(Rolled) <=>
          spentHour[hour] >= HourlyUsd \/ spentDay[Today] >= DailyUsd
    BY <2>3 DEF Breached
  <2> QED
    BY <2>2, <2>4
<1>2. IInv /\ [Next]_vars =>
        [arrivals' # arrivals /\ Trusted' /\ decision'.outcome # "unchecked" =>
           (decision'.outcome = "blocked" <=>
              spentHour[hour] >= HourlyUsd \/ spentDay[Today] >= DailyUsd)]_vars
  BY <1>1
<1> QED
  BY <1>2, IInvAlways, PTL DEF Spec, BlockedIffSpent

(* Stale caches never hide that the threshold has been reached.            *)
THEOREM DowngradesKept == Spec => NoDowngradeMissed
<1>1. ASSUME IInv, [Next]_vars, arrivals' # arrivals, Trusted,
             decision'.outcome # "unchecked", spentDay[Today] >= DowngradeUsd
      PROVE  decision'.downgraded
  <2>i. TypeOK /\ SpendCounted
    BY <1>1 DEF IInv
  <2>1. PICK s \in Slots : Arrive(s)
    BY <1>1, <2>i, CheckedArrival
  <2>2. decision'.downgraded = Downgrades(win)
    BY <2>1, Told
  <2>3. /\ win.daily = spentDay[win.day]
        /\ win.day # Today => spentDay[Today] = 0
    BY <1>1, <2>i DEF SpendCounted
  <2>4. spentDay[Today] # 0
    BY <1>1
  <2>5. Downgrades(win)
    BY <1>1, <2>3, <2>4 DEF Downgrades
  <2> QED
    BY <2>2, <2>5
<1>2. IInv /\ [Next]_vars =>
        [/\ arrivals' # arrivals
         /\ Trusted
         /\ decision'.outcome # "unchecked"
         /\ spentDay[Today] >= DowngradeUsd
         => decision'.downgraded]_vars
  BY <1>1
<1> QED
  BY <1>2, IInvAlways, PTL DEF Spec, NoDowngradeMissed

-----------------------------------------------------------------------------
(* The overshoot.  A request dispatched below a ceiling reserves nothing,  *)
(* but what it may cost fits under the bound: the invariant counts every   *)
(* checked request in flight at the largest cost.                          *)

Counted == Slots \ Unchecked

Open == inflight \ Unchecked

RoomFor(own, ceiling) ==
  own + MaxCost * Cardinality(Open) <= ceiling - 1 + Overshoot

Room ==
  Trusted => /\ RoomFor(spentDay[Today] - freeDay[Today], DailyUsd)
             /\ RoomFor(spentHour[hour] - freeHour[hour], HourlyUsd)

LEMMA OpenCount ==
  ASSUME TypeOK
  PROVE  /\ IsFiniteSet(Counted) /\ Cardinality(Counted) \in Nat
         /\ IsFiniteSet(Open) /\ Cardinality(Open) \in Nat
         /\ Cardinality(Open) <= Cardinality(Counted)
         /\ Overshoot = MaxCost * Cardinality(Counted)
         /\ Overshoot \in Nat
         /\ MaxCost * Cardinality(Open) \in Nat
         /\ MaxCost * Cardinality(Open) <= Overshoot
<1>1. IsFiniteSet(Counted)
  BY FS_Subset DEF Counted
<1>2. Open \subseteq Counted
  BY DEF Open, Counted, TypeOK
<1>3. IsFiniteSet(Open) /\ Cardinality(Open) <= Cardinality(Counted)
  BY <1>1, <1>2, FS_Subset
<1>4. Cardinality(Counted) \in Nat /\ Cardinality(Open) \in Nat
  BY <1>1, <1>3, FS_CardinalityType
<1>5. Overshoot = MaxCost * Cardinality(Counted)
  BY DEF Overshoot, Counted
<1>6. \A m, a, b \in Nat :
        a <= b => m * a \in Nat /\ m * b \in Nat /\ m * a <= m * b
  OBVIOUS
<1> QED
  BY <1>1, <1>3, <1>4, <1>5, <1>6

LEMMA OvershootFromRoom == TypeOK /\ Room => OvershootBounded
<1> SUFFICES ASSUME TypeOK, Room, Trusted PROVE OvershootBounded
  BY DEF OvershootBounded
<1>1. /\ spentDay[Today] \in Nat /\ freeDay[Today] \in Nat
      /\ spentHour[hour] \in Nat /\ freeHour[hour] \in Nat
  BY TodayIsADay DEF TypeOK
<1>2. Overshoot \in Nat /\ MaxCost * Cardinality(Open) \in Nat
  BY OpenCount
<1>3. ASSUME NEW own \in Int, NEW ceiling \in Nat, RoomFor(own, ceiling)
      PROVE  own < ceiling + Overshoot
  <2> DEFINE o == Overshoot
             k == MaxCost * Cardinality(Open)
  <2>1. own + k <= ceiling - 1 + o
    BY <1>3 DEF RoomFor
  <2>2. o \in Nat /\ k \in Nat
    BY <1>2
  <2> HIDE DEF o, k
  <2>3. own < ceiling + o
    BY <2>1, <2>2
  <2> QED
    BY <2>3 DEF o
<1>4. /\ spentDay[Today] - freeDay[Today] \in Int
      /\ spentHour[hour] - freeHour[hour] \in Int
  BY <1>1
<1> QED
  BY <1>3, <1>4 DEF Room, OvershootBounded

(* Below a ceiling there is room for whatever is in flight.                *)
LEMMA RoomBelow ==
  ASSUME TypeOK', NEW own \in Int, NEW ceiling \in Nat, own <= ceiling - 1
  PROVE  own + MaxCost * Cardinality(Open') <= ceiling - 1 + Overshoot
<1> DEFINE o == Overshoot
           k == MaxCost * Cardinality(Open')
<1>1. o \in Nat /\ k \in Nat /\ k <= o
  <2>1. IsFiniteSet(Counted)
    BY FS_Subset DEF Counted
  <2>2. Open' \subseteq Counted
    BY DEF Open, Counted, TypeOK
  <2>3. /\ Cardinality(Open') \in Nat /\ Cardinality(Counted) \in Nat
        /\ Cardinality(Open') <= Cardinality(Counted)
    BY <2>1, <2>2, FS_Subset, FS_CardinalityType
  <2>4. \A m, a, b \in Nat :
          a <= b => m * a \in Nat /\ m * b \in Nat /\ m * a <= m * b
    OBVIOUS
  <2> QED
    BY <2>3, <2>4 DEF Overshoot, Counted
<1> HIDE DEF o, k
<1>2. own + k <= ceiling - 1 + o
  BY <1>1
<1> QED
  BY <1>2 DEF o, k

(* The room there was is kept when nothing more is spent or dispatched,    *)
(* and when what is spent more was in flight.                              *)
LEMMA RoomKept ==
  ASSUME TypeOK, TypeOK', NEW own \in Int, NEW own2 \in Int,
         NEW ceiling \in Nat, RoomFor(own, ceiling),
         own2 + MaxCost * Cardinality(Open')
           <= own + MaxCost * Cardinality(Open)
  PROVE  own2 + MaxCost * Cardinality(Open') <= ceiling - 1 + Overshoot
<1> DEFINE o == Overshoot
           k == MaxCost * Cardinality(Open)
           j == MaxCost * Cardinality(Open')
<1>1. o \in Nat /\ k \in Nat
  BY OpenCount
<1>2. j \in Nat
  <2>1. Open' \subseteq Counted /\ IsFiniteSet(Counted)
    BY OpenCount DEF Open, Counted, TypeOK
  <2>2. Cardinality(Open') \in Nat
    BY <2>1, FS_Subset, FS_CardinalityType
  <2> QED
    BY <2>2
<1>3. own + k <= ceiling - 1 + o /\ own2 + j <= own + k
  BY DEF RoomFor
<1> HIDE DEF o, k, j
<1>4. own2 + j <= ceiling - 1 + o
  BY <1>1, <1>2, <1>3
<1> QED
  BY <1>4 DEF o, j

(* An answer takes its request out of those in flight.                     *)
LEMMA AnswerOpen ==
  ASSUME TypeOK, NEW s \in Slots, NEW c \in Costs, Answer(s, c)
  PROVE  /\ s \in Unchecked => Open' = Open
         /\ s \notin Unchecked =>
              c + MaxCost * Cardinality(Open') <= MaxCost * Cardinality(Open)
<1>1. s \in inflight /\ inflight' = inflight \ {s}
  BY DEF Answer
<1>2. s \in Unchecked => Open' = Open
  BY <1>1 DEF Open
<1>3. ASSUME s \notin Unchecked
      PROVE  c + MaxCost * Cardinality(Open') <= MaxCost * Cardinality(Open)
  <2>1. s \in Open /\ Open' = Open \ {s} /\ IsFiniteSet(Open)
    BY <1>1, <1>3, OpenCount DEF Open
  <2>2. Cardinality(Open') = Cardinality(Open) - 1
    BY <2>1, FS_RemoveElement
  <2>3. Cardinality(Open) \in Nat /\ Cardinality(Open') \in Nat
    BY <2>1, FS_CardinalityType, FS_Subset
  <2>4. c \in Nat /\ c <= MaxCost
    OBVIOUS
  <2>5. \A m, n \in Nat : m * (n + 1) = m * n + m
    OBVIOUS
  <2>6. MaxCost * Cardinality(Open) = MaxCost * Cardinality(Open') + MaxCost
    <3>1. Cardinality(Open) = Cardinality(Open') + 1
      BY <2>2, <2>3
    <3> QED
      BY <2>3, <2>5, <3>1
  <2> DEFINE k == MaxCost * Cardinality(Open')
  <2>7. k \in Nat
    BY <2>3
  <2> HIDE DEF k
  <2>8. c + k <= k + MaxCost
    BY <2>4, <2>7
  <2> QED
    BY <2>6, <2>8 DEF k
<1> QED
  BY <1>2, <1>3

LEMMA RoomInit == Init => Room
<1> SUFFICES ASSUME Init PROVE Room
  OBVIOUS
<1>1. TypeOK
  BY TypeInit
<1>2. Open = {} /\ Cardinality(Open) = 0
  BY FS_EmptySet DEF Init, Open
<1>3. MaxCost * Cardinality(Open) = 0 /\ Overshoot \in Nat
  BY <1>1, <1>2, OpenCount
<1>4. /\ spentDay[Today] = 0 /\ freeDay[Today] = 0
      /\ spentHour[hour] = 0 /\ freeHour[hour] = 0
  BY <1>1, TodayIsADay DEF Init, Nothing, TypeOK
<1> DEFINE o == Overshoot
           k == MaxCost * Cardinality(Open)
<1>5. o \in Nat /\ k = 0
  BY <1>3
<1> HIDE DEF o, k
<1>6. (0 - 0) + k <= DailyUsd - 1 + o /\ (0 - 0) + k <= HourlyUsd - 1 + o
  BY <1>5
<1> QED
  BY <1>4, <1>6 DEF o, k, Room, RoomFor

(* A step that spends nothing and dispatches no checked request.           *)
LEMMA RoomQuiet ==
  ASSUME TypeOK, TypeOK', Room, Trusted, hour' = hour,
         UNCHANGED <<spentDay, spentHour, freeDay, freeHour>>,
         Open' \subseteq Open
  PROVE  Room'
<1>1. /\ spentDay[Today] \in Nat /\ freeDay[Today] \in Nat
      /\ spentHour[hour] \in Nat /\ freeHour[hour] \in Nat
  BY TodayIsADay DEF TypeOK
<1>2. IsFiniteSet(Open) /\ Cardinality(Open) \in Nat
  BY OpenCount
<1>3. Cardinality(Open') \in Nat /\ Cardinality(Open') <= Cardinality(Open)
  BY <1>2, FS_Subset, FS_CardinalityType
<1>4. \A m, a, b \in Nat :
        a <= b => m * a \in Nat /\ m * b \in Nat /\ m * a <= m * b
  OBVIOUS
<1> DEFINE k == MaxCost * Cardinality(Open)
           j == MaxCost * Cardinality(Open')
<1>5. k \in Nat /\ j \in Nat /\ j <= k
  BY <1>2, <1>3, <1>4
<1> HIDE DEF k, j
<1>6. \A own \in Int : own + j <= own + k
  BY <1>5
<1>7. ASSUME NEW own \in Int, NEW ceiling \in Nat, RoomFor(own, ceiling)
      PROVE  own + MaxCost * Cardinality(Open') <= ceiling - 1 + Overshoot
  <2>1. own + MaxCost * Cardinality(Open')
          <= own + MaxCost * Cardinality(Open)
    BY <1>6 DEF j, k
  <2> QED
    BY <1>7, <2>1, RoomKept
<1>8. Today' = Today /\ hour' = hour
  BY DEF Today
<1>9. /\ spentDay[Today] - freeDay[Today] \in Int
      /\ spentHour[hour] - freeHour[hour] \in Int
  BY <1>1
<1>10. /\ RoomFor(spentDay[Today] - freeDay[Today], DailyUsd)
       /\ RoomFor(spentHour[hour] - freeHour[hour], HourlyUsd)
  BY DEF Room
<1>11. /\ spentDay[Today] - freeDay[Today] + MaxCost * Cardinality(Open')
            <= DailyUsd - 1 + Overshoot
       /\ spentHour[hour] - freeHour[hour] + MaxCost * Cardinality(Open')
            <= HourlyUsd - 1 + Overshoot
  BY <1>7, <1>9, <1>10
<1> QED
  BY <1>8, <1>11 DEF Room, RoomFor, Overshoot

(* A new hour, and perhaps a new day, in which nothing is spent yet.       *)
LEMMA RoomTick ==
  ASSUME IInv, TypeOK', Room, Trusted, Tick
  PROVE  Room'
<1>i. TypeOK /\ Future
  BY DEF IInv
<1>0. Today \in Days /\ Today \in Nat /\ hour \in Hours
  BY <1>i, TodayIsADay DEF TypeOK
<1>1. /\ hour' = hour + 1 /\ hour' \in Hours /\ inflight' = inflight
      /\ UNCHANGED <<spentDay, spentHour, freeDay, freeHour>>
  BY <1>0 DEF Tick, spent
<1>2. Today' \in Days /\ Today' \in Nat /\ Today <= Today'
  BY <1>0, <1>1 DEF Today, Days
<1>3. freeDay[Today'] \in Nat /\ freeHour[hour'] \in Nat
  BY <1>i, <1>1, <1>2 DEF TypeOK
<1>4. spentHour[hour'] = 0
  BY <1>i, <1>0, <1>1 DEF Future
<1>5. spentHour[hour'] - freeHour[hour'] + MaxCost * Cardinality(Open')
        <= HourlyUsd - 1 + Overshoot
  <2>1. /\ spentHour[hour'] - freeHour[hour'] \in Int
        /\ spentHour[hour'] - freeHour[hour'] <= HourlyUsd - 1
    BY <1>3, <1>4
  <2> QED
    BY <2>1, RoomBelow
<1>6. spentDay[Today'] - freeDay[Today'] + MaxCost * Cardinality(Open')
        <= DailyUsd - 1 + Overshoot
  <2>1. CASE Today' = Today
    <3>1. RoomFor(spentDay[Today] - freeDay[Today], DailyUsd) /\ Open' = Open
      BY <1>1 DEF Room, Open
    <3> QED
      BY <2>1, <3>1 DEF RoomFor
  <2>2. CASE Today' # Today
    <3>1. spentDay[Today'] = 0
      BY <1>i, <1>0, <1>2, <2>2 DEF Future
    <3>2. /\ spentDay[Today'] - freeDay[Today'] \in Int
          /\ spentDay[Today'] - freeDay[Today'] <= DailyUsd - 1
      BY <1>3, <3>1
    <3> QED
      BY <3>2, RoomBelow
  <2> QED
    BY <2>1, <2>2
<1> QED
  BY <1>1, <1>5, <1>6 DEF Room, RoomFor, Overshoot

LEMMA RoomArrive ==
  ASSUME IInv, TypeOK', Room, Trusted, NEW s \in Slots, Arrive(s)
  PROVE  Room'
<1>i. TypeOK /\ LedgerBelow /\ SpendCounted
  BY DEF IInv
<1>1. /\ hour' = hour /\ Today' = Today
      /\ UNCHANGED <<spentDay, spentHour, freeDay, freeHour>>
  BY DEF Arrive, Today, spent
<1>2. inflight' = inflight \/ ~Breached(Rolled)
  BY DEF Arrive, Decide
<1>3. CASE inflight' = inflight
  BY <1>i, <1>1, <1>3, RoomQuiet DEF Open
<1>4. CASE ~Breached(Rolled)
  <2>1. /\ spentDay[Today] \in Nat /\ freeDay[Today] \in Nat
        /\ spentHour[hour] \in Nat /\ freeHour[hour] \in Nat
    BY <1>i, TodayIsADay DEF TypeOK
  <2>2. Rolled.daily = spentDay[Today] /\ Rolled.hourly = spentHour[hour]
    BY <1>i, RolledSums
  <2>3. spentDay[Today] < DailyUsd /\ spentHour[hour] < HourlyUsd
    BY <1>4, <2>1, <2>2 DEF Breached
  <2>4. /\ spentDay[Today] - freeDay[Today] \in Int
        /\ spentDay[Today] - freeDay[Today] <= DailyUsd - 1
        /\ spentHour[hour] - freeHour[hour] \in Int
        /\ spentHour[hour] - freeHour[hour] <= HourlyUsd - 1
    <3>1. \A a, b \in Nat, n \in Nat \ {0} :
            a < n => a - b \in Int /\ a - b <= n - 1
      OBVIOUS
    <3> QED
      BY <2>1, <2>3, <3>1
  <2>5. /\ spentDay[Today] - freeDay[Today] + MaxCost * Cardinality(Open')
             <= DailyUsd - 1 + Overshoot
        /\ spentHour[hour] - freeHour[hour] + MaxCost * Cardinality(Open')
             <= HourlyUsd - 1 + Overshoot
    BY <2>4, RoomBelow
  <2> QED
    BY <1>1, <2>5 DEF Room, RoomFor, Overshoot
<1> QED
  BY <1>2, <1>3, <1>4

LEMMA RoomAnswer ==
  ASSUME TypeOK, TypeOK', Room, Trusted, NEW s \in Slots, NEW c \in Costs,
         Answer(s, c)
  PROVE  Room'
<1>0. Today \in Days /\ hour \in Hours
  BY TodayIsADay DEF TypeOK
<1>1. /\ c \in Nat /\ hour' = hour /\ Today' = Today
      /\ spentDay'[Today] = spentDay[Today] + c
      /\ spentHour'[hour] = spentHour[hour] + c
  BY AnswerSums
<1> DEFINE free == IF s \in Unchecked THEN c ELSE 0
<1>2. free \in Nat
  BY <1>1
<1>3. /\ freeDay'[Today] = freeDay[Today] + free
      /\ freeHour'[hour] = freeHour[hour] + free
  <2>1. /\ freeDay' = [freeDay EXCEPT ![Today] = @ + free]
        /\ freeHour' = [freeHour EXCEPT ![hour] = @ + free]
    BY DEF Answer
  <2>2. freeDay \in [Days -> Nat] /\ freeHour \in [Hours -> Nat]
    BY DEF TypeOK
  <2> HIDE DEF free
  <2> QED
    BY <1>0, <2>1, <2>2
<1>4. /\ spentDay[Today] \in Nat /\ freeDay[Today] \in Nat
      /\ spentHour[hour] \in Nat /\ freeHour[hour] \in Nat
  BY <1>0 DEF TypeOK
<1> DEFINE k == MaxCost * Cardinality(Open)
           j == MaxCost * Cardinality(Open')
<1>5. k \in Nat
  BY OpenCount
<1>6. j \in Nat
  <2>1. Open' \subseteq Counted /\ IsFiniteSet(Counted)
    BY OpenCount DEF Open, Counted, TypeOK
  <2>2. Cardinality(Open') \in Nat
    BY <2>1, FS_Subset, FS_CardinalityType
  <2> QED
    BY <2>2
<1>7. (c - free) + j <= k
  <2>1. CASE s \in Unchecked
    <3>1. Open' = Open /\ c = free
      BY <2>1, AnswerOpen
    <3>2. j = k
      BY <3>1
    <3> HIDE DEF j, k, free
    <3> QED
      BY <1>1, <1>5, <3>1, <3>2
  <2>2. CASE s \notin Unchecked
    <3>1. c + j <= k /\ free = 0
      BY <2>2, AnswerOpen
    <3> HIDE DEF j, k, free
    <3> QED
      BY <1>1, <1>5, <1>6, <3>1
  <2> QED
    BY <2>1, <2>2
<1> HIDE DEF free
<1>8. ASSUME NEW sp \in Nat, NEW fr \in Nat, NEW ceiling \in Nat,
             RoomFor(sp - fr, ceiling)
      PROVE  (sp + c) - (fr + free) + MaxCost * Cardinality(Open')
               <= ceiling - 1 + Overshoot
  <2>1. sp - fr \in Int /\ (sp + c) - (fr + free) \in Int
    BY <1>1, <1>2
  <2>2. (sp + c) - (fr + free) + j <= (sp - fr) + k
    <3> HIDE DEF j, k
    <3> QED
      BY <1>1, <1>2, <1>5, <1>6, <1>7
  <2> QED
    BY <1>8, <2>1, <2>2, RoomKept
<1>9. /\ RoomFor(spentDay[Today] - freeDay[Today], DailyUsd)
      /\ RoomFor(spentHour[hour] - freeHour[hour], HourlyUsd)
  BY DEF Room
<1>10. /\ (spentDay[Today] + c) - (freeDay[Today] + free)
            + MaxCost * Cardinality(Open') <= DailyUsd - 1 + Overshoot
       /\ (spentHour[hour] + c) - (freeHour[hour] + free)
            + MaxCost * Cardinality(Open') <= HourlyUsd - 1 + Overshoot
  BY <1>4, <1>8, <1>9
<1>11. /\ spentDay'[Today'] - freeDay'[Today'] + MaxCost * Cardinality(Open')
            <= DailyUsd - 1 + Overshoot
       /\ spentHour'[hour'] - freeHour'[hour'] + MaxCost * Cardinality(Open')
            <= HourlyUsd - 1 + Overshoot
  BY <1>1, <1>3, <1>10
<1> QED
  BY <1>11 DEF Room, RoomFor, Overshoot

LEMMA RoomStep == IInv /\ Room /\ [Next]_vars => Room'
<1> SUFFICES ASSUME IInv, Room, [Next]_vars, Trusted' PROVE Room'
  BY DEF Room
<1>i. TypeOK /\ TypeOK' /\ Trusted
  BY TypeStep, TrustStep DEF IInv
<1>1. CASE Tick
  BY <1>i, <1>1, RoomTick
<1>2. ASSUME NEW s \in Slots, Arrive(s) PROVE Room'
  BY <1>i, <1>2, RoomArrive
<1>3. ASSUME NEW s \in Slots, NEW c \in Costs,
             Record(s, c) \/ RecordInsertFails(s, c) \/ RecordReadFails(s, c)
      PROVE  Room'
  BY <1>i, <1>3, RoomAnswer DEF Record, RecordInsertFails, RecordReadFails
<1>4. ASSUME NEW s \in Slots, ArriveUnchecked(s) PROVE Room'
  BY <1>i, <1>4, RoomQuiet DEF ArriveUnchecked, Open, spent
<1>5. CASE HandlerThrows \/ GetStatus \/ Kill \/ Restart \/ UNCHANGED vars
  BY <1>i, <1>5, RoomQuiet
     DEF HandlerThrows, GetStatus, Kill, Restart, vars, Open, spent
<1> QED
  BY <1>1, <1>2, <1>3, <1>4, <1>5, Zenon DEF Next

(* Checking first and spending later costs at most one request each: what  *)
(* the checked requests spend beyond a ceiling is less than the largest    *)
(* cost times their number.                                                *)
THEOREM OvershootIsBounded == Spec => []OvershootBounded
<1>1. IInv /\ Room => OvershootBounded
  BY OvershootFromRoom DEF IInv
<1> QED
  BY <1>1, RoomInit, RoomStep, IInvAlways, PTL DEF Spec

=============================================================================
