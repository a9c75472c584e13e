----------------------- MODULE TokemetryExportProofs -----------------------
(***************************************************************************)
(* Theorems about TokemetryExport, for every set of events, batch size,    *)
(* attempt budget and number of kills and shutdowns.                       *)
(***************************************************************************)
EXTENDS TokemetryExport, FiniteSetTheorems, SequenceTheorems, TLAPS

(* A pointwise rewrite of the table is a table with the same ids.          *)
LEMMA RewriteTable ==
  ASSUME NEW T \in Seq(Row), NEW U,
         DOMAIN U = DOMAIN T, U = [i \in DOMAIN T |-> U[i]],
         \A i \in DOMAIN T : U[i] \in Row
  PROVE  U \in Seq(Row)
<1>1. PICK n \in Nat : T \in [1..n -> Row]
  BY SeqDef
<1>2. DOMAIN T = 1..n
  BY <1>1
<1>3. U \in [1..n -> Row]
  BY <1>2
<1> QED
  BY <1>3, SeqDef

(* Updating the fields of a row keeps its type and its event.              *)
LEMMA RowUpdates ==
  ASSUME NEW r \in Row, NEW why \in Reasons
  PROVE  /\ ExportedRow(r) \in Row /\ ExportedRow(r).event = r.event
         /\ FailedRow(r) \in Row /\ FailedRow(r).event = r.event
         /\ DeadRow(r, why) \in Row /\ DeadRow(r, why).event = r.event
         /\ DueRow(r) \in Row /\ DueRow(r).event = r.event
<1>1. ExportedRow(r) \in Row /\ ExportedRow(r).event = r.event
  BY DEF Row, States, Reasons, ExportedRow
<1>2. FailedRow(r) \in Row /\ FailedRow(r).event = r.event
  <2>1. r.attempts + 1 \in Nat /\ "retry" \in Reasons /\ FALSE \in BOOLEAN
    BY DEF Row, Reasons
  <2> DEFINE n == r.attempts + 1
  <2>2. FailedRow(r) = [[[r EXCEPT !.attempts = n] EXCEPT !.due = FALSE]
                          EXCEPT !.error = "retry"]
    BY DEF FailedRow
  <2>3. n \in Nat
    BY <2>1
  <2> HIDE DEF n
  <2> QED
    BY <2>1, <2>2, <2>3 DEF Row
<1>3. DeadRow(r, why) \in Row /\ DeadRow(r, why).event = r.event
  BY DEF Row, States, Reasons, DeadRow
<1>4. DueRow(r) \in Row /\ DueRow(r).event = r.event
  BY DEF Row, States, Reasons, DueRow
<1> QED
  BY <1>1, <1>2, <1>3, <1>4

(* The table only grows: a row keeps its id and its event for good.        *)
TableGrows ==
  /\ rows' \in Seq(Row)
  /\ Ids \subseteq Ids'
  /\ \A i \in Ids : rows'[i].event = rows[i].event

(* A step of flush f leaves the other one alone, and f over or about rows  *)
(* it already had.                                                         *)
FlushKept(f) ==
  \E h \in Flush :
    /\ flush' = [flush EXCEPT ![f] = h]
    /\ h.posted \cup h.rest \subseteq flush[f].posted \cup flush[f].rest
    /\ h.last \subseteq flush[f].last

LEMMA IdsAreNaturals ==
  ASSUME TypeOK
  PROVE  /\ Ids = 1..Len(rows) /\ Len(rows) \in Nat
         /\ \A i \in Ids : rows[i] \in Row
BY LenProperties, ElementOfSeq DEF TypeOK, Ids

LEMMA IdleIsFlush ==
  /\ Idle \in Flush
  /\ Idle.wire = "idle" /\ Idle.posted = {} /\ Idle.rest = {} /\ Idle.last = {}
BY DEF Idle, Flush, Wire

LEMMA NextPostFlush ==
  ASSUME TypeOK, NEW f \in Flushers, NextPost(f)
  PROVE  /\ FlushKept(f)
         /\ flush'[f].wire \in {"idle", "sent"}
         /\ flushing' \in BOOLEAN
<1>1. flush[f] \in Flush
  BY DEF TypeOK
<1>2. CASE flush[f].rest = {} /\ flush' = [flush EXCEPT ![f] = Idle]
           /\ flushing' = Released(f)
  BY <1>2, IdleIsFlush DEF FlushKept, TypeOK, Released
<1>3. CASE \E i \in flush[f].rest : PostSingle(f, i, flush[f].rest)
                                    /\ UNCHANGED flushing
  <2>1. PICK i \in flush[f].rest : PostSingle(f, i, flush[f].rest)
                                   /\ UNCHANGED flushing
    BY <1>3
  <2> DEFINE h == [wire |-> "sent", posted |-> {i},
                   rest |-> flush[f].rest \ {i}, last |-> flush[f].last]
  <2>2. h \in Flush
    BY <1>1 DEF Flush, Wire
  <2>3. flush' = [flush EXCEPT ![f] = h]
    BY <2>1 DEF PostSingle
  <2>4. h.posted \cup h.rest \subseteq flush[f].rest /\ h.last = flush[f].last
    OBVIOUS
  <2>5. flush'[f] = h
    BY <2>3 DEF TypeOK
  <2> HIDE DEF h
  <2>6. FlushKept(f)
    BY <2>2, <2>3, <2>4 DEF FlushKept
  <2> QED
    BY <2>1, <2>5, <2>6 DEF TypeOK, h
<1> QED
  BY <1>2, <1>3 DEF NextPost

LEMMA SplitBatchFlush ==
  ASSUME TypeOK, NEW f \in Flushers, SplitBatch(f)
  PROVE  FlushKept(f) /\ flush'[f].wire = "sent"
<1>1. flush[f] \in Flush
  BY DEF TypeOK
<1>2. PICK i \in flush[f].posted : PostSingle(f, i, flush[f].posted)
  BY DEF SplitBatch
<1> DEFINE h == [wire |-> "sent", posted |-> {i},
                 rest |-> flush[f].posted \ {i}, last |-> flush[f].last]
<1>3. h \in Flush
  BY <1>1 DEF Flush, Wire
<1>4. flush' = [flush EXCEPT ![f] = h]
  BY <1>2 DEF PostSingle
<1>5. h.posted \cup h.rest \subseteq flush[f].posted /\ h.last = flush[f].last
  OBVIOUS
<1>6. flush'[f] = h /\ h.wire = "sent"
  BY <1>4 DEF TypeOK
<1> HIDE DEF h
<1>7. FlushKept(f)
  BY <1>3, <1>4, <1>5 DEF FlushKept
<1> QED
  BY <1>6, <1>7

(* Flushes stay well typed when the table grows and one of them moves on.  *)
LEMMA FlushTypeKept ==
  ASSUME TypeOK, TableGrows
  PROVE  /\ Flush \subseteq Flush'
         /\ \A f \in Flushers : FlushKept(f) => flush' \in [Flushers -> Flush']
         /\ UNCHANGED flush => flush' \in [Flushers -> Flush']
BY DEF TypeOK, TableGrows, Flush, FlushKept, Ids

-----------------------------------------------------------------------------
(* What each kind of step does to the table.                               *)

LEMMA UntouchedTable ==
  ASSUME TypeOK, UNCHANGED rows
  PROVE  TableGrows
BY DEF TypeOK, TableGrows, Ids

LEMMA EnqueueTable ==
  ASSUME TypeOK, NEW e \in Events, Enqueue(e)
  PROVE  /\ TableGrows
         /\ Ids' = Ids \cup {Len(rows) + 1} /\ Len(rows) + 1 \notin Ids
         /\ \A i \in Ids : rows'[i] = rows[i]
         /\ rows'[Len(rows) + 1] = Fresh(e)
<1>1. Fresh(e) \in Row
  BY DEF Fresh, Row, States, Reasons
<1>2. /\ rows' \in Seq(Row) /\ Len(rows') = Len(rows) + 1
      /\ \A i \in 1..Len(rows) : rows'[i] = rows[i]
      /\ rows'[Len(rows) + 1] = Fresh(e)
  BY <1>1 DEF Enqueue, TypeOK
<1>3. Ids' = 1..(Len(rows) + 1)
  BY <1>2, LenProperties DEF Ids
<1> QED
  BY <1>2, <1>3, IdsAreNaturals DEF TableGrows

(* The steps that rewrite rows in place, by the rewrite of a single row.   *)
Rewrites(i) ==
  rows'[i] \in {rows[i], ExportedRow(rows[i]), FailedRow(rows[i]),
                DeadRow(rows[i], "poison"), DeadRow(rows[i], "exhausted"),
                DueRow(rows[i])}

LEMMA RewriteGrows ==
  ASSUME TypeOK, DOMAIN rows' = Ids, rows' = [i \in Ids |-> rows'[i]],
         \A i \in Ids : Rewrites(i)
  PROVE  TableGrows
<1>1. ASSUME NEW i \in Ids
      PROVE  rows'[i] \in Row /\ rows'[i].event = rows[i].event
  <2>1. rows[i] \in Row
    BY IdsAreNaturals
  <2>2. "poison" \in Reasons /\ "exhausted" \in Reasons
    BY DEF Reasons
  <2>3. CASE rows'[i] \in {DeadRow(rows[i], "poison"),
                           DeadRow(rows[i], "exhausted")}
    BY <2>1, <2>2, <2>3, RowUpdates
  <2>4. CASE rows'[i] \in {rows[i], ExportedRow(rows[i]), FailedRow(rows[i]),
                           DueRow(rows[i])}
    BY <2>1, <2>2, <2>4, RowUpdates
  <2> QED
    BY <2>3, <2>4 DEF Rewrites
<1>2. rows' \in Seq(Row)
  BY <1>1, RewriteTable DEF TypeOK, Ids
<1> QED
  BY <1>1, <1>2 DEF TableGrows, Ids

(* The steps that rewrite rows, and what they make of each.                *)
LEMMA RewritingSteps ==
  ASSUME TypeOK
  PROVE  /\ \A f \in Flushers :
              MarkExported(f) \/ MarkPoison(f) \/ RetireByAttempts(f)
                \/ KillMidRetire(f) => TableGrows /\ Ids' = Ids
         /\ \A i \in Ids : BackoffElapses(i) => TableGrows /\ Ids' = Ids
<1>1. ASSUME NEW f \in Flushers, MarkExported(f)
      PROVE  TableGrows /\ Ids' = Ids
  BY <1>1, RewriteGrows DEF MarkExported, Rewrites, Ids
<1>2. ASSUME NEW f \in Flushers, MarkPoison(f)
      PROVE  TableGrows /\ Ids' = Ids
  BY <1>2, RewriteGrows DEF MarkPoison, Rewrites, Ids
<1>3. ASSUME NEW f \in Flushers, RetireByAttempts(f)
      PROVE  TableGrows /\ Ids' = Ids
  BY <1>3, RewriteGrows DEF RetireByAttempts, Retired, Rewrites, Ids
<1>4. ASSUME NEW f \in Flushers, KillMidRetire(f)
      PROVE  TableGrows /\ Ids' = Ids
  BY <1>4, RewriteGrows DEF KillMidRetire, Rewrites, Ids
<1>5. ASSUME NEW i \in Ids, BackoffElapses(i)
      PROVE  TableGrows /\ Ids' = Ids
  <2>1. rows' = [rows EXCEPT ![i] = DueRow(rows[i])]
    BY <1>5 DEF BackoffElapses
  <2>2. DOMAIN rows' = Ids /\ rows' = [j \in Ids |-> rows'[j]]
    BY <2>1 DEF Ids
  <2>3. \A j \in Ids : Rewrites(j)
    BY <2>1 DEF Rewrites, Ids
  <2> QED
    BY <2>2, <2>3, RewriteGrows DEF Ids
<1> QED
  BY <1>1, <1>2, <1>3, <1>4, <1>5

-----------------------------------------------------------------------------
(* Type correctness.                                                       *)

(* The flushes after a kill.                                               *)
LEMMA GoneFlush ==
  ASSUME ProcessGone
  PROVE  /\ flush' \in [Flushers -> Flush]
         /\ flushing' \in BOOLEAN /\ phase' \in Phases
         /\ \A f \in Flushers : flush'[f] = Idle
BY IdleIsFlush DEF ProcessGone, Phases

(* A started flush is a flush about the claimed rows, which are pending.   *)
LEMMA StartedFlush ==
  /\ StartFlush \in Flush
  /\ StartFlush.rest = {} /\ StartFlush.wire \in {"idle", "sent"}
  /\ \A i \in StartFlush.posted : i \in Ids /\ rows[i].state = "pending"
  /\ \A i \in StartFlush.posted : i \in StartFlush.last
                                    <=> Exhausted(rows[i].attempts)
  /\ \A i \in StartFlush.last : Exhausted(rows[i].attempts)
<1>1. ClaimBatch \subseteq Ids /\ \A i \in ClaimBatch : rows[i].state = "pending"
  BY DEF ClaimBatch, Due
<1>2. CASE ClaimBatch = {}
  BY <1>2, IdleIsFlush DEF StartFlush
<1>3. CASE ClaimBatch # {}
  BY <1>1, <1>3 DEF StartFlush, Flush, Wire
<1> QED
  BY <1>2, <1>3

(* An answer changes the status of one POST and nothing else in the flush. *)
LEMMA AnsweredFlush ==
  ASSUME TypeOK, NEW f \in Flushers, NEW w \in Wire,
         flush' = [flush EXCEPT ![f].wire = w]
  PROVE  /\ flush' \in [Flushers -> Flush]
         /\ flush'[f].wire = w
         /\ \A g \in Flushers :
              /\ flush'[g].posted = flush[g].posted
              /\ flush'[g].rest = flush[g].rest
              /\ flush'[g].last = flush[g].last
              /\ g # f => flush'[g] = flush[g]
<1>1. flush[f] \in Flush
  BY DEF TypeOK
<1>2. /\ [flush[f] EXCEPT !.wire = w] \in Flush
      /\ [flush[f] EXCEPT !.wire = w].wire = w
      /\ [flush[f] EXCEPT !.wire = w].posted = flush[f].posted
      /\ [flush[f] EXCEPT !.wire = w].rest = flush[f].rest
      /\ [flush[f] EXCEPT !.wire = w].last = flush[f].last
  BY <1>1 DEF Flush
<1> DEFINE h == [flush[f] EXCEPT !.wire = w]
<1>3. flush' = [flush EXCEPT ![f] = h]
  OBVIOUS
<1> HIDE DEF h
<1>4. flush'[f] = h /\ \A g \in Flushers : g # f => flush'[g] = flush[g]
  BY <1>3 DEF TypeOK
<1>5. flush' \in [Flushers -> Flush]
  BY <1>2, <1>3 DEF TypeOK, h
<1> QED
  BY <1>2, <1>4, <1>5 DEF h

(* Every server action is an answer to a POST that awaits one.             *)
LEMMA ServerAnswers ==
  ASSUME TypeOK, NEW f \in Flushers,
         ServerAccepts(f) \/ ServerRejects(f) \/ ServerRefuses(f)
  PROVE  /\ flush[f].wire = "sent"
         /\ \E w \in {"ok", "invalid", "refused"} :
              flush' = [flush EXCEPT ![f].wire = w]
         /\ UNCHANGED <<rows, flushing, phase, exits>>
         /\ ingested' \in {ingested, ingested \cup EventsOf(flush[f].posted)}
         /\ refusals' \in Nat
         /\ EventsOf(flush[f].posted) \subseteq Events
<1>1. flush[f] \in Flush
  BY DEF TypeOK
<1>2. EventsOf(flush[f].posted) \subseteq Events
  BY <1>1, IdsAreNaturals DEF EventsOf, Flush, Row
<1>3. refusals' \in Nat
  BY DEF TypeOK, ServerAccepts, ServerRejects, ServerRefuses
<1> QED
  BY <1>2, <1>3 DEF ServerAccepts, ServerRejects, ServerRefuses

LEMMA InitType == Init => TypeOK
<1> SUFFICES ASSUME Init PROVE TypeOK
  OBVIOUS
<1>1. rows \in Seq(Row)
  BY EmptySeq DEF Init
<1>2. flush \in [Flushers -> Flush]
  BY IdleIsFlush DEF Init
<1> QED
  BY <1>1, <1>2 DEF Init, TypeOK, Phases

(* Every step keeps the types and lets the table grow.                     *)
LEMMA TypeStep ==
  ASSUME TypeOK, [Next]_vars
  PROVE  TypeOK' /\ TableGrows
<1> USE DEF TypeOK
<1>1. ASSUME NEW e \in Events, Enqueue(e)
      PROVE  TypeOK' /\ TableGrows
  BY <1>1, EnqueueTable, FlushTypeKept DEF Enqueue, TableGrows
<1>2. CASE PumpTick
  BY <1>2, UntouchedTable, StartedFlush, FlushTypeKept DEF PumpTick, TableGrows
<1>3. CASE FinalFlush
  BY <1>3, UntouchedTable, StartedFlush, FlushTypeKept
     DEF FinalFlush, TableGrows, Phases
<1>4. ASSUME NEW i \in Ids, BackoffElapses(i)
      PROVE  TypeOK' /\ TableGrows
  BY <1>4, RewritingSteps, FlushTypeKept DEF BackoffElapses, TableGrows
<1>5. ASSUME NEW f \in Flushers, FlushStep(f)
      PROVE  TypeOK' /\ TableGrows
  <2>1. CASE ServerAccepts(f) \/ ServerRejects(f) \/ ServerRefuses(f)
    BY <2>1, ServerAnswers, AnsweredFlush, UntouchedTable, FlushTypeKept
       DEF TableGrows, Wire
  <2>2. CASE SplitBatch(f)
    BY <2>2, SplitBatchFlush, UntouchedTable, FlushTypeKept
       DEF SplitBatch, TableGrows
  <2>3. CASE MarkExported(f) \/ MarkPoison(f) \/ RetireByAttempts(f)
    <3>1. NextPost(f) /\ UNCHANGED <<phase, ingested, refusals, exits>>
      BY <2>3 DEF MarkExported, MarkPoison, RetireByAttempts
    <3>2. FlushKept(f) /\ flushing' \in BOOLEAN
      BY <3>1, NextPostFlush
    <3>3. TableGrows
      BY <2>3, RewritingSteps
    <3> QED
      BY <3>1, <3>2, <3>3, FlushTypeKept DEF TableGrows
  <2> QED
    BY <1>5, <2>1, <2>2, <2>3 DEF FlushStep
<1>6. CASE Kill \/ Exit
  BY <1>6, GoneFlush, UntouchedTable, FlushTypeKept DEF Kill, Exit, TableGrows
<1>7. ASSUME NEW f \in Flushers, KillMidRetire(f)
      PROVE  TypeOK' /\ TableGrows
  <2>1. ProcessGone /\ exits' \in Nat /\ UNCHANGED <<ingested, refusals>>
    BY <1>7 DEF KillMidRetire
  <2>2. TableGrows
    BY <1>7, RewritingSteps
  <2> QED
    BY <2>1, <2>2, GoneFlush, FlushTypeKept DEF TableGrows
<1>8. CASE Restart \/ Stop \/ CloseOutbox
  BY <1>8, UntouchedTable, FlushTypeKept
     DEF Restart, Stop, CloseOutbox, TableGrows, Phases
<1>9. CASE AbandonFlush
  BY <1>9, UntouchedTable, FlushTypeKept, IdleIsFlush
     DEF AbandonFlush, TableGrows, Released, Flushers
<1>10. CASE UNCHANGED vars
  BY <1>10, UntouchedTable, FlushTypeKept DEF vars, TableGrows
<1> QED
  BY <1>1, <1>2, <1>3, <1>4, <1>5, <1>6, <1>7, <1>8, <1>9, <1>10
     DEF Next, PumpNext, StopNext, Flushers

(* Type correctness of the export path, shutdowns and kills included.      *)
THEOREM TypeCorrect == Spec => []TypeOK
<1>1. TypeOK /\ [Next]_vars => TypeOK'
  BY TypeStep
<1> QED
  BY <1>1, InitType, PTL DEF Spec

-----------------------------------------------------------------------------
(* Exported rows are on the server, and only poison is isolated.           *)

LEMMA RowFields ==
  ASSUME NEW r \in Row, NEW why \in Reasons
  PROVE  /\ ExportedRow(r).state = "exported" /\ ExportedRow(r).error = "none"
         /\ ExportedRow(r).attempts = r.attempts
         /\ FailedRow(r).state = r.state /\ FailedRow(r).error = "retry"
         /\ FailedRow(r).attempts = r.attempts + 1
         /\ DeadRow(r, why).state = "dead" /\ DeadRow(r, why).error = why
         /\ DeadRow(r, why).attempts = r.attempts
         /\ DueRow(r).state = r.state /\ DueRow(r).error = r.error
         /\ DueRow(r).attempts = r.attempts
<1>1. /\ ExportedRow(r).state = "exported" /\ ExportedRow(r).error = "none"
      /\ ExportedRow(r).attempts = r.attempts
  BY DEF Row, ExportedRow
<1>2. /\ FailedRow(r).state = r.state /\ FailedRow(r).error = "retry"
      /\ FailedRow(r).attempts = r.attempts + 1
  <2> DEFINE n == r.attempts + 1
  <2>1. FailedRow(r) = [[[r EXCEPT !.attempts = n] EXCEPT !.due = FALSE]
                          EXCEPT !.error = "retry"]
    BY DEF FailedRow
  <2> HIDE DEF n
  <2>2. FailedRow(r).attempts = n /\ FailedRow(r).state = r.state
        /\ FailedRow(r).error = "retry"
    BY <2>1 DEF Row
  <2> QED
    BY <2>2 DEF n
<1>3. /\ DeadRow(r, why).state = "dead" /\ DeadRow(r, why).error = why
      /\ DeadRow(r, why).attempts = r.attempts
  BY DEF Row, DeadRow
<1>4. /\ DueRow(r).state = r.state /\ DueRow(r).error = r.error
      /\ DueRow(r).attempts = r.attempts
  BY DEF Row, DueRow
<1> QED
  BY <1>1, <1>2, <1>3, <1>4

(* The steps that settle nothing and charge nothing.                       *)
QuietRow(i) ==
  \/ /\ i \in Ids
     /\ rows'[i].event = rows[i].event /\ rows'[i].state = rows[i].state
     /\ rows'[i].error = rows[i].error /\ rows'[i].attempts = rows[i].attempts
  \/ /\ i \notin Ids
     /\ rows'[i].state = "pending" /\ rows'[i].error = "none"
     /\ rows'[i].attempts = 0

LEMMA QuietSteps ==
  ASSUME TypeOK
  PROVE  /\ \A e \in Events : Enqueue(e) => \A i \in Ids' : QuietRow(i)
         /\ \A j \in Ids : BackoffElapses(j) => \A i \in Ids' : QuietRow(i)
         /\ UNCHANGED rows => \A i \in Ids' : QuietRow(i)
<1>1. ASSUME NEW e \in Events, Enqueue(e)
      PROVE  \A i \in Ids' : QuietRow(i)
  <2>1. /\ Fresh(e).state = "pending" /\ Fresh(e).error = "none"
        /\ Fresh(e).attempts = 0
    BY DEF Fresh
  <2> QED
    BY <1>1, <2>1, EnqueueTable DEF QuietRow
<1>2. ASSUME NEW j \in Ids, BackoffElapses(j)
      PROVE  \A i \in Ids' : QuietRow(i)
  <2>1. Ids' = Ids /\ TableGrows
    BY <1>2, RewritingSteps
  <2>2. rows[j] \in Row /\ "none" \in Reasons
    BY IdsAreNaturals DEF Reasons
  <2>3. rows'[j] = DueRow(rows[j]) /\ \A i \in Ids : i # j => rows'[i] = rows[i]
    BY <1>2 DEF BackoffElapses, Ids
  <2> QED
    BY <2>1, <2>2, <2>3, RowFields DEF QuietRow, TableGrows
<1>3. UNCHANGED rows => \A i \in Ids' : QuietRow(i)
  BY DEF QuietRow, Ids
<1> QED
  BY <1>1, <1>2, <1>3

(* An answer that was given is remembered: what a 2xx covers is on the     *)
(* server, and what a validation error covers holds a poison event.        *)
Answered ==
  \A f \in Flushers :
    /\ flush[f].wire = "ok" => EventsOf(flush[f].posted) \subseteq ingested
    /\ flush[f].wire = "invalid" => EventsOf(flush[f].posted) \cap Poison # {}

DeliveryInv == Answered /\ ExportedWasIngested /\ OnlyPoisonIsIsolated

(* A rewrite never changes the events of a set of rows.                    *)
LEMMA EventsKept ==
  ASSUME TypeOK, TableGrows, NEW f \in Flushers
  PROVE  EventsOf(flush[f].posted)' = {rows'[i].event : i \in flush'[f].posted}
         /\ {rows'[i].event : i \in flush[f].posted} = EventsOf(flush[f].posted)
<1>1. flush[f].posted \subseteq Ids
  BY DEF TypeOK, Flush
<1>2. \A i \in flush[f].posted : rows'[i].event = rows[i].event
  BY <1>1 DEF TableGrows
<1> QED
  BY <1>2 DEF EventsOf

(* A flush whose POST is the same or over or new has nothing to remember.  *)
LEMMA AnsweredKept ==
  ASSUME TypeOK, TableGrows, Answered, ingested \subseteq ingested',
         \A f \in Flushers :
           \/ flush'[f] = flush[f]
           \/ flush'[f].wire \in {"idle", "sent"}
  PROVE  Answered'
BY EventsKept DEF Answered

(* A POST rejected with one row in it: that row's event is poison.         *)
LEMMA OffenderIsPoison ==
  ASSUME TypeOK, Answered, NEW f \in Flushers, flush[f].wire = "invalid",
         Offender(flush[f].posted)
  PROVE  \A i \in flush[f].posted : rows[i].event \in Poison
<1>1. flush[f].posted \subseteq 1..Len(rows) /\ Len(rows) \in Nat
  BY IdsAreNaturals DEF TypeOK, Flush
<1>2. IsFiniteSet(flush[f].posted)
  <2>1. IsFiniteSet(1..Len(rows))
    BY <1>1, FS_Interval
  <2> QED
    BY <1>1, <2>1, FS_Subset
<1>3. PICK i : flush[f].posted = {i}
  BY <1>2, FS_Singleton DEF Offender
<1> QED
  BY <1>3 DEF Answered, EventsOf

(* A step that is not the server's ingests nothing and answers no POST.    *)
ServerStep(f) == ServerAccepts(f) \/ ServerRejects(f) \/ ServerRefuses(f)

LEMMA OtherSteps ==
  ASSUME TypeOK, [Next]_vars, ~ \E f \in Flushers : ServerStep(f)
  PROVE  /\ ingested' = ingested /\ refusals' = refusals
         /\ \A f \in Flushers : \/ flush'[f] = flush[f]
                                \/ flush'[f].wire \in {"idle", "sent"}
<1>1. ingested' = ingested /\ refusals' = refusals
  BY DEF Next, PumpNext, StopNext, FlushStep, ServerStep, Flushers, vars,
     Enqueue, PumpTick, BackoffElapses, MarkExported, MarkPoison, SplitBatch,
     RetireByAttempts, Kill, KillMidRetire, Restart, Stop, FinalFlush,
     CloseOutbox, AbandonFlush, Exit
<1>2. \A f \in Flushers : \/ flush'[f] = flush[f]
                          \/ flush'[f].wire \in {"idle", "sent"}
  <2>1. CASE \E f \in Flushers : MarkExported(f) \/ MarkPoison(f)
                                 \/ RetireByAttempts(f)
    BY <2>1, NextPostFlush
       DEF MarkExported, MarkPoison, RetireByAttempts, FlushKept, TypeOK
  <2>2. CASE \E f \in Flushers : SplitBatch(f)
    BY <2>2, SplitBatchFlush DEF FlushKept, TypeOK
  <2>3. CASE Kill \/ Exit \/ \E f \in Flushers : KillMidRetire(f)
    BY <2>3, GoneFlush, IdleIsFlush DEF Kill, Exit, KillMidRetire
  <2>4. CASE PumpTick \/ FinalFlush
    BY <2>4, StartedFlush DEF PumpTick, FinalFlush, TypeOK
  <2>5. CASE AbandonFlush
    BY <2>5, IdleIsFlush DEF AbandonFlush, TypeOK
  <2>6. CASE UNCHANGED flush
    BY <2>6
  <2> QED
    BY <2>1, <2>2, <2>3, <2>4, <2>5, <2>6 DEF Next, PumpNext,
       StopNext, FlushStep, ServerStep, Flushers, vars, Enqueue,
       BackoffElapses, Restart, Stop, CloseOutbox
<1> QED
  BY <1>1, <1>2

LEMMA AnsweredStep ==
  ASSUME TypeOK, Answered, [Next]_vars
  PROVE  Answered' /\ TableGrows
<1>1. TableGrows
  BY TypeStep
<1>2. CASE \E f \in Flushers : ServerStep(f)
  <2>1. PICK f \in Flushers : ServerAccepts(f) \/ ServerRejects(f)
                              \/ ServerRefuses(f)
    BY <1>2 DEF ServerStep
  <2>2. flush[f] \in Flush
    BY DEF TypeOK
  <2>3. PICK w \in {"ok", "invalid", "refused"} :
          /\ flush' = [flush EXCEPT ![f].wire = w]
          /\ w = "ok" => ServerAccepts(f)
          /\ w = "invalid" => ServerRejects(f)
    BY <2>1, <2>2 DEF ServerAccepts, ServerRejects, ServerRefuses
  <2>4. /\ flush'[f].wire = w /\ flush'[f].posted = flush[f].posted
        /\ \A g \in Flushers : g # f => flush'[g] = flush[g]
    BY <2>3, AnsweredFlush DEF Wire
  <2>5. ingested \subseteq ingested'
    BY <2>1, ServerAnswers
  <2>6. w = "ok" => EventsOf(flush[f].posted) \subseteq ingested'
    BY <2>3 DEF ServerAccepts
  <2>7. w = "invalid" => EventsOf(flush[f].posted) \cap Poison # {}
    BY <2>3 DEF ServerRejects
  <2>8. ASSUME NEW g \in Flushers
        PROVE  EventsOf(flush[g].posted)' = EventsOf(flush[g].posted)
    BY <1>1, <2>4, EventsKept
  <2> QED
    BY <1>1, <2>4, <2>5, <2>6, <2>7, <2>8 DEF Answered
<1>3. CASE ~ \E f \in Flushers : ServerStep(f)
  <2>1. /\ ingested' = ingested
        /\ \A f \in Flushers : \/ flush'[f] = flush[f]
                               \/ flush'[f].wire \in {"idle", "sent"}
    BY <1>3, OtherSteps
  <2> QED
    BY <1>1, <2>1, AnsweredKept
<1> QED
  BY <1>2, <1>3

(* Every step is quiet for the table, or rewrites the rows of one POST.    *)
LEMMA StepKinds ==
  ASSUME TypeOK, [Next]_vars
  PROVE  \/ \A i \in Ids' : QuietRow(i)
         \/ \E f \in Flushers : \/ MarkExported(f) \/ MarkPoison(f)
                                \/ RetireByAttempts(f) \/ KillMidRetire(f)
<1>1. CASE UNCHANGED rows \/ (\E e \in Events : Enqueue(e))
           \/ (\E i \in Ids : BackoffElapses(i))
  BY <1>1, QuietSteps
<1>2. CASE ~(UNCHANGED rows \/ (\E e \in Events : Enqueue(e))
             \/ (\E i \in Ids : BackoffElapses(i)))
  BY <1>2 DEF Next, PumpNext, StopNext, FlushStep, Flushers, vars, PumpTick,
     ServerAccepts, ServerRejects, ServerRefuses, SplitBatch, Kill, Restart,
     Stop, FinalFlush, CloseOutbox, AbandonFlush, Exit
<1> QED
  BY <1>1, <1>2

LEMMA DeliveryStep ==
  ASSUME TypeOK, DeliveryInv, [Next]_vars
  PROVE  DeliveryInv'
<1> USE DEF DeliveryInv
<1>1. Answered' /\ TableGrows
  BY AnsweredStep
<1>2. ingested \subseteq ingested'
  BY DEF Next, PumpNext, StopNext, FlushStep, Flushers, vars, Enqueue,
     PumpTick, BackoffElapses, MarkExported, MarkPoison, SplitBatch,
     RetireByAttempts, Kill, KillMidRetire, Restart, Stop, FinalFlush,
     CloseOutbox, AbandonFlush, Exit, ServerAccepts, ServerRejects,
     ServerRefuses
<1>3. ASSUME NEW i \in Ids
      PROVE  /\ rows[i] \in Row /\ "poison" \in Reasons
             /\ "exhausted" \in Reasons /\ "none" \in Reasons
  BY <1>3, IdsAreNaturals DEF Reasons
<1>4. CASE \A i \in Ids' : QuietRow(i)
  BY <1>1, <1>2, <1>4 DEF QuietRow, ExportedWasIngested, OnlyPoisonIsIsolated
<1>5. ASSUME NEW f \in Flushers, MarkExported(f)
      PROVE  ExportedWasIngested' /\ OnlyPoisonIsIsolated'
  <2>1. Ids' = Ids /\ TableGrows
    BY <1>5, RewritingSteps
  <2>2. EventsOf(flush[f].posted) \subseteq ingested
    BY <1>5 DEF Answered, MarkExported
  <2>3. ASSUME NEW i \in Ids
        PROVE  \/ /\ i \in flush[f].posted
                  /\ rows'[i].error = "none"
               \/ rows'[i] = rows[i] /\ i \notin flush[f].posted
    BY <1>3, <1>5, RowFields DEF MarkExported, Ids
  <2>4. \A i \in flush[f].posted : rows[i].event \in ingested
    BY <2>2 DEF EventsOf
  <2> QED
    BY <1>2, <2>1, <2>3, <2>4
       DEF TableGrows, ExportedWasIngested, OnlyPoisonIsIsolated
<1>6. ASSUME NEW f \in Flushers, MarkPoison(f)
      PROVE  ExportedWasIngested' /\ OnlyPoisonIsIsolated'
  <2>1. Ids' = Ids /\ TableGrows
    BY <1>6, RewritingSteps
  <2>2. \A i \in flush[f].posted : rows[i].event \in Poison
    BY <1>6, OffenderIsPoison DEF MarkPoison
  <2>3. ASSUME NEW i \in Ids
        PROVE  \/ i \in flush[f].posted /\ rows'[i].state = "dead"
               \/ rows'[i] = rows[i]
    BY <1>3, <1>6, RowFields DEF MarkPoison, Ids
  <2> QED
    BY <1>2, <2>1, <2>2, <2>3
       DEF TableGrows, ExportedWasIngested, OnlyPoisonIsIsolated
<1>7. ASSUME NEW f \in Flushers, RetireByAttempts(f) \/ KillMidRetire(f)
      PROVE  ExportedWasIngested' /\ OnlyPoisonIsIsolated'
  <2>1. Ids' = Ids /\ TableGrows
    BY <1>7, RewritingSteps
  <2>2. ASSUME NEW i \in Ids
        PROVE  rows'[i] \in {rows[i], FailedRow(rows[i]),
                             DeadRow(rows[i], "exhausted")}
    BY <1>7 DEF RetireByAttempts, KillMidRetire, Retired, Ids
  <2>3. ASSUME NEW i \in Ids
        PROVE  /\ rows'[i].state \in {rows[i].state, "dead"}
               /\ rows'[i].error \in {rows[i].error, "retry", "exhausted"}
    BY <1>3, <2>2, RowFields
  <2> QED
    BY <1>2, <2>1, <2>3
       DEF TableGrows, ExportedWasIngested, OnlyPoisonIsIsolated
<1> QED
  BY <1>1, <1>4, <1>5, <1>6, <1>7, StepKinds

LEMMA DeliveryInit0 == Init => DeliveryInv
BY IdleIsFlush DEF Init, DeliveryInv, Answered, ExportedWasIngested,
   OnlyPoisonIsIsolated, Ids

(* Whatever kills and shutdowns do, an exported row is on the server.      *)
THEOREM ExportedOnServer == Spec => []ExportedWasIngested
<1>1. DeliveryInv /\ TypeOK /\ [Next]_vars => DeliveryInv'
  BY DeliveryStep
<1>2. DeliveryInv => ExportedWasIngested
  BY DEF DeliveryInv
<1> QED
  BY <1>1, <1>2, DeliveryInit0, TypeCorrect, PTL DEF Spec

(* Whatever kills and shutdowns do, no healthy event is isolated as poison. *)
THEOREM PoisonIsolated == Spec => []OnlyPoisonIsIsolated
<1>1. DeliveryInv /\ TypeOK /\ [Next]_vars => DeliveryInv'
  BY DeliveryStep
<1>2. DeliveryInv => OnlyPoisonIsIsolated
  BY DEF DeliveryInv
<1> QED
  BY <1>1, <1>2, DeliveryInit0, TypeCorrect, PTL DEF Spec

-----------------------------------------------------------------------------
(* A short outage buries nothing.                                          *)
(* The retry budget is spent by refused POSTs only: a row's attempts and   *)
(* the refusals about it that the batcher has yet to write never exceed    *)
(* the refusals there were.                                                *)

Charge(f, i) ==
  IF flush[f].wire = "refused" /\ i \in flush[f].posted THEN 1 ELSE 0

Spent ==
  \A i \in Ids :
    rows[i].attempts + Charge("pump", i) + Charge("final", i) <= refusals

LastTries == \A f \in Flushers : \A i \in flush[f].last :
               Exhausted(rows[i].attempts)

Buried == \A i \in Ids : rows[i].error = "exhausted" => MaxAttempts <= refusals

SpentInv == Spent /\ LastTries /\ Buried

(* What a rewriting step makes of the attempts and the error of a row.     *)
LEMMA RowSpends ==
  ASSUME TypeOK, NEW f \in Flushers, NEW i \in Ids,
         MarkExported(f) \/ MarkPoison(f) \/ RetireByAttempts(f)
           \/ KillMidRetire(f)
  PROVE  /\ rows[i].attempts \in Nat
         /\ rows'[i].attempts \in {rows[i].attempts, rows[i].attempts + 1}
         /\ rows'[i].attempts # rows[i].attempts
              => flush[f].wire = "refused" /\ i \in flush[f].posted
         /\ rows'[i].error = "exhausted" /\ rows[i].error # "exhausted"
              => /\ flush[f].wire = "refused" /\ i \in flush[f].posted
                 /\ i \in flush[f].last
<1>1. /\ rows[i] \in Row /\ "poison" \in Reasons
      /\ "exhausted" \in Reasons /\ rows[i].attempts \in Nat
  BY IdsAreNaturals DEF Reasons, Row
<1>2. CASE MarkExported(f)
  BY <1>1, <1>2, RowFields DEF MarkExported, Ids
<1>3. CASE MarkPoison(f)
  BY <1>1, <1>3, RowFields DEF MarkPoison, Ids
<1>4. CASE RetireByAttempts(f)
  BY <1>1, <1>4, RowFields DEF RetireByAttempts, Retired, Ids
<1>5. CASE KillMidRetire(f)
  BY <1>1, <1>5, RowFields DEF KillMidRetire, Ids
<1> QED
  BY <1>2, <1>3, <1>4, <1>5, <1>1

(* A step that rewrites rows of a POST is done with its answer.            *)
LEMMA AnswerUsed ==
  ASSUME TypeOK, NEW f \in Flushers,
         MarkExported(f) \/ MarkPoison(f) \/ RetireByAttempts(f)
           \/ KillMidRetire(f)
  PROVE  /\ flush'[f].wire \in {"idle", "sent"}
         /\ \A g \in Flushers : flush'[g] \in {flush[g], Idle} \/ g = f
         /\ refusals' = refusals
<1>1. CASE KillMidRetire(f)
  BY <1>1, GoneFlush, IdleIsFlush DEF KillMidRetire
<1>2. CASE MarkExported(f) \/ MarkPoison(f) \/ RetireByAttempts(f)
  BY <1>2, NextPostFlush
     DEF MarkExported, MarkPoison, RetireByAttempts, FlushKept, TypeOK
<1> QED
  BY <1>1, <1>2

(* Attempts never decrease.                                                *)
LEMMA AttemptsGrow ==
  ASSUME TypeOK, [Next]_vars
  PROVE  \A i \in Ids : /\ rows[i].attempts \in Nat
                        /\ rows'[i].attempts \in Nat
                        /\ rows[i].attempts <= rows'[i].attempts
<1>1. \A i \in Ids : rows[i].attempts \in Nat
  BY IdsAreNaturals DEF Row
<1>2. CASE \A i \in Ids' : QuietRow(i)
  BY <1>1, <1>2, TypeStep DEF QuietRow, TableGrows
<1>3. CASE \E f \in Flushers : \/ MarkExported(f) \/ MarkPoison(f)
                               \/ RetireByAttempts(f) \/ KillMidRetire(f)
  BY <1>1, <1>3, RowSpends
<1> QED
  BY <1>2, <1>3, StepKinds

LEMMA LastTriesStep ==
  ASSUME TypeOK, LastTries, [Next]_vars
  PROVE  LastTries'
<1>1. \A f \in Flushers : \/ flush'[f].last \subseteq flush[f].last
                          \/ flush'[f] = StartFlush /\ UNCHANGED rows
  <2>1. CASE \E f \in Flushers : ServerStep(f)
    BY <2>1, ServerAnswers, AnsweredFlush DEF ServerStep, Wire
  <2>2. CASE \E f \in Flushers : MarkExported(f) \/ MarkPoison(f)
                                 \/ RetireByAttempts(f)
    BY <2>2, NextPostFlush
       DEF MarkExported, MarkPoison, RetireByAttempts, FlushKept, TypeOK
  <2>3. CASE \E f \in Flushers : SplitBatch(f)
    BY <2>3, SplitBatchFlush DEF FlushKept, TypeOK
  <2>4. CASE Kill \/ Exit \/ \E f \in Flushers : KillMidRetire(f)
    BY <2>4, GoneFlush, IdleIsFlush DEF Kill, Exit, KillMidRetire
  <2>5. CASE PumpTick \/ FinalFlush
    BY <2>5 DEF PumpTick, FinalFlush, TypeOK
  <2>6. CASE AbandonFlush
    BY <2>6, IdleIsFlush DEF AbandonFlush, TypeOK
  <2>7. CASE UNCHANGED flush
    BY <2>7
  <2> QED
    BY <2>1, <2>2, <2>3, <2>4, <2>5, <2>6, <2>7 DEF Next, PumpNext,
       StopNext, FlushStep, ServerStep, Flushers, vars, Enqueue,
       BackoffElapses, Restart, Stop, CloseOutbox
<1>2. ASSUME NEW f \in Flushers, NEW i \in flush'[f].last
      PROVE  Exhausted(rows'[i].attempts)
  <2>1. CASE i \in flush[f].last
    <3>1. i \in Ids
      BY <2>1 DEF TypeOK, Flush
    <3> QED
      BY <2>1, <3>1, AttemptsGrow, ExportAssumption DEF LastTries, Exhausted
  <2>2. CASE flush'[f] = StartFlush /\ UNCHANGED rows
    BY <1>2, <2>2, StartedFlush
  <2> QED
    BY <1>1, <1>2, <2>1, <2>2
<1> QED
  BY <1>2 DEF LastTries, Exhausted

LEMMA SpentStep ==
  ASSUME TypeOK, SpentInv, [Next]_vars
  PROVE  Spent' /\ Buried'
<1> USE DEF SpentInv
<1>1. TypeOK' /\ TableGrows
  BY TypeStep
<1>2. /\ refusals \in Nat /\ refusals' \in Nat /\ MaxAttempts \in Nat
      /\ \A i \in Ids : rows[i].attempts \in Nat
  BY <1>1, ExportAssumption, IdsAreNaturals DEF TypeOK, Row
<1>3. \A i \in Ids : /\ Charge("pump", i) \in {0, 1}
                     /\ Charge("final", i) \in {0, 1}
  BY DEF Charge
<1>4. ASSUME NEW f \in Flushers, ServerStep(f)
      PROVE  Spent' /\ Buried'
  <2>1. flush[f].wire = "sent" /\ UNCHANGED rows /\ Ids' = Ids
    BY <1>4, ServerAnswers DEF ServerStep, Ids
  <2>2. PICK w \in {"ok", "invalid", "refused"} :
          flush' = [flush EXCEPT ![f].wire = w]
    BY <1>4, ServerAnswers DEF ServerStep
  <2>3. /\ flush'[f].wire = w /\ flush'[f].posted = flush[f].posted
        /\ \A g \in Flushers : g # f => flush'[g] = flush[g]
    BY <2>2, AnsweredFlush DEF Wire
  <2>4. refusals <= refusals' /\ (w = "refused" => refusals' = refusals + 1)
    <3>1. CASE ServerRefuses(f)
      BY <1>2, <3>1 DEF ServerRefuses
    <3>2. CASE ServerAccepts(f)
      <4>1. flush' = [flush EXCEPT ![f].wire = "ok"] /\ refusals' = refusals
        BY <3>2 DEF ServerAccepts
      <4>2. flush'[f].wire = "ok"
        BY <4>1, AnsweredFlush DEF Wire
      <4> QED
        BY <1>2, <2>3, <4>1, <4>2
    <3>3. CASE ServerRejects(f)
      <4>1. flush' = [flush EXCEPT ![f].wire = "invalid"]
            /\ refusals' = refusals
        BY <3>3 DEF ServerRejects
      <4>2. flush'[f].wire = "invalid"
        BY <4>1, AnsweredFlush DEF Wire
      <4> QED
        BY <1>2, <2>3, <4>1, <4>2
    <3> QED
      BY <1>4, <3>1, <3>2, <3>3 DEF ServerStep
  <2>5. ASSUME NEW i \in Ids
        PROVE  rows'[i].attempts + Charge("pump", i)' + Charge("final", i)'
                 <= refusals'
    <3>1. Charge(f, i) = 0
      BY <2>1 DEF Charge
    <3>2. \/ Charge(f, i)' = 0 /\ refusals <= refusals'
          \/ Charge(f, i)' = 1 /\ refusals' = refusals + 1
      BY <2>3, <2>4 DEF Charge
    <3>3. \A g \in Flushers : g # f => Charge(g, i)' = Charge(g, i)
      BY <2>3 DEF Charge
    <3>4. rows'[i].attempts = rows[i].attempts
      BY <2>1
    <3>5. rows[i].attempts + Charge("pump", i) + Charge("final", i) <= refusals
      BY DEF Spent
    <3>6. CASE f = "pump"
      BY <1>2, <1>3, <3>1, <3>2, <3>3, <3>4, <3>5, <3>6 DEF Flushers
    <3>7. CASE f = "final"
      BY <1>2, <1>3, <3>1, <3>2, <3>3, <3>4, <3>5, <3>7 DEF Flushers
    <3> QED
      BY <3>6, <3>7 DEF Flushers
  <2>6. Spent'
    BY <2>1, <2>5 DEF Spent
  <2>7. Buried'
    BY <1>2, <2>1, <2>4 DEF Buried
  <2> QED
    BY <2>6, <2>7
<1>5. CASE (\A i \in Ids' : QuietRow(i)) /\ ~ \E f \in Flushers : ServerStep(f)
  <2>1. /\ refusals' = refusals
        /\ \A f \in Flushers : \/ flush'[f] = flush[f]
                               \/ flush'[f].wire \in {"idle", "sent"}
    BY <1>5, OtherSteps
  <2>2. ASSUME NEW i \in Ids', NEW f \in Flushers
        PROVE  Charge(f, i)' \in {0, Charge(f, i)}
    BY <2>1 DEF Charge
  <2>3. ASSUME NEW i \in Ids', i \notin Ids, NEW f \in Flushers
        PROVE  Charge(f, i) = 0
    BY <2>3 DEF Charge, TypeOK, Flush
  <2>4. ASSUME NEW i \in Ids'
        PROVE  rows'[i].attempts + Charge("pump", i)' + Charge("final", i)'
                 <= refusals'
    <3>1. QuietRow(i)
      BY <1>5
    <3>2. CASE i \in Ids
      <4>1. rows'[i].attempts = rows[i].attempts
        BY <3>1, <3>2 DEF QuietRow
      <4>2. rows[i].attempts + Charge("pump", i) + Charge("final", i)
              <= refusals
        BY <3>2 DEF Spent
      <4> QED
        BY <1>2, <1>3, <2>1, <2>2, <3>2, <4>1, <4>2 DEF Flushers
    <3>3. CASE i \notin Ids
      BY <1>2, <2>1, <2>2, <2>3, <3>1, <3>3 DEF QuietRow, Flushers
    <3> QED
      BY <3>2, <3>3
  <2>5. Buried'
    BY <1>5, <2>1 DEF Buried, QuietRow
  <2> QED
    BY <2>4, <2>5 DEF Spent
<1>6. ASSUME NEW f \in Flushers,
             MarkExported(f) \/ MarkPoison(f) \/ RetireByAttempts(f)
               \/ KillMidRetire(f)
      PROVE  Spent' /\ Buried'
  <2>1. Ids' = Ids
    BY <1>6, RewritingSteps
  <2>2. /\ flush'[f].wire \in {"idle", "sent"}
        /\ \A g \in Flushers : flush'[g] \in {flush[g], Idle} \/ g = f
        /\ refusals' = refusals
    BY <1>6, AnswerUsed
  <2>3. ASSUME NEW i \in Ids
        PROVE  rows'[i].attempts + Charge("pump", i)' + Charge("final", i)'
                 <= refusals'
    <3>1. /\ rows[i].attempts \in Nat
          /\ rows'[i].attempts \in {rows[i].attempts, rows[i].attempts + 1}
          /\ rows'[i].attempts # rows[i].attempts => Charge(f, i) = 1
      BY <1>6, RowSpends DEF Charge
    <3>2. Charge(f, i)' = 0
      BY <2>2 DEF Charge
    <3>3. \A g \in Flushers : g # f => Charge(g, i)' \in {0, Charge(g, i)}
      BY <2>2, IdleIsFlush DEF Charge
    <3>4. rows[i].attempts + Charge("pump", i) + Charge("final", i) <= refusals
      BY DEF Spent
    <3>5. CASE f = "pump"
      BY <1>2, <1>3, <2>2, <3>1, <3>2, <3>3, <3>4, <3>5 DEF Flushers
    <3>6. CASE f = "final"
      BY <1>2, <1>3, <2>2, <3>1, <3>2, <3>3, <3>4, <3>6 DEF Flushers
    <3> QED
      BY <3>5, <3>6 DEF Flushers
  <2>4. ASSUME NEW i \in Ids, rows'[i].error = "exhausted",
               rows[i].error # "exhausted"
        PROVE  MaxAttempts <= refusals'
    <3>1. i \in flush[f].last /\ Charge(f, i) = 1
      BY <1>6, <2>4, RowSpends DEF Charge
    <3>2. rows[i].attempts + 1 >= MaxAttempts
      BY <3>1 DEF LastTries, Exhausted
    <3>3. rows[i].attempts + Charge("pump", i) + Charge("final", i) <= refusals
      BY DEF Spent
    <3> QED
      BY <1>2, <1>3, <2>2, <3>1, <3>2, <3>3 DEF Flushers
  <2> QED
    BY <2>1, <2>2, <2>3, <2>4 DEF Spent, Buried
<1> QED
  BY <1>4, <1>5, <1>6, StepKinds

LEMMA SpentInit == Init => SpentInv
BY IdleIsFlush
   DEF Init, SpentInv, Spent, LastTries, Buried, Ids, Charge, Flushers

(* However batches are split, killed or claimed twice by a shutdown, no    *)
(* row is dead-lettered for want of attempts before that many POSTs have   *)
(* been refused.                                                           *)
THEOREM ShortOutage == Spec => []ShortOutageBuriesNothing
<1>1. SpentInv /\ TypeOK /\ [Next]_vars => SpentInv'
  BY SpentStep, LastTriesStep DEF SpentInv
<1>2. SpentInv /\ TypeOK => ShortOutageBuriesNothing
  BY ExportAssumption DEF SpentInv, Buried, ShortOutageBuriesNothing, TypeOK
<1> QED
  BY <1>1, <1>2, SpentInit, TypeCorrect, PTL DEF Spec

-----------------------------------------------------------------------------
(***************************************************************************)
(* The export path driven by the pump alone (PumpSpec): the overlap guard  *)
(* keeps claims current, which the retry budget, the settlement of rows    *)
(* and the delivery promise all rest on.                                   *)
(***************************************************************************)

(* The batches of the pump: one at a time, its parts disjoint, and no POST *)
(* outside of it.                                                          *)
OneFlush ==
  /\ flush["final"] = Idle
  /\ phase \in {"running", "down"}
  /\ flush["pump"].posted \cap flush["pump"].rest = {}
  /\ ~flushing => flush["pump"] = Idle

PumpInv == OneFlush /\ ClaimsAreCurrent /\ AttemptsWithinBudget

LEMMA PumpIsNext == [PumpNext]_vars => [Next]_vars
BY DEF Next

(* The steps that deal with an answer of the pump's POST.                  *)
PumpWrites == MarkExported("pump") \/ MarkPoison("pump")
                \/ RetireByAttempts("pump") \/ KillMidRetire("pump")

(* What becomes of the rows of the POST, and that the others stay.         *)
LEMMA WrittenRows ==
  ASSUME TypeOK, PumpInv, PumpWrites
  PROVE  /\ Ids' = Ids
         /\ \A i \in Ids : i \notin flush["pump"].posted => rows'[i] = rows[i]
         /\ \A i \in flush["pump"].posted :
              \/ rows'[i] = rows[i]
              \/ rows'[i].state = "exported" /\ rows'[i].error # "exhausted"
              \/ rows'[i].state = "dead" /\ rows'[i].error # "exhausted"
              \/ /\ rows'[i].state = "dead"
                 /\ Exhausted(rows'[i].attempts)
              \/ /\ rows'[i].state = "pending" /\ rows'[i].error # "exhausted"
                 /\ rows'[i].attempts < MaxAttempts
<1>1. "pump" \in Flushers /\ Ids' = Ids
  BY RewritingSteps DEF PumpWrites, Flushers
<1>2. ASSUME NEW i \in flush["pump"].posted
      PROVE  /\ i \in Ids /\ rows[i] \in Row /\ rows[i].state = "pending"
             /\ rows[i].attempts \in Nat /\ MaxAttempts \in Nat
             /\ "poison" \in Reasons /\ "exhausted" \in Reasons
             /\ i \in flush["pump"].last <=> Exhausted(rows[i].attempts)
  BY <1>1, IdsAreNaturals, ExportAssumption
     DEF TypeOK, Flush, PumpInv, ClaimsAreCurrent, Reasons, Row
<1>3. CASE MarkExported("pump")
  BY <1>1, <1>2, <1>3, RowFields DEF MarkExported, Ids
<1>4. CASE MarkPoison("pump")
  BY <1>1, <1>2, <1>4, RowFields DEF MarkPoison, Ids
<1>5. CASE RetireByAttempts("pump")
  <2>1. \A i \in Ids : i \notin flush["pump"].posted => rows'[i] = rows[i]
    BY <1>5 DEF RetireByAttempts, Ids
  <2>2. ASSUME NEW i \in flush["pump"].posted, i \in flush["pump"].last
        PROVE  rows'[i].state = "dead" /\ Exhausted(rows'[i].attempts)
    <3>1. rows'[i] = DeadRow(rows[i], "exhausted")
      BY <1>2, <1>5, <2>2 DEF RetireByAttempts, Retired, Ids
    <3> QED
      BY <1>2, <2>2, <3>1, RowFields
  <2>3. ASSUME NEW i \in flush["pump"].posted, i \notin flush["pump"].last
        PROVE  /\ rows'[i].state = "pending" /\ rows'[i].error # "exhausted"
               /\ rows'[i].attempts < MaxAttempts
    <3>1. rows'[i] = FailedRow(rows[i])
      BY <1>2, <1>5, <2>3 DEF RetireByAttempts, Retired, Ids
    <3> QED
      BY <1>2, <2>3, <3>1, RowFields DEF Exhausted
  <2> QED
    BY <1>1, <2>1, <2>2, <2>3
<1>6. CASE KillMidRetire("pump")
  <2>1. \A i \in Ids : i \notin flush["pump"].posted => rows'[i] = rows[i]
    BY <1>6 DEF KillMidRetire, Ids
  <2>2. ASSUME NEW i \in flush["pump"].posted, rows'[i] # rows[i]
        PROVE  /\ rows'[i].state = "pending" /\ rows'[i].error # "exhausted"
               /\ rows'[i].attempts < MaxAttempts
    <3>1. rows'[i] = FailedRow(rows[i]) /\ i \notin flush["pump"].last
      BY <1>2, <1>6, <2>2 DEF KillMidRetire, Ids
    <3> QED
      BY <1>2, <3>1, RowFields DEF Exhausted
  <2> QED
    BY <1>1, <2>1, <2>2
<1> QED
  BY <1>3, <1>4, <1>5, <1>6 DEF PumpWrites

(* How the pump's flush goes on after a write: over, or with the next row. *)
LEMMA WrittenFlush ==
  ASSUME TypeOK, PumpInv, PumpWrites
  PROVE  /\ flush'["final"] = Idle
         /\ phase' \in {"running", "down"}
         /\ \/ flush'["pump"] = Idle
            \/ /\ flushing'
               /\ \E i \in flush["pump"].rest :
                    /\ flush'["pump"].posted = {i}
                    /\ flush'["pump"].rest = flush["pump"].rest \ {i}
                    /\ flush'["pump"].last = flush["pump"].last
<1>1. "pump" \in Flushers /\ "final" \in Flushers /\ "pump" # "final"
  BY DEF Flushers
<1>2. CASE KillMidRetire("pump")
  BY <1>1, <1>2, GoneFlush DEF KillMidRetire, ProcessGone
<1>3. CASE ~KillMidRetire("pump")
  <2>1. NextPost("pump") /\ phase' = phase
    BY <1>3 DEF PumpWrites, MarkExported, MarkPoison, RetireByAttempts
  <2>2. flush'["final"] = Idle
    BY <1>1, <2>1 DEF NextPost, PostSingle, TypeOK, PumpInv, OneFlush
  <2>3. flushing \in BOOLEAN /\ (flush["pump"].rest # {} => flushing)
    BY IdleIsFlush DEF TypeOK, PumpInv, OneFlush
  <2> QED
    BY <1>1, <2>1, <2>2, <2>3
       DEF NextPost, PostSingle, TypeOK, PumpInv, OneFlush
<1> QED
  BY <1>2, <1>3

LEMMA WriteKeepsPumpInv ==
  ASSUME TypeOK, PumpInv, PumpWrites
  PROVE  PumpInv'
<1>1. OneFlush'
  BY WrittenFlush, IdleIsFlush DEF OneFlush
<1>2. ClaimsAreCurrent'
  <2>1. flush'["pump"].posted \cup flush'["pump"].rest \subseteq
          flush["pump"].rest
        /\ (flush'["pump"] = Idle \/ flush'["pump"].last = flush["pump"].last)
    BY WrittenFlush, IdleIsFlush
  <2>2. ASSUME NEW i \in flush["pump"].rest
        PROVE  /\ rows'[i] = rows[i]
               /\ rows[i].state = "pending"
               /\ i \in flush["pump"].last <=> Exhausted(rows[i].attempts)
    <3>1. i \notin flush["pump"].posted /\ "pump" \in Flushers
      BY DEF PumpInv, OneFlush, Flushers
    <3>2. i \in Ids
      BY <3>1 DEF TypeOK, Flush
    <3> QED
      BY <3>1, <3>2, WrittenRows DEF PumpInv, ClaimsAreCurrent
  <2> QED
    BY <2>1, <2>2, WrittenFlush, IdleIsFlush
       DEF ClaimsAreCurrent, Flushers, Exhausted
<1>3. AttemptsWithinBudget'
  BY WrittenRows DEF PumpInv, AttemptsWithinBudget, Exhausted
<1> QED
  BY <1>1, <1>2, <1>3 DEF PumpInv

(* The steps that touch neither the table nor the rows of a flush.         *)
LEMMA QuietKeepsPumpInv ==
  ASSUME TypeOK, PumpInv, OneFlush',
         \A f \in Flushers :
           /\ flush'[f].posted \cup flush'[f].rest
                \subseteq flush[f].posted \cup flush[f].rest
           /\ flush'[f].last = flush[f].last \/ flush'[f] = Idle,
         \A i \in Ids' : i \notin Ids =>
              /\ rows'[i].state = "pending" /\ rows'[i].error = "none"
              /\ rows'[i].attempts = 0,
         \A i \in Ids : /\ rows'[i].state = rows[i].state
                        /\ rows'[i].error = rows[i].error
                        /\ rows'[i].attempts = rows[i].attempts
  PROVE  PumpInv'
<1>1. AttemptsWithinBudget'
  BY ExportAssumption DEF PumpInv, AttemptsWithinBudget, Exhausted
<1>2. ASSUME NEW f \in Flushers, NEW i \in flush'[f].posted \cup flush'[f].rest
      PROVE  /\ rows'[i].state = "pending"
             /\ i \in flush'[f].last <=> Exhausted(rows'[i].attempts)
  <2>1. i \in flush[f].posted \cup flush[f].rest /\ i \in Ids
    BY <1>2 DEF TypeOK, Flush
  <2>2. flush'[f] # Idle
    BY <1>2, IdleIsFlush
  <2>3. /\ rows[i].state = "pending"
        /\ i \in flush[f].last <=> Exhausted(rows[i].attempts)
    BY <2>1 DEF PumpInv, ClaimsAreCurrent
  <2> QED
    BY <2>1, <2>2, <2>3
<1>3. ClaimsAreCurrent'
  BY <1>2 DEF ClaimsAreCurrent, Exhausted
<1> QED
  BY <1>1, <1>3 DEF PumpInv

LEMMA PumpInvInit == Init => PumpInv
BY IdleIsFlush DEF Init, PumpInv, OneFlush, ClaimsAreCurrent,
   AttemptsWithinBudget, Flushers, Ids

LEMMA PumpStep ==
  ASSUME TypeOK, PumpInv, [PumpNext]_vars
  PROVE  PumpInv'
<1> "pump" \in Flushers /\ "final" \in Flushers /\ "pump" # "final"
  BY DEF Flushers
<1>1. \A f \in Flushers : Idle = flush[f] =>
        flush[f].posted = {} /\ flush[f].rest = {} /\ flush[f].last = {}
  BY IdleIsFlush
<1>2. ASSUME NEW e \in Events, Enqueue(e)
      PROVE  PumpInv'
  <2>1. OneFlush' /\ flush' = flush
    BY <1>2 DEF Enqueue, PumpInv, OneFlush
  <2>2. \A i \in Ids : rows'[i] = rows[i]
    BY <1>2, EnqueueTable
  <2>3. \A i \in Ids' : QuietRow(i)
    BY <1>2, QuietSteps
  <2> QED
    BY <2>1, <2>2, <2>3, QuietKeepsPumpInv DEF QuietRow
<1>3. CASE PumpTick
  <2>1. /\ flush' = [flush EXCEPT !["pump"] = StartFlush] /\ flushing'
        /\ UNCHANGED <<rows, phase>> /\ Ids' = Ids
    BY <1>3 DEF PumpTick, Ids
  <2>2. flush'["pump"] = StartFlush /\ flush'["final"] = Idle
    BY <2>1 DEF TypeOK, PumpInv, OneFlush
  <2>3. OneFlush'
    BY <2>1, <2>2, StartedFlush DEF PumpInv, OneFlush
  <2>4. ClaimsAreCurrent'
    BY <2>1, <2>2, StartedFlush, IdleIsFlush
       DEF ClaimsAreCurrent, Flushers, Exhausted
  <2> QED
    BY <2>1, <2>3, <2>4 DEF PumpInv, AttemptsWithinBudget, Exhausted
<1>4. CASE ServerStep("pump")
  <2>1. UNCHANGED <<rows, flushing, phase>> /\ Ids' = Ids
        /\ flush["pump"].wire = "sent"
    BY <1>4, ServerAnswers DEF ServerStep, Ids
  <2>2. /\ flush'["final"] = flush["final"]
        /\ \A f \in Flushers : /\ flush'[f].posted = flush[f].posted
                               /\ flush'[f].rest = flush[f].rest
                               /\ flush'[f].last = flush[f].last
    BY <1>4, ServerAnswers, AnsweredFlush DEF ServerStep, Wire
  <2>3. OneFlush'
    BY <2>1, <2>2, IdleIsFlush DEF PumpInv, OneFlush
  <2> QED
    BY <2>1, <2>2, <2>3, QuietKeepsPumpInv
<1>5. CASE SplitBatch("pump")
  <2>1. UNCHANGED <<rows, flushing, phase>> /\ Ids' = Ids
        /\ flush["pump"].wire = "invalid"
    BY <1>5 DEF SplitBatch, Ids
  <2>2. PICK i \in flush["pump"].posted :
          PostSingle("pump", i, flush["pump"].posted)
    BY <1>5 DEF SplitBatch
  <2>3. /\ flush'["final"] = flush["final"]
        /\ flush'["pump"].posted = {i}
        /\ flush'["pump"].rest = flush["pump"].posted \ {i}
        /\ flush'["pump"].last = flush["pump"].last
    BY <2>2 DEF PostSingle, TypeOK
  <2>4. OneFlush'
    BY <2>1, <2>3, IdleIsFlush DEF PumpInv, OneFlush
  <2>5. \A f \in Flushers :
          /\ flush'[f].posted \cup flush'[f].rest
               \subseteq flush[f].posted \cup flush[f].rest
          /\ flush'[f].last = flush[f].last
    BY <2>3 DEF Flushers
  <2> QED
    BY <2>1, <2>4, <2>5, QuietKeepsPumpInv
<1>6. CASE PumpWrites
  BY <1>6, WriteKeepsPumpInv
<1>7. ASSUME NEW j \in Ids, BackoffElapses(j)
      PROVE  PumpInv'
  <2>1. OneFlush' /\ flush' = flush
    BY <1>7 DEF BackoffElapses, PumpInv, OneFlush
  <2>2. Ids' = Ids
    BY <1>7, RewritingSteps
  <2>3. \A i \in Ids' : QuietRow(i)
    BY <1>7, QuietSteps
  <2> QED
    BY <2>1, <2>2, <2>3, QuietKeepsPumpInv DEF QuietRow
<1>8. CASE Kill
  <2>1. UNCHANGED rows /\ Ids' = Ids /\ \A f \in Flushers : flush'[f] = Idle
    BY <1>8, GoneFlush DEF Kill, Ids
  <2>2. OneFlush'
    BY <1>8, <2>1, IdleIsFlush DEF Kill, ProcessGone, OneFlush
  <2> QED
    BY <2>1, <2>2, IdleIsFlush, QuietKeepsPumpInv
<1>9. CASE Restart \/ UNCHANGED vars
  <2>1. UNCHANGED <<rows, flush, flushing>> /\ Ids' = Ids
    BY <1>9 DEF Restart, vars, Ids
  <2>2. OneFlush'
    BY <1>9, <2>1 DEF Restart, vars, PumpInv, OneFlush
  <2> QED
    BY <2>1, <2>2, QuietKeepsPumpInv
<1> QED
  BY <1>2, <1>3, <1>4, <1>5, <1>6, <1>7, <1>8, <1>9
     DEF PumpNext, FlushStep, ServerStep, PumpWrites

LEMMA PumpInvariant == PumpSpec => [](TypeOK /\ PumpInv)
<1>1. Init => TypeOK /\ PumpInv
  BY InitType, PumpInvInit
<1>2. TypeOK /\ PumpInv /\ [PumpNext]_vars => (TypeOK /\ PumpInv)'
  BY TypeStep, PumpStep, PumpIsNext
<1> QED
  BY <1>1, <1>2, PTL DEF PumpSpec

(* Under the pump's guard no two POSTs carry the same row, and no row is   *)
(* settled or charged between its claim and the use of its answer.         *)
THEOREM ClaimsCurrent == PumpSpec => []ClaimsAreCurrent
<1>1. PumpInv => ClaimsAreCurrent
  BY DEF PumpInv
<1> QED
  BY <1>1, PumpInvariant, PTL

(* Every retried row has attempts left; every buried one used them up.     *)
THEOREM BudgetKept == PumpSpec => []AttemptsWithinBudget
<1>1. PumpInv => AttemptsWithinBudget
  BY DEF PumpInv
<1> QED
  BY <1>1, PumpInvariant, PTL

(* The pump never moves a row out of exported or dead, and loses none.     *)
THEOREM RowsSettleForever == PumpSpec => SettledForever
<1>1. ASSUME TypeOK, PumpInv, [PumpNext]_vars
      PROVE  \A i \in Ids : /\ i \in Ids'
                            /\ rows[i].state # "pending" => rows'[i] = rows[i]
  <2>1. Ids \subseteq Ids'
    BY <1>1, PumpIsNext, TypeStep DEF TableGrows
  <2>2. ASSUME NEW i \in Ids, rows[i].state # "pending"
        PROVE  rows'[i] = rows[i]
    <3>1. CASE PumpWrites
      <4>1. i \notin flush["pump"].posted
        BY <1>1, <2>2 DEF PumpInv, ClaimsAreCurrent, Flushers
      <4> QED
        BY <1>1, <3>1, <4>1, WrittenRows
    <3>2. CASE \E e \in Events : Enqueue(e)
      BY <1>1, <3>2, EnqueueTable
    <3>3. CASE \E j \in Ids : BackoffElapses(j)
      BY <2>2, <3>3 DEF BackoffElapses
    <3>4. CASE UNCHANGED rows
      BY <3>4
    <3> QED
      BY <1>1, <3>1, <3>2, <3>3, <3>4 DEF PumpNext, FlushStep, PumpWrites,
         vars, PumpTick, ServerAccepts, ServerRejects, ServerRefuses,
         SplitBatch, Kill, Restart
  <2> QED
    BY <2>1, <2>2
<1>2. TypeOK /\ PumpInv /\ [PumpNext]_vars =>
        [\A i \in Ids : /\ i \in Ids'
                        /\ rows[i].state # "pending" => rows'[i] = rows[i]]_vars
  BY <1>1
<1> QED
  BY <1>2, PumpInvariant, PTL DEF PumpSpec, SettledForever

----------------------------------------------------------------------------
(* The export path driven by the pump implements UsageDelivery.            *)

(* An event is committed once, so its row tells its status.                *)
UniqueEvents ==
  \A i, j \in Ids : rows[i].event = rows[j].event => i = j

LEMMA UniqueStep ==
  ASSUME TypeOK, UniqueEvents, [PumpNext]_vars
  PROVE  UniqueEvents'
<1>1. CASE \E e \in Events : Enqueue(e)
  <2>1. PICK e \in Events : Enqueue(e)
    BY <1>1
  <2>2. \A i \in Ids : rows[i].event # e
    BY <2>1 DEF Enqueue, Committed, EventsOf
  <2>3. Fresh(e).event = e
    BY DEF Fresh
  <2> QED
    BY <2>1, <2>2, <2>3, EnqueueTable DEF UniqueEvents
<1>2. CASE Ids' = Ids
  BY <1>2, PumpIsNext, TypeStep DEF UniqueEvents, TableGrows
<1>3. CASE UNCHANGED rows
  BY <1>3 DEF UniqueEvents, Ids
<1>4. PumpWrites \/ (\E j \in Ids : BackoffElapses(j)) => Ids' = Ids
  BY RewritingSteps DEF PumpWrites, Flushers
<1> QED
  BY <1>1, <1>2, <1>3, <1>4 DEF PumpNext, FlushStep, PumpWrites,
     vars, PumpTick, ServerAccepts, ServerRejects, ServerRefuses,
     SplitBatch, Kill, Restart

LEMMA StatusOfRow ==
  ASSUME UniqueEvents, NEW i \in Ids
  PROVE  StatusOf(rows[i].event) = View(rows[i].state)
<1> DEFINE e == rows[i].event
<1>1. e \in Committed
  BY DEF Committed, EventsOf
<1>2. (CHOOSE j \in Ids : rows[j].event = e) = i
  BY DEF UniqueEvents
<1> QED
  BY <1>1, <1>2 DEF StatusOf

(* The same of the next state.                                             *)
LEMMA StatusOfRowNext ==
  ASSUME UniqueEvents', NEW e, NEW i \in Ids', rows'[i].event = e
  PROVE  StatusOf(e)' = View(rows'[i].state)
<1>1. e \in Committed'
  BY DEF Committed, EventsOf
<1>2. (CHOOSE j \in Ids' : rows'[j].event = e) = i
  BY DEF UniqueEvents
<1> QED
  BY <1>1, <1>2 DEF StatusOf, View

Status == [e \in Events |-> StatusOf(e)]

(* A step that leaves every row's state leaves every event's status.       *)
LEMMA SameStatus ==
  ASSUME TypeOK, UniqueEvents, UniqueEvents', TableGrows, Ids' = Ids,
         \A i \in Ids : rows'[i].state = rows[i].state
  PROVE  Status' = Status
<1>1. Committed' = Committed
  BY DEF TableGrows, Committed, EventsOf
<1>2. ASSUME NEW e \in Events
      PROVE  StatusOf(e)' = StatusOf(e)
  <2>1. CASE e \in Committed
    <3>1. PICK i \in Ids : rows[i].event = e
      BY <2>1 DEF Committed, EventsOf
    <3>2. rows'[i].event = e /\ i \in Ids'
      BY <3>1 DEF TableGrows
    <3>3. StatusOf(e) = View(rows[i].state)
      BY <3>1, StatusOfRow
    <3>4. StatusOf(e)' = View(rows'[i].state)
      BY <3>2, StatusOfRowNext
    <3> QED
      BY <3>3, <3>4
  <2>2. CASE e \notin Committed
    BY <1>1, <2>2 DEF StatusOf
  <2> QED
    BY <2>1, <2>2
<1> QED
  BY <1>2 DEF Status

(* A step that settles the rows of one POST settles their events: those of *)
(* the rows in X as delivered, those of the rows in Y as dead.             *)
LEMMA SettledStatus ==
  ASSUME TypeOK, UniqueEvents, UniqueEvents', TableGrows, Ids' = Ids,
         NEW X \in SUBSET Ids, NEW Y \in SUBSET Ids, X \cap Y = {},
         \A i \in X \cup Y : rows[i].state = "pending",
         \A i \in X : rows'[i].state = "exported",
         \A i \in Y : rows'[i].state = "dead",
         \A i \in Ids \ (X \cup Y) : rows'[i].state = rows[i].state,
         EventsOf(X) \subseteq ingested, ingested' = ingested
  PROVE  Promise!Settle(EventsOf(X), EventsOf(Y))
<1>1. Committed' = Committed
  BY DEF TableGrows, Committed, EventsOf
<1>2. EventsOf(X) \subseteq Events /\ EventsOf(Y) \subseteq Events
  BY IdsAreNaturals DEF EventsOf, Row
<1>3. \A e \in EventsOf(X) \cup EventsOf(Y) : StatusOf(e) = "pending"
  BY StatusOfRow DEF EventsOf, View
<1>4. ASSUME NEW e \in Events
      PROVE  StatusOf(e)' = IF e \in EventsOf(X) THEN "delivered"
                            ELSE IF e \in EventsOf(Y) THEN "dead"
                            ELSE StatusOf(e)
  <2>1. CASE e \in Committed
    <3>1. PICK i \in Ids : rows[i].event = e
      BY <2>1 DEF Committed, EventsOf
    <3>2. rows'[i].event = e /\ i \in Ids'
      BY <3>1 DEF TableGrows
    <3>3. StatusOf(e) = View(rows[i].state)
      BY <3>1, StatusOfRow
    <3>4. StatusOf(e)' = View(rows'[i].state)
      BY <3>2, StatusOfRowNext
    <3>5. (e \in EventsOf(X) <=> i \in X) /\ (e \in EventsOf(Y) <=> i \in Y)
      BY <3>1 DEF EventsOf, UniqueEvents
    <3> QED
      BY <3>3, <3>4, <3>5 DEF View
  <2>2. CASE e \notin Committed
    <3>1. e \notin EventsOf(X) /\ e \notin EventsOf(Y)
      BY <2>2 DEF Committed, EventsOf
    <3>2. StatusOf(e)' = "unseen" /\ StatusOf(e) = "unseen"
      BY <1>1, <2>2 DEF StatusOf
    <3> QED
      BY <3>1, <3>2
  <2> QED
    BY <2>1, <2>2
<1> QED
  BY <1>2, <1>3, <1>4 DEF Promise!Settle

(* The server stores the batch of the POST in flight.                      *)
LEMMA ReceivedStatus ==
  ASSUME TypeOK, PumpInv, UniqueEvents, UNCHANGED rows,
         ingested' = ingested \cup EventsOf(flush["pump"].posted)
  PROVE  Promise!Receive(EventsOf(flush["pump"].posted))
         /\ EventsOf(flush["pump"].posted) \subseteq Events
<1>1. flush["pump"].posted \subseteq Ids
  BY DEF TypeOK, Flush, Flushers
<1>2. EventsOf(flush["pump"].posted) \subseteq Events
  BY <1>1, IdsAreNaturals DEF EventsOf, Row
<1>3. \A e \in EventsOf(flush["pump"].posted) : StatusOf(e) = "pending"
  BY <1>1, StatusOfRow
     DEF EventsOf, View, PumpInv, ClaimsAreCurrent, Flushers
<1>4. [e \in Events |-> StatusOf(e)]' = [e \in Events |-> StatusOf(e)]
  BY DEF StatusOf, Committed, EventsOf, Ids
<1> QED
  BY <1>2, <1>3, <1>4 DEF Promise!Receive

LEMMA InitPromise == Init => Promise!DeliveryInit
<1> SUFFICES ASSUME Init PROVE Promise!DeliveryInit
  OBVIOUS
<1>1. Committed = {}
  BY DEF Init, Committed, EventsOf, Ids
<1> QED
  BY <1>1 DEF Init, Promise!DeliveryInit, StatusOf

LEMMA StepPromise ==
  ASSUME TypeOK, PumpInv, UniqueEvents, DeliveryInv, [PumpNext]_vars
  PROVE  [Promise!DeliveryNext]_<<Status, ingested>>
<1> USE DEF Status
<1>1. UniqueEvents' /\ TableGrows
  BY UniqueStep, PumpIsNext, TypeStep
<1>2. /\ "pump" \in Flushers /\ flush["pump"].posted \subseteq Ids
      /\ \A i \in flush["pump"].posted :
           /\ rows[i].state = "pending" /\ rows[i] \in Row
           /\ "poison" \in Reasons /\ "exhausted" \in Reasons
  BY IdsAreNaturals
     DEF TypeOK, Flush, Flushers, PumpInv, ClaimsAreCurrent, Reasons
<1>3. CASE \E e \in Events : Enqueue(e)
  <2>1. PICK e \in Events : Enqueue(e)
    BY <1>3
  <2>2. e \notin Committed /\ Committed' = Committed \cup {e}
        /\ rows'[Len(rows) + 1].event = e
        /\ rows'[Len(rows) + 1].state = "pending"
        /\ Len(rows) + 1 \in Ids'
    <3>1. Fresh(e).event = e /\ Fresh(e).state = "pending"
      BY DEF Fresh
    <3>2. Committed' = Committed \cup {e}
      BY <2>1, <3>1, EnqueueTable DEF Committed, EventsOf
    <3> QED
      BY <2>1, <3>1, <3>2, EnqueueTable DEF Enqueue
  <2>3. StatusOf(e) = "unseen" /\ StatusOf(e)' = "pending"
    <3>1. StatusOf(e)' = View(rows'[Len(rows) + 1].state)
      BY <1>1, <2>2, StatusOfRowNext
    <3> QED
      BY <2>2, <3>1 DEF StatusOf, View
  <2>4. ASSUME NEW d \in Events, d # e
        PROVE  StatusOf(d)' = StatusOf(d)
    <3>1. CASE d \in Committed
      <4>1. PICK i \in Ids : rows[i].event = d
        BY <3>1 DEF Committed, EventsOf
      <4>2. rows'[i] = rows[i] /\ i \in Ids'
        BY <2>1, EnqueueTable
      <4>3. StatusOf(d) = View(rows[i].state)
        BY <4>1, StatusOfRow
      <4>4. StatusOf(d)' = View(rows'[i].state)
        BY <1>1, <4>1, <4>2, StatusOfRowNext
      <4> QED
        BY <4>2, <4>3, <4>4
    <3>2. CASE d \notin Committed
      BY <2>2, <2>4, <3>2 DEF StatusOf
    <3> QED
      BY <3>1, <3>2
  <2>5. Status' = [Status EXCEPT ![e] = "pending"]
    BY <2>3, <2>4
  <2>6. Promise!Commit(e)
    BY <2>1, <2>3, <2>5 DEF Promise!Commit, Enqueue
  <2> QED
    BY <2>6 DEF Promise!DeliveryNext
<1>4. CASE ServerStep("pump")
  <2>1. UNCHANGED rows /\ ingested' \in
          {ingested, ingested \cup EventsOf(flush["pump"].posted)}
    BY <1>2, <1>4, ServerAnswers DEF ServerStep
  <2>2. CASE ingested' = ingested
    <3>1. Status' = Status
      BY <2>1 DEF StatusOf, Committed, EventsOf, Ids
    <3> QED
      BY <2>2, <3>1
  <2>3. CASE ingested' = ingested \cup EventsOf(flush["pump"].posted)
    <3>1. /\ Promise!Receive(EventsOf(flush["pump"].posted))
          /\ EventsOf(flush["pump"].posted) \subseteq Events
      BY <2>1, <2>3, ReceivedStatus
    <3> QED
      BY <3>1 DEF Promise!DeliveryNext
  <2> QED
    BY <2>1, <2>2, <2>3
<1>5. CASE PumpWrites
  <2>1. Ids' = Ids /\ ingested' = ingested
    BY <1>5, WrittenRows DEF PumpWrites, MarkExported, MarkPoison,
       RetireByAttempts, KillMidRetire
  <2>2. ASSUME NEW X \in SUBSET flush["pump"].posted,
               NEW Y \in SUBSET flush["pump"].posted, X \cap Y = {},
               \A i \in X : rows'[i].state = "exported",
               \A i \in Y : rows'[i].state = "dead",
               \A i \in Ids \ (X \cup Y) : rows'[i].state = rows[i].state,
               EventsOf(X) \subseteq ingested
        PROVE  Promise!DeliveryNext
    <3>1. EventsOf(X) \in SUBSET Events /\ EventsOf(Y) \in SUBSET Events
      BY <1>2 DEF EventsOf, Row
    <3>2. Promise!Settle(EventsOf(X), EventsOf(Y))
      BY <1>1, <1>2, <2>1, <2>2, SettledStatus
    <3> QED
      BY <3>1, <3>2 DEF Promise!DeliveryNext
  <2>3. CASE MarkExported("pump")
    <3>1. \A i \in Ids : IF i \in flush["pump"].posted
                         THEN rows'[i] = ExportedRow(rows[i])
                         ELSE rows'[i] = rows[i]
      BY <2>3 DEF MarkExported, Ids
    <3>2. \A i \in flush["pump"].posted : rows'[i].state = "exported"
      BY <1>2, <3>1, RowFields
    <3>3. EventsOf(flush["pump"].posted) \subseteq ingested
      BY <1>2, <2>3 DEF MarkExported, DeliveryInv, Answered
    <3>4. {} \in SUBSET flush["pump"].posted
          /\ \A i \in Ids \ flush["pump"].posted : rows'[i].state = rows[i].state
      BY <3>1
    <3>5. Promise!DeliveryNext
      BY <2>2, <3>2, <3>3, <3>4
    <3> QED
      BY <3>5
  <2>4. CASE MarkPoison("pump")
    <3>1. \A i \in Ids : IF i \in flush["pump"].posted
                         THEN rows'[i] = DeadRow(rows[i], "poison")
                         ELSE rows'[i] = rows[i]
      BY <2>4 DEF MarkPoison, Ids
    <3>2. \A i \in flush["pump"].posted : rows'[i].state = "dead"
      BY <1>2, <3>1, RowFields
    <3>3. EventsOf({}) \subseteq ingested
      BY DEF EventsOf
    <3>4. {} \in SUBSET flush["pump"].posted
          /\ \A i \in Ids \ flush["pump"].posted : rows'[i].state = rows[i].state
      BY <3>1
    <3>5. Promise!DeliveryNext
      BY <2>2, <3>2, <3>3, <3>4
    <3> QED
      BY <3>5
  <2>5. CASE RetireByAttempts("pump")
    <3> DEFINE Y == flush["pump"].posted \cap flush["pump"].last
    <3>1. \A i \in Ids : IF i \in flush["pump"].posted
                         THEN rows'[i] = Retired(i, flush["pump"].last)
                         ELSE rows'[i] = rows[i]
      BY <2>5 DEF RetireByAttempts, Ids
    <3>2. \A i \in Y : rows'[i].state = "dead"
      BY <1>2, <3>1, RowFields DEF Retired
    <3>3. \A i \in Ids \ Y : rows'[i].state = rows[i].state
      BY <1>2, <3>1, RowFields DEF Retired
    <3>4. EventsOf({}) \subseteq ingested
      BY DEF EventsOf
    <3>5. {} \in SUBSET flush["pump"].posted
          /\ Y \in SUBSET flush["pump"].posted
      OBVIOUS
    <3> HIDE DEF Y
    <3>6. Promise!DeliveryNext
      BY <2>2, <3>2, <3>3, <3>4, <3>5
    <3> QED
      BY <3>6
  <2>6. CASE KillMidRetire("pump")
    <3>1. \A i \in Ids : \/ rows'[i] = rows[i]
                         \/ /\ i \in flush["pump"].posted
                            /\ rows'[i] = FailedRow(rows[i])
      BY <2>6 DEF KillMidRetire, Ids
    <3>2. \A i \in Ids : rows'[i].state = rows[i].state
      BY <1>2, <3>1, RowFields
    <3> QED
      BY <1>1, <2>1, <3>2, SameStatus
  <2> QED
    BY <1>5, <2>3, <2>4, <2>5, <2>6 DEF PumpWrites
<1>6. CASE \E j \in Ids : BackoffElapses(j)
  <2>1. ingested' = ingested /\ Ids' = Ids
    BY <1>6, RewritingSteps DEF BackoffElapses
  <2>2. \A i \in Ids' : QuietRow(i)
    BY <1>6, QuietSteps
  <2> QED
    BY <1>1, <2>1, <2>2, SameStatus DEF QuietRow
<1>7. CASE UNCHANGED <<rows, ingested>>
  BY <1>7 DEF StatusOf, Committed, EventsOf, Ids
<1> QED
  BY <1>3, <1>4, <1>5, <1>6, <1>7 DEF PumpNext, FlushStep, ServerStep,
     PumpWrites, vars, PumpTick, SplitBatch, Kill, Restart

(* The outbox, the batcher and the pump, with the server, kills and        *)
(* restarts, implement at-least-once delivery with final settlement.       *)
THEOREM DeliveryImplemented == PumpSpec => DeliveryPromise
<1>1. Init => UniqueEvents
  BY DEF Init, UniqueEvents, Ids
<1>2. UniqueEvents /\ TypeOK /\ [PumpNext]_vars => UniqueEvents'
  BY UniqueStep
<1>3. DeliveryInv /\ TypeOK /\ [PumpNext]_vars => DeliveryInv'
  BY DeliveryStep, PumpIsNext
<1>4. TypeOK /\ PumpInv /\ UniqueEvents /\ DeliveryInv /\ [PumpNext]_vars
        => [Promise!DeliveryNext]_<<Status, ingested>>
  BY StepPromise
<1>5. Promise!Delivery <=> /\ Promise!DeliveryInit
                           /\ [][Promise!DeliveryNext]_<<Status, ingested>>
  BY DEF Promise!Delivery, Promise!dvars, Status
<1> QED
  BY <1>1, <1>2, <1>3, <1>4, <1>5, InitPromise, DeliveryInit0,
     PumpInvariant, PTL DEF PumpSpec, DeliveryPromise

============================================================================
