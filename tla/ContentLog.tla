------------------------------ MODULE ContentLog ------------------------------
(***************************************************************************)
(* Where request and response contents go when content logging is on: the  *)
(* in-memory buffer of the gateway (src/gateway/content-buffer.ts), the    *)
(* history log with its retention (src/ops/trackers/history-sink.ts,       *)
(* src/ops/content-log/retention.ts), and what the dashboard reads of it   *)
(* (src/ops/dashboard/data.ts).                                            *)
(*                                                                         *)
(* A content is the request it belongs to: redaction and the size bound    *)
(* change what is stored of it, not whose it is.                           *)
(***************************************************************************)
EXTENDS Integers, Sequences, SequencesExt, Filters

CONSTANTS
  MaxEntries,       \* contentLog.maxEntries, of the buffer and of the log
  Retention         \* contentLog.retentionDays, in ticks of the clock

ASSUME ContentAssumption == MaxEntries \in Nat \ {0} /\ Retention \in Nat \ {0}

NoContent == "no content"

(* Mutant: a full buffer keeps what it has.                                *)
RecordedAs(buffer, id) ==
  IF Contains(buffer, id) \/ Len(buffer) >= MaxEntries THEN buffer ELSE Append(buffer, id)

(* record: the buffer keeps the order of insertion and, when it is full,   *)
(* gives up its oldest entry for a new id.                                 *)
Recorded(buffer, id) ==
  IF Contains(buffer, id) THEN buffer
  ELSE Append(IF Len(buffer) >= MaxEntries THEN Tail(buffer) ELSE buffer, id)

(* take: read and remove.                                                  *)
Taken(buffer, id) == Keep(buffer, ToSet(buffer) \ {id})
ContentOf(buffer, id) == IF Contains(buffer, id) THEN id ELSE NoContent

(* A line of history.jsonl; at is timestampCompleted.                      *)
Entry(id, at, success, content) ==
  [id |-> id, at |-> at, success |-> success, content |-> content]

Within(history, now) ==
  Keep(history, {e \in ToSet(history) : e.at >= now - Retention})

(* Mutant: the cap keeps the first entries.                                *)
PrunedAs(history, now) ==
  LET within == Within(history, now)
  IN  IF Len(within) > MaxEntries THEN SubSeq(within, 1, MaxEntries) ELSE within

(* pruneHistory: the entries within the window, the last ones of them by   *)
(* their place in the file.                                                *)
Pruned(history, now) ==
  LET within == Within(history, now)
  IN  IF Len(within) > MaxEntries
      THEN SubSeq(within, Len(within) - MaxEntries + 1, Len(within)) ELSE within

(* readHistory: the newest entries first.                                  *)
ReadHistory(history, limit) ==
  LET newest == Reverse(history)
  IN  IF Len(newest) > limit THEN SubSeq(newest, 1, limit) ELSE newest

(* Content is shown only while content logging is on, whenever written.    *)
GateContent(entry, logging) ==
  IF logging THEN entry ELSE [entry EXCEPT !.content = NoContent]

ListRuns(history, logging, limit) ==
  LET read == ReadHistory(history, limit)
  IN  [i \in DOMAIN read |-> GateContent(read[i], logging)]

GetRun(history, id, logging, limit) ==
  LET read == ReadHistory(history, limit)
      i    == SelectInSeq(read, LAMBDA e : e.id = id)
  IN  IF i = 0 THEN <<>> ELSE <<GateContent(read[i], logging)>>
===============================================================================
