----------------------------- MODULE MCObservers -----------------------------
(***************************************************************************)
(* Three requests of one session with the observers for TLC: two alike     *)
(* ones, and a stream.  A process has content logging or                   *)
(* alerting on; the two meet in no sink.                                   *)
(***************************************************************************)
EXTENDS Observers

MCAttr ==
  [a |-> [stream |-> FALSE, session |-> "s", agent |-> "none", model |-> "m", tokens |-> 1, cost |-> 1, hops |-> 1],
   b |-> [stream |-> FALSE, session |-> "s", agent |-> "x", model |-> "m", tokens |-> 1, cost |-> 2, hops |-> 0],
   c |-> [stream |-> TRUE, session |-> "s", agent |-> "x", model |-> "m", tokens |-> 1, cost |-> 3, hops |-> 0]]

(* One event may be lost to some sinks; or the process may be killed, or   *)
(* the disk be full, when agents.json has been emptied and not yet filled. *)
MCFaults ==
  [a |-> {{}}, c |-> {{}},
   b |-> {{}, {"history", "sessions", "alerts"},
          {"torn", "sessions", "traces", "routing", "alerts", "mesh"}}]

MCScenarios == {[logging |-> TRUE, alerting |-> FALSE, mesh |-> FALSE],
                [logging |-> FALSE, alerting |-> TRUE, mesh |-> TRUE]}
===============================================================================
