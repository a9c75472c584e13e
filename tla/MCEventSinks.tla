---------------------------- MODULE MCEventSinks ----------------------------
(* An instance of EventSinks for TLC: a sink that is replaced by another   *)
(* one of its name, and a sink of attempts that may hang.          *)
EXTENDS EventSinks

CONSTANTS old, new, slow

MCSinks == {old, new, slow}
MCNames == {"history", "routing-log"}
MCNameOf == [s \in MCSinks |-> IF s = slow THEN "routing-log" ELSE "history"]
MCMethods == {"onAttemptFinal", "onLogicalRequestFinal"}
MCHandlers ==
  [s \in MCSinks |-> CASE s = old -> {"onLogicalRequestFinal"}
                      [] s = new -> MCMethods
                      [] s = slow -> {"onAttemptFinal"}]
MCHanging == {slow}
=============================================================================
