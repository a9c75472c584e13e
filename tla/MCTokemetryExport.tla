------------------------- MODULE MCTokemetryExport -------------------------
(* Instances of TokemetryExport for TLC.                                   *)
EXTENDS TokemetryExport

=============================================================================
