--------------------------- MODULE MCBudgetLedger ---------------------------
(* An instance of BudgetLedger for TLC: two days, one hour of the first    *)
(* and two of the second; two requests that are checked at a time, and one  *)
(* that is not.                                                            *)
EXTENDS BudgetLedger, TLC

CONSTANTS s1, s2, chat

MCSlots == {s1, s2, chat}
MCUnchecked == {chat}
MCDayOf == [h \in 0 .. MaxHour |-> IF h = 0 THEN 0 ELSE 1]
SlotSymmetry == Permutations({s1, s2})
=============================================================================
