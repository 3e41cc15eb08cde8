------------------------- MODULE MCSmiPeriodicTimer -------------------------
(***************************************************************************)
(* Values of SmiPeriodicTimer's constants for TLC. Intervals 1 and 2 stand *)
(* for two of the SWSMI timer's, 3 and 4 for two of the periodic timer's:  *)
(* only their order and which timer serves them matter.                    *)
(***************************************************************************)
EXTENDS SmiPeriodicTimer

MCTimerOf == [i \in Interval |-> IF i <= 2 THEN "SWSMI_TIMER" ELSE "PERIODIC_TIMER"]

Symmetry == Permutations(Rec)
=============================================================================
