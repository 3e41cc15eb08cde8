------------------------- MODULE MCItbmPeriodicSmm -------------------------
(***************************************************************************)
(* ItbmPeriodicSmm for TLC: three processors, two performance values.      *)
(***************************************************************************)
EXTENDS ItbmPeriodicSmm

MCPerf == {40, 41}

\* Pool memory that happens to match no processor.
MCPool == {255}
=============================================================================
