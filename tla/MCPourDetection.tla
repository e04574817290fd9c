-------------------------- MODULE MCPourDetection --------------------------
(***************************************************************************)
(* Small instances of PourDetection for TLC: weights around the thresholds *)
(* (30 g for a pour, 10 g for a stable weight, 15 g for zero) and a clock  *)
(* of a few units.                                                         *)
(***************************************************************************)
EXTENDS PourDetection

\* Two pours of more than POUR_DELTA_G, and a drift of less than a third of it.
KegGrams == {10, 40, 46, 80}

\* As above with a load below the tare, for the runs on the clock.
ClockGrams == {-40, 0, 40}

NoRecalibration == {}
\* After a calibration with another factor the same load may read this.
OtherFactor == {20}
=============================================================================
