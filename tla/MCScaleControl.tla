--------------------------- MODULE MCScaleControl ---------------------------
(***************************************************************************)
(* A small instance of ScaleControl for TLC: three loads, of which one is  *)
(* the value that stands for "no data", and two calibration weights.       *)
(***************************************************************************)
EXTENDS ScaleControl

NoPortalFactor == {}
PortalFactor == {[num |-> 3, den |-> 1]}
=============================================================================
