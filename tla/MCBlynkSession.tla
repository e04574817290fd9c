--------------------------- MODULE MCBlynkSession ---------------------------
(***************************************************************************)
(* A small instance of BlynkSession for TLC.                               *)
(***************************************************************************)
EXTENDS BlynkSession
=============================================================================
