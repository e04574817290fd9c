----------------------------- MODULE MCBlynkWire -----------------------------
(***************************************************************************)
(* A small instance of BlynkWire for TLC.  Of the lengths, 1 fits the      *)
(* body buffer, 2 is discarded, 3 exceeds the receive window, 5 wraps.     *)
(***************************************************************************)
EXTENDS BlynkWire
=============================================================================
