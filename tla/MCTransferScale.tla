-------------------------- MODULE MCTransferScale --------------------------
(***************************************************************************)
(* A small instance of TransferScale for TLC.  The default factor and the  *)
(* step of the serial keys let zero be reached with one key.               *)
(***************************************************************************)
EXTENDS TransferScale

=============================================================================
