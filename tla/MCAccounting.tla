---------------------------- MODULE MCAccounting ----------------------------
(***************************************************************************)
(* A small instance of Accounting.  Sessions meet in Accounting-On alone.  *)
(***************************************************************************)
EXTENDS Accounting, TLC

CONSTANT e1
=============================================================================
