---------------------------- MODULE MCAccounting ----------------------------
(***************************************************************************)
(* An instance of Accounting small enough for TLC.                         *)
(***************************************************************************)
EXTENDS Accounting

CONSTANTS s1, s2, w1, w2

=============================================================================
