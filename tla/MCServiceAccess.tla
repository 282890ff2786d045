--------------------------- MODULE MCServiceAccess ---------------------------
(***************************************************************************)
(* Instances of ServiceAccess small enough for TLC.                        *)
(***************************************************************************)
EXTENDS ServiceAccess

CONSTANTS c1, c2, p1, l1

=============================================================================
