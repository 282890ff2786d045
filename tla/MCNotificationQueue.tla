------------------------- MODULE MCNotificationQueue -------------------------
(***************************************************************************)
(* An instance of NotificationQueue small enough for TLC.                  *)
(***************************************************************************)
EXTENDS NotificationQueue

CONSTANTS r1, r2, w1, w2

=============================================================================
