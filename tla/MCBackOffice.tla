---------------------------- MODULE MCBackOffice ----------------------------
(***************************************************************************)
(* Small instances of the parts of BackOffice.                              *)
(***************************************************************************)
EXTENDS BackOffice

\* A rate whose threshold has no burst before it, one with a burst, an override,
\* and no limit at all.
MCPlanInputs ==
  { [override |-> FALSE, filled |-> {"limit", "threshold"}, pool |-> TRUE],
    [override |-> FALSE, filled |-> {"limit", "burst"}, pool |-> FALSE],
    [override |-> TRUE, filled |-> {}, pool |-> FALSE],
    [override |-> FALSE, filled |-> {}, pool |-> FALSE] }

=============================================================================
