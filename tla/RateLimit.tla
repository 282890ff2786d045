----------------------------- MODULE RateLimit -----------------------------
(***************************************************************************)
(* The fixed-window rate limiter of platform/ratelimit: Allow for one key,  *)
(* its INCR and its EXPIRE, with several API requests at once.              *)
(*                                                                          *)
(* A definition whose name ends in _Bug is the one that follows it with a   *)
(* mistake in it; no specification uses it.                                 *)
(***************************************************************************)
EXTENDS Naturals, FiniteSets

CONSTANTS
  Callers,      \* requests under way at once
  CallLimit,    \* requests allowed in a window
  Window,       \* its length
  MaxCount      \* the counter's last value considered

ASSUME LimiterAssumption ==
  /\ CallLimit \in Nat
  /\ Window \in Nat \ {0}
  /\ MaxCount \in Nat

Never == Window + 1     \* the TTL of a key that has none

VARIABLES
  counter,    \* the Redis key; 0 when there is none
  keyTTL,     \* the time it has left
  caller,     \* "idle" or "expire" (has counted to one, about to send EXPIRE)
  broken      \* the EXPIRE of this key has failed, or its sender has died

limitVars == <<counter, keyTTL, caller, broken>>

LimitInit ==
  /\ counter = 0
  /\ keyTTL = Never
  /\ caller = [q \in Callers |-> "idle"]
  /\ broken = FALSE

LimitTypeOK ==
  /\ counter \in 0..MaxCount
  /\ keyTTL \in 1..Never
  /\ caller \in [Callers -> {"idle", "expire"}]
  /\ broken \in BOOLEAN

Incr_Bug(q) ==         \* the window begins with the first request turned away
  /\ caller[q] = "idle"
  /\ counter < MaxCount
  /\ counter' = counter + 1
  /\ caller' = [caller EXCEPT ![q] = IF counter = CallLimit + 1 THEN "expire" ELSE "idle"]
  /\ UNCHANGED <<keyTTL, broken>>

\* INCR creates the key with no expiry; the request that created it gives it one.
\* All others are answered by the count.  A failing INCR lets the request in.
Incr(q) ==
  /\ caller[q] = "idle"
  /\ counter < MaxCount
  /\ counter' = counter + 1
  /\ caller' = [caller EXCEPT ![q] = IF counter = 0 THEN "expire" ELSE "idle"]
  /\ UNCHANGED <<keyTTL, broken>>

ExpireKey(q) ==
  /\ caller[q] = "expire"
  /\ caller' = [caller EXCEPT ![q] = "idle"]
  /\ keyTTL' = Window
  /\ UNCHANGED <<counter, broken>>

\* The error of EXPIRE is ignored; or the request dies before it gets there.
ExpireFails(q) ==
  /\ caller[q] = "expire"
  /\ caller' = [caller EXCEPT ![q] = "idle"]
  /\ broken' = TRUE
  /\ UNCHANGED <<counter, keyTTL>>

\* Time goes by; a key whose time is up is gone.
Elapse ==
  /\ counter > 0
  /\ keyTTL # Never
  /\ IF keyTTL > 1
       THEN keyTTL' = keyTTL - 1 /\ UNCHANGED <<counter, broken>>
       ELSE keyTTL' = Never /\ counter' = 0 /\ broken' = FALSE
  /\ UNCHANGED caller

LimitNext ==
  \/ \E q \in Callers : Incr(q) \/ ExpireKey(q) \/ ExpireFails(q)
  \/ Elapse

\* Redis drops a key in time; a request goes on to its EXPIRE, or is seen to die.
LimitLive ==
  /\ WF_limitVars(Elapse)
  /\ \A q \in Callers : WF_limitVars(ExpireKey(q) \/ ExpireFails(q))

LimitSpec == LimitInit /\ [][LimitNext]_limitVars /\ LimitLive

-----------------------------------------------------------------------------
\* The key has an expiry, or a request is about to give it one, unless EXPIRE
\* has failed.
KeyExpires ==
  counter > 0 /\ keyTTL = Never /\ ~broken => \E q \in Callers : caller[q] = "expire"

\* A client over the limit is let in again when the window is over, unless
\* EXPIRE has failed: then they are locked out until someone deletes the key.
LockoutEnds == counter > CallLimit ~> (counter = 0 \/ broken)

=============================================================================
