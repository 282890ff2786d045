---------------------------- MODULE StaffSessions ----------------------------
(***************************************************************************)
(* The refresh tokens of one user: authsvc.Login, Refresh with its          *)
(* detection of reuse, and Logout, statement by statement, with any number  *)
(* of requests under way at once.  Whoever holds a token may present it at  *)
(* any time, as often as they like.                                         *)
(*                                                                          *)
(* An UPDATE waits for a transaction that has written the same row.  One of *)
(* several rows works on the rows that were committed when it began: tokens *)
(* inserted while it waits escape it.                                       *)
(*                                                                          *)
(* A definition whose name ends in _Bug is the one that follows it with a   *)
(* mistake in it; no specification uses it.                                 *)
(***************************************************************************)
EXTENDS Naturals, FiniteSets

CONSTANTS
  Tokens,    \* refresh tokens
  NoToken,   \* no token
  Clients    \* requests under way at once

ASSUME SessionsAssumption == NoToken \notin Tokens

Steps == {"idle", "read", "locked", "reuse", "revoking"}

VARIABLES
  token,     \* refresh_tokens: "none", "live", "expired" (and not revoked) or "revoked"
  parent,    \* the token each was refreshed from
  step,      \* where each request stands
  holds,     \* the token it presents
  family,    \* the tokens a revocation of all of them is about
  shared     \* tokens two refreshes with which have overlapped

sessionVars == <<token, parent, step, holds, family, shared>>

SessionInit ==
  /\ token = [t \in Tokens |-> "none"]
  /\ parent = [t \in Tokens |-> NoToken]
  /\ step = [r \in Clients |-> "idle"]
  /\ holds = [r \in Clients |-> NoToken]
  /\ family = [r \in Clients |-> {}]
  /\ shared = {}

SessionTypeOK ==
  /\ token \in [Tokens -> {"none", "live", "expired", "revoked"}]
  /\ parent \in [Tokens -> Tokens \cup {NoToken}]
  /\ step \in [Clients -> Steps]
  /\ holds \in [Clients -> Tokens \cup {NoToken}]
  /\ family \in [Clients -> SUBSET Tokens]
  /\ shared \subseteq Tokens

Unrevoked == {t \in Tokens : token[t] \in {"live", "expired"}}
Unlocked(t) == \A r \in Clients : step[r] = "locked" => holds[r] # t
Refreshing(t) == {r \in Clients : holds[r] = t /\ step[r] \in {"read", "locked"}}

Return(r) ==
  /\ step' = [step EXCEPT ![r] = "idle"]
  /\ holds' = [holds EXCEPT ![r] = NoToken]

-----------------------------------------------------------------------------
\* issueSession: INSERT INTO refresh_tokens.
IssueSession(t, from) ==
  /\ token[t] = "none"
  /\ parent' = [parent EXCEPT ![t] = from]

\* Login, once the password is verified: one statement that matters.
Login(t) ==
  /\ IssueSession(t, NoToken)
  /\ token' = [token EXCEPT ![t] = "live"]
  /\ UNCHANGED <<step, holds, family, shared>>

Expire(t) ==
  /\ token[t] = "live"
  /\ token' = [token EXCEPT ![t] = "expired"]
  /\ UNCHANGED <<parent, step, holds, family, shared>>

ReadToken_Bug(r, t) ==     \* takes a revoked token as long as it has not expired
  /\ step[r] = "idle"
  /\ token[t] \in {"live", "revoked"}
  /\ step' = [step EXCEPT ![r] = "read"]
  /\ holds' = [holds EXCEPT ![r] = t]
  /\ shared' = IF Refreshing(t) = {} THEN shared ELSE shared \cup {t}
  /\ UNCHANGED <<token, parent, family>>

\* Refresh: GetByHash.  A revoked token has been used before; one that has
\* expired is turned down.
ReadToken(r, t) ==
  /\ step[r] = "idle"
  /\ \/ token[t] = "revoked" /\ step' = [step EXCEPT ![r] = "reuse"]
     \/ token[t] = "live" /\ step' = [step EXCEPT ![r] = "read"]
  /\ holds' = [holds EXCEPT ![r] = t]
  /\ shared' = IF token[t] = "live" /\ Refreshing(t) # {} THEN shared \cup {t} ELSE shared
  /\ UNCHANGED <<token, parent, family>>

\* Refresh: the transaction's Revoke, which does not mind finding the token
\* revoked.
LockToken(r) ==
  /\ step[r] = "read"
  /\ Unlocked(holds[r])
  /\ step' = [step EXCEPT ![r] = "locked"]
  /\ UNCHANGED <<token, parent, holds, family, shared>>

CommitRefresh_Bug(r, t) ==    \* the token that was presented stays valid
  /\ step[r] = "locked"
  /\ IssueSession(t, holds[r])
  /\ token' = [token EXCEPT ![t] = "live"]
  /\ Return(r)
  /\ UNCHANGED <<family, shared>>

\* Refresh: issueSession and the commit.
CommitRefresh(r, t) ==
  /\ step[r] = "locked"
  /\ IssueSession(t, holds[r])
  /\ token' = [token EXCEPT ![t] = "live", ![holds[r]] = "revoked"]
  /\ Return(r)
  /\ UNCHANGED <<family, shared>>

\* A statement fails, before or in the transaction, or the process dies.
AbortRefresh(r) ==
  /\ step[r] # "idle"
  /\ Return(r)
  /\ family' = [family EXCEPT ![r] = {}]
  /\ UNCHANGED <<token, parent, shared>>

\* Reuse: RevokeAllForUser sees the tokens that are committed now,
RevokeAll(r) ==
  /\ step[r] = "reuse"
  /\ step' = [step EXCEPT ![r] = "revoking"]
  /\ family' = [family EXCEPT ![r] = Unrevoked]
  /\ UNCHANGED <<token, parent, holds, shared>>

\* and revokes them when nobody else is writing them.
RevokedAll(r) ==
  /\ step[r] = "revoking"
  /\ \A t \in family[r] : Unlocked(t)
  /\ token' = [t \in Tokens |-> IF t \in family[r] THEN "revoked" ELSE token[t]]
  /\ family' = [family EXCEPT ![r] = {}]
  /\ Return(r)
  /\ UNCHANGED <<parent, shared>>

\* Logout: one UPDATE, which a revoked token does not mind.
Logout(t) ==
  /\ t \in Unrevoked
  /\ Unlocked(t)
  /\ token' = [token EXCEPT ![t] = "revoked"]
  /\ UNCHANGED <<parent, step, holds, family, shared>>

-----------------------------------------------------------------------------
Refresh(r) ==
  \/ \E t \in Tokens : ReadToken(r, t) \/ CommitRefresh(r, t)
  \/ LockToken(r) \/ AbortRefresh(r) \/ RevokeAll(r) \/ RevokedAll(r)

SessionNext ==
  \/ \E r \in Clients : Refresh(r)
  \/ \E t \in Tokens : Login(t) \/ Logout(t) \/ Expire(t)

SessionSpec == SessionInit /\ [][SessionNext]_sessionVars

-----------------------------------------------------------------------------
Heirs(t) == {u \in Tokens : parent[u] = t}

\* A token is good for one session: two come of it only if two refreshes with
\* it overlapped.
OneHeir == \A t \in Tokens \ shared : Cardinality(Heirs(t)) <= 1

\* Revoked, and nobody has read it in time.
Spent(t) == token[t] = "revoked" /\ Refreshing(t) = {}

\* A token that was logged out, replaced or revoked with its family never gives
\* another session, unless a refresh was under way with it at that moment.
SpentForGood == [][\A t \in Tokens : Spent(t) => Spent(t)' /\ Heirs(t)' = Heirs(t)]_sessionVars

\* Whoever goes on with a session has given up the token before: however
\* requests overlap or fail, it has been revoked by the time its heir is valid.
HeirsReplace == \A t \in Tokens : Heirs(t) # {} => token[t] = "revoked"

=============================================================================
