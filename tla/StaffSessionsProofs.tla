------------------------- MODULE StaffSessionsProofs -------------------------
(***************************************************************************)
(* The safety properties of StaffSessions, for any number of tokens and    *)
(* requests.                                                               *)
(***************************************************************************)
EXTENDS StaffSessions, FiniteSetTheorems, TLAPS

\* A request presents a token that has been issued.
HoldsIssued ==
  \A r \in Clients :
    /\ step[r] = "idle" => holds[r] = NoToken
    /\ step[r] # "idle" => holds[r] \in Tokens /\ token[holds[r]] # "none"

\* A token that has not been issued does not come from another.
NewHasNoParent == \A t \in Tokens : token[t] = "none" => parent[t] = NoToken

\* A token that is not shared is with one refresh at a time, has one heir at
\* most, and is with none once it has one.
LoneIsOnce ==
  \A t \in Tokens \ shared :
    /\ \A q, r \in Refreshing(t) : q = r
    /\ \A u, v \in Heirs(t) : u = v
    /\ Heirs(t) # {} => Refreshing(t) = {}

\* The inductive invariant.
SInv ==
  /\ SessionTypeOK
  /\ HoldsIssued
  /\ NewHasNoParent
  /\ HeirsReplace
  /\ LoneIsOnce

\* It holds initially.
LEMMA SessionsInit == SessionInit => SInv
  BY SessionsAssumption DEF SessionInit, SInv, SessionTypeOK, HoldsIssued, NewHasNoParent,
     HeirsReplace, LoneIsOnce, Heirs, Refreshing, Steps

-----------------------------------------------------------------------------
(* One lemma per statement.                                                 *)

\* A login keeps it.
LEMMA LoginKeeps == ASSUME SInv, NEW t \in Tokens, Login(t) PROVE SInv'
<1> USE SessionsAssumption DEF SInv, SessionTypeOK, Login, IssueSession
<1>1. SessionTypeOK'
  OBVIOUS
<1>2. HoldsIssued' /\ NewHasNoParent'
  BY DEF HoldsIssued, NewHasNoParent
<1>3. \A x \in Tokens : Heirs(x)' = Heirs(x) /\ Refreshing(x)' = Refreshing(x)
  BY DEF Heirs, Refreshing, NewHasNoParent
<1>4. HeirsReplace'
  BY <1>3 DEF HeirsReplace
<1>5. LoneIsOnce'
  BY <1>3 DEF LoneIsOnce
<1> QED
  BY <1>1, <1>2, <1>4, <1>5

\* So does whatever ends tokens and issues none.
LEMMA EndKeeps ==
  ASSUME SInv, UNCHANGED <<parent, step, holds, family, shared>>,
         token' \in [Tokens -> {"none", "live", "expired", "revoked"}],
         \A t \in Tokens : token[t] = "none" <=> token'[t] = "none",
         \A t \in Tokens : token[t] = "revoked" => token'[t] = "revoked"
  PROVE  SInv'
<1> USE DEF SInv, SessionTypeOK
<1>1. \A x \in Tokens : Heirs(x)' = Heirs(x) /\ Refreshing(x)' = Refreshing(x)
  BY DEF Heirs, Refreshing
<1>2. HoldsIssued' /\ NewHasNoParent'
  BY DEF HoldsIssued, NewHasNoParent
<1> QED
  BY <1>1, <1>2 DEF HeirsReplace, LoneIsOnce

\* The read of a refresh keeps it: a second one makes the token shared.
LEMMA ReadKeeps == ASSUME SInv, NEW r \in Clients, NEW t \in Tokens, ReadToken(r, t) PROVE SInv'
<1> USE DEF SInv, SessionTypeOK
<1>1. SessionTypeOK' /\ HoldsIssued' /\ NewHasNoParent'
  BY DEF ReadToken, Steps, HoldsIssued, NewHasNoParent
<1>2. /\ \A x \in Tokens : Heirs(x)' = Heirs(x)
      /\ \A x \in Tokens \ {t} : Refreshing(x)' = Refreshing(x)
      /\ token[t] = "revoked" => Refreshing(t)' = Refreshing(t)
      /\ Refreshing(t)' \subseteq Refreshing(t) \cup {r}
      /\ shared \subseteq shared'
  BY SessionsAssumption DEF ReadToken, Heirs, Refreshing, HoldsIssued
<1>3. HeirsReplace'
  BY <1>2 DEF HeirsReplace, ReadToken
<1>4. LoneIsOnce'
  <2> SUFFICES ASSUME NEW x \in Tokens \ shared'
               PROVE  /\ \A p, q \in Refreshing(x)' : p = q
                      /\ \A u, v \in Heirs(x)' : u = v
                      /\ Heirs(x)' # {} => Refreshing(x)' = {}
    BY DEF LoneIsOnce
  <2>1. x \in Tokens \ shared
    BY <1>2
  <2>2. CASE x # t \/ token[t] = "revoked"
    BY <1>2, <2>1, <2>2 DEF LoneIsOnce
  <2>3. CASE x = t /\ token[t] = "live"
    <3>1. Refreshing(t) = {}
      BY <2>3 DEF ReadToken
    <3>2. Heirs(t) = {}
      BY <2>3 DEF HeirsReplace
    <3> QED
      BY <1>2, <2>3, <3>1, <3>2
  <2> QED
    BY <2>2, <2>3 DEF ReadToken
<1> QED
  BY <1>1, <1>3, <1>4

\* So do the steps of a request that write no token.
LEMMA WaitKeeps ==
  ASSUME SInv, NEW r \in Clients,
         LockToken(r) \/ AbortRefresh(r) \/ RevokeAll(r)
  PROVE  SInv'
<1> USE DEF SInv, SessionTypeOK
<1>1. SessionTypeOK' /\ HoldsIssued' /\ NewHasNoParent'
  BY DEF LockToken, AbortRefresh, RevokeAll, Return, Unrevoked, Steps, HoldsIssued, NewHasNoParent
<1>2. /\ \A x \in Tokens : Heirs(x)' = Heirs(x) /\ Refreshing(x)' \subseteq Refreshing(x)
      /\ shared' = shared /\ token' = token
  BY SessionsAssumption DEF LockToken, AbortRefresh, RevokeAll, Return, Heirs, Refreshing
<1> QED
  BY <1>1, <1>2 DEF HeirsReplace, LoneIsOnce

\* The commit of a refresh keeps it: the old token is revoked by the time the new
\* one is there.
LEMMA CommitKeeps ==
  ASSUME SInv, NEW r \in Clients, NEW t \in Tokens, CommitRefresh(r, t) PROVE SInv'
<1> USE DEF SInv, SessionTypeOK
<1> PICK h \in Tokens : h = holds[r]
  BY DEF CommitRefresh, HoldsIssued
<1>1. token[h] # "none" /\ token[t] = "none" /\ t # h /\ parent[t] = NoToken
  BY DEF CommitRefresh, IssueSession, HoldsIssued, NewHasNoParent
<1>2. /\ token' = [token EXCEPT ![t] = "live", ![h] = "revoked"]
      /\ parent' = [parent EXCEPT ![t] = h]
      /\ step' = [step EXCEPT ![r] = "idle"]
      /\ holds' = [holds EXCEPT ![r] = NoToken]
      /\ UNCHANGED <<family, shared>> /\ step[r] = "locked"
  BY DEF CommitRefresh, IssueSession, Return
<1>3. SessionTypeOK' /\ HoldsIssued' /\ NewHasNoParent'
  BY <1>1, <1>2 DEF Steps, HoldsIssued, NewHasNoParent
<1>4. /\ Heirs(h)' = Heirs(h) \cup {t}
      /\ \A x \in Tokens \ {h} : Heirs(x)' = Heirs(x)
  BY <1>1, <1>2, SessionsAssumption DEF Heirs
<1>5. /\ Refreshing(h)' = Refreshing(h) \ {r} /\ r \in Refreshing(h)
      /\ \A x \in Tokens \ {h} : Refreshing(x)' = Refreshing(x)
  BY <1>1, <1>2, SessionsAssumption DEF Refreshing
<1>6. HeirsReplace'
  BY <1>1, <1>2, <1>4 DEF HeirsReplace
<1>7. LoneIsOnce'
  BY <1>2, <1>4, <1>5 DEF LoneIsOnce
<1> QED
  BY <1>3, <1>6, <1>7

\* The revocation of a family keeps it.
LEMMA RevokedKeeps == ASSUME SInv, NEW r \in Clients, RevokedAll(r) PROVE SInv'
<1> USE DEF SInv, SessionTypeOK
<1>1. /\ \A t \in Tokens : token[t] = "revoked" => token'[t] = "revoked"
      /\ \A t \in Tokens : token'[t] = "none" => token[t] = "none"
      /\ \A t \in Tokens : token'[t] # token[t] => token'[t] = "revoked"
      /\ token' \in [Tokens -> {"none", "live", "expired", "revoked"}]
  BY DEF RevokedAll
<1>2. SessionTypeOK' /\ NewHasNoParent'
  BY <1>1 DEF RevokedAll, Return, Steps, NewHasNoParent
<1>3. HoldsIssued'
  BY <1>1 DEF RevokedAll, Return, HoldsIssued
<1>4. \A x \in Tokens : Heirs(x)' = Heirs(x) /\ Refreshing(x)' = Refreshing(x)
  BY SessionsAssumption DEF RevokedAll, Return, Heirs, Refreshing
<1> QED
  BY <1>1, <1>2, <1>3, <1>4 DEF HeirsReplace, LoneIsOnce, RevokedAll

\* Every step keeps the invariant.
LEMMA SessionsNext == SInv /\ [SessionNext]_sessionVars => SInv'
<1> SUFFICES ASSUME SInv, [SessionNext]_sessionVars PROVE SInv'
  OBVIOUS
<1>1. CASE UNCHANGED sessionVars
  BY <1>1, EndKeeps DEF sessionVars, SInv, SessionTypeOK
<1>2. ASSUME NEW r \in Clients, Refresh(r) PROVE SInv'
  BY <1>2, ReadKeeps, CommitKeeps, WaitKeeps, RevokedKeeps DEF Refresh
<1>3. ASSUME NEW t \in Tokens, Expire(t) \/ Logout(t) PROVE SInv'
  <2>1. /\ token' \in [Tokens -> {"none", "live", "expired", "revoked"}]
        /\ \A x \in Tokens : token[x] = "none" <=> token'[x] = "none"
        /\ \A x \in Tokens : token[x] = "revoked" => token'[x] = "revoked"
    BY <1>3 DEF Expire, Logout, Unrevoked, SInv, SessionTypeOK
  <2> QED
    BY <1>3, <2>1, EndKeeps DEF Expire, Logout
<1> QED
  BY <1>1, <1>2, <1>3, LoginKeeps DEF SessionNext

\* The invariant holds throughout.
LEMMA SessionsInvariant == SessionSpec => []SInv
  BY SessionsInit, SessionsNext, PTL DEF SessionSpec

-----------------------------------------------------------------------------
\* StaffSessions stays well-typed.
THEOREM SessionsTypeInvariant == SessionSpec => []SessionTypeOK
<1>1. SInv => SessionTypeOK
  BY DEF SInv
<1> QED
  BY <1>1, SessionsInvariant, PTL

\* A refresh token is revoked by the time another has been issued for it:
\* authsvc.Refresh revokes and inserts in one transaction.
THEOREM HeirsReplaceParents == SessionSpec => []HeirsReplace
<1>1. SInv => HeirsReplace
  BY DEF SInv
<1> QED
  BY <1>1, SessionsInvariant, PTL

\* What the invariant says of heirs, counted.
LEMMA HeirsCounted == SInv => OneHeir
<1> SUFFICES ASSUME SInv, NEW t \in Tokens \ shared PROVE Cardinality(Heirs(t)) <= 1
  BY DEF OneHeir
<1>1. \A u, v \in Heirs(t) : u = v
  BY DEF SInv, LoneIsOnce
<1>2. Heirs(t) = {} \/ \E u : Heirs(t) = {u}
  BY <1>1
<1> QED
  BY <1>2, FS_EmptySet, FS_Singleton

\* A refresh token gives one session, unless two refreshes with it overlap.
THEOREM TokensHaveOneHeir == SessionSpec => []OneHeir
  BY HeirsCounted, SessionsInvariant, PTL

\* A step leaves a spent token spent, and gives it no heir.
LEMMA SpentStays ==
  SInv /\ [SessionNext]_sessionVars => \A t \in Tokens : Spent(t) => Spent(t)' /\ Heirs(t)' = Heirs(t)
<1> SUFFICES ASSUME SInv, [SessionNext]_sessionVars, NEW t \in Tokens, Spent(t)
             PROVE  Spent(t)' /\ Heirs(t)' = Heirs(t)
  OBVIOUS
<1> USE DEF SInv, SessionTypeOK, Spent
<1>1. CASE UNCHANGED sessionVars
  BY <1>1 DEF sessionVars, Heirs, Refreshing
<1>2. ASSUME NEW u \in Tokens, Login(u) \/ Expire(u) \/ Logout(u)
      PROVE  Spent(t)' /\ Heirs(t)' = Heirs(t)
  BY <1>2, SessionsAssumption
     DEF Login, IssueSession, Expire, Logout, Unrevoked, Heirs, Refreshing, NewHasNoParent
<1>3. ASSUME NEW r \in Clients, NEW u \in Tokens, ReadToken(r, u)
      PROVE  Spent(t)' /\ Heirs(t)' = Heirs(t)
  BY <1>3 DEF ReadToken, Heirs, Refreshing
<1>4. ASSUME NEW r \in Clients, LockToken(r) \/ AbortRefresh(r) \/ RevokeAll(r) \/ RevokedAll(r)
      PROVE  Spent(t)' /\ Heirs(t)' = Heirs(t)
  BY <1>4, SessionsAssumption
     DEF LockToken, AbortRefresh, RevokeAll, RevokedAll, Return, Heirs, Refreshing
<1>5. ASSUME NEW r \in Clients, NEW u \in Tokens, CommitRefresh(r, u)
      PROVE  Spent(t)' /\ Heirs(t)' = Heirs(t)
  <2>1. holds[r] # t /\ u # t /\ parent[u] = NoToken
    BY <1>5 DEF CommitRefresh, IssueSession, Refreshing, NewHasNoParent
  <2> QED
    BY <1>5, <2>1, SessionsAssumption DEF CommitRefresh, IssueSession, Return, Heirs, Refreshing
<1> QED
  BY <1>1, <1>2, <1>3, <1>4, <1>5 DEF SessionNext, Refresh

\* A token that was logged out, replaced or revoked, and that no refresh is under
\* way with, never gives a session again: authsvc.Refresh checks revoked_at first.
THEOREM SpentTokensStaySpent == SessionSpec => SpentForGood
<1>1. SInv /\ [SessionNext]_sessionVars
        => [\A t \in Tokens : Spent(t) => Spent(t)' /\ Heirs(t)' = Heirs(t)]_sessionVars
  BY SpentStays
<1> QED
  BY <1>1, SessionsInvariant, PTL DEF SessionSpec, SpentForGood

=============================================================================
