---------------------------- MODULE StoreRadius ----------------------------
(***************************************************************************)
(* RADIUS users and groups, access servers and sessions, in PostgreSQL and  *)
(* in the double.                                                           *)
(***************************************************************************)
EXTENDS Stores

-----------------------------------------------------------------------------
(* radcheck, radreply, radusergroup and radgroupreply.  A row's attr is the *)
(* password, the group or the attribute; a group may have a user's name.    *)

SomeKey == CHOOSE k \in Keys : TRUE

RowsOf(rows, kind, t, name) == {r \in rows : r.kind = kind /\ r.tenant = t /\ r.name = name}
RadiusRow(kind, t, name, attr) == [kind |-> kind, tenant |-> t, name |-> name, attr |-> attr]

Without(rows, kinds, t, name) == rows \ UNION {RowsOf(rows, k, t, name) : k \in kinds}
Replaced(rows, kind, t, name, attrs) ==
  Answer(Without(rows, {kind}, t, name) \cup {RadiusRow(kind, t, name, a) : a \in attrs}, {})

\* DELETE and INSERT.
SqlSetUserPassword(t, name, pw) == Replaced(sql, "check", t, name, {pw})
MemSetUserPassword(t, name, pw) == Replaced(mem, "check", t, name, {pw})
SetUserPassword(t, name, pw) == Call(Wrap(SqlSetUserPassword(t, name, pw)), MemSetUserPassword(t, name, pw), TRUE)

SqlSetUserGroup(t, name, group) == Replaced(sql, "usergroup", t, name, {group})
MemSetUserGroup(t, name, group) == Replaced(mem, "usergroup", t, name, {group})
SetUserGroup(t, name, group) == Call(Wrap(SqlSetUserGroup(t, name, group)), MemSetUserGroup(t, name, group), TRUE)

SqlClearUser(t, name) == Answer(Without(sql, {"check", "reply", "usergroup"}, t, name), {})
MemClearUser(t, name) == Answer(Without(mem, {"check", "usergroup", "groupreply"}, t, name), {})
\* The double has a group's replies where a user's would be.
RadiusClearUser(t, name) ==
  Call(Wrap(SqlClearUser(t, name)), MemClearUser(t, name), RowsOf(sql, "groupreply", t, name) = {})

SqlSetGroupReply(t, group, attrs) == Replaced(sql, "groupreply", t, group, attrs)
MemSetGroupReply(t, group, attrs) == Replaced(mem, "groupreply", t, group, attrs)
RadiusSetGroupReply(t, group, attrs) ==
  Call(Wrap(SqlSetGroupReply(t, group, attrs)), MemSetGroupReply(t, group, attrs), TRUE)

SqlListRadUserGroups(t, name) == Answer(sql, RowsOf(sql, "usergroup", t, name))
MemUserGroups(t, name) == Answer(mem, RowsOf(mem, "usergroup", t, name))
UserGroups(t, name) == Call(Wrap(SqlListRadUserGroups(t, name)), MemUserGroups(t, name), TRUE)

SqlListRadCheckUser(t, name) == Answer(sql, RowsOf(sql, "check", t, name))
MemUserCheck(t, name) == Answer(mem, RowsOf(mem, "check", t, name))
UserCheck(t, name) == Call(Wrap(SqlListRadCheckUser(t, name)), MemUserCheck(t, name), TRUE)

\* No method writes radreply.
SqlListRadReplyUser(t, name) == Answer(sql, RowsOf(sql, "reply", t, name))
MemUserReply == Answer(mem, {})
UserReply(t, name) == Call(Wrap(SqlListRadReplyUser(t, name)), MemUserReply, TRUE)

SqlListRadGroupReplyForGroup(t, group) == Answer(sql, RowsOf(sql, "groupreply", t, group))
MemGroupReply(t, group) == Answer(mem, RowsOf(mem, "groupreply", t, group))
GroupReply(t, group) == Call(Wrap(SqlListRadGroupReplyForGroup(t, group)), MemGroupReply(t, group), TRUE)

RadiusCalls ==
  /\ table = "radius rows"
  /\ \E t \in Owners, n \in Keys :
       \/ UserGroups(t, n) \/ UserCheck(t, n) \/ UserReply(t, n) \/ GroupReply(t, n) \/ RadiusClearUser(t, n)
       \/ SetUserGroup(t, n, SomeKey)
       \/ \E k \in Keys : SetUserPassword(t, n, k)
       \/ \E attrs \in SUBSET {SomeKey} : RadiusSetGroupReply(t, n, attrs)

-----------------------------------------------------------------------------
(* Access servers, and the log of authentications.                          *)

NasRows == [id : RowIds, tenant : Owners, nasname : Keys, secret : Keys]

SqlCreateNas(x) == InsertUnless(\E n \in Owned(sql, x.tenant) : n.nasname = x.nasname, x)
MemCreateNas(x) ==
  IF \E n \in mem : n.nasname = x.nasname THEN Refusal(mem, "ErrNasExists") ELSE Insert(mem, x)
\* PostgreSQL lets two tenants register one address.
CreateNas(x) ==
  Call(Adapt(SqlCreateNas(x), [unique |-> "ErrNasExists"]), MemCreateNas(x),
       \A n \in sql : n.nasname = x.nasname => n.tenant = x.tenant)

\* LIMIT 1: the tenant is not asked for.
SqlGetNasByIP(ip) ==
  LET found == {n \in sql : n.nasname = ip} IN
  IF found = {} THEN Refusal(sql, NoRows) ELSE Answer(sql, {CHOOSE n \in found : TRUE})
MemNasByIP(ip) == One(mem, {n \in mem : n.nasname = ip}, "ErrNasNotFound")
NasByIP(ip) == Call(Adapt(SqlGetNasByIP(ip), [no_rows |-> "ErrNasNotFound"]), MemNasByIP(ip), TRUE)

SqlListNasByTenant(t) == Answer(sql, Owned(sql, t))
MemListNas(t) == Answer(mem, Owned(mem, t))
ListNas(t) == Call(Wrap(SqlListNasByTenant(t)), MemListNas(t), TRUE)

NasCalls ==
  /\ table = "nas"
  /\ \/ \E x \in NasRows : x.id \in Fresh /\ CreateNas(x)
     \/ \E k \in Keys : NasByIP(k)
     \/ \E t \in Owners : ListNas(t)

PostAuthRows == [id : RowIds, tenant : Owners, username : Keys, reply : {"Access-Accept", "Access-Reject"}]

SqlInsertRadPostAuth(x) == Silent(Insert(sql, x))
MemInsertPostAuth(x) == Silent(Insert(mem, x))
InsertPostAuth(x) == Call(Wrap(SqlInsertRadPostAuth(x)), MemInsertPostAuth(x), TRUE)

PostAuthCalls == table = "radpostauth" /\ \E x \in PostAuthRows : x.id \in Fresh /\ InsertPostAuth(x)

-----------------------------------------------------------------------------
(* Sessions.                                                                *)

SessionRows == [uid : RowIds, start : {"this second", "the next"}, tenant : Owners, user : {"u"},
                ip : Keys \cup {Nothing}, octets : {0}, closed : {FALSE}]

OfSession(rows, uid) == {s \in rows : s.uid = uid}
Counted(s, ip) == [s EXCEPT !.octets = 1, !.ip = IF ip = Nothing THEN @ ELSE ip]

\* ON CONFLICT (acctuniqueid, acctstarttime) DO NOTHING.
SqlInsertAcctStart(x) ==
  IF \E s \in OfSession(sql, x.uid) : s.start = x.start THEN Answer(sql, {}) ELSE Silent(Insert(sql, x))
MemAcctStart(x) == IF OfSession(mem, x.uid) # {} THEN Answer(mem, {}) ELSE Silent(Insert(mem, x))
\* PostgreSQL opens a second row for a start in another second.
AcctStart(x) ==
  Call(Wrap(SqlInsertAcctStart(x)), MemAcctStart(x), \A s \in OfSession(sql, x.uid) : s.start = x.start)

SqlUpdateAcctInterim(uid, ip) ==
  Silent(Change(sql, {s \in OfSession(sql, uid) : ~s.closed}, LAMBDA s : Counted(s, ip)))
MemAcctInterim(uid, ip) ==
  Silent(Change(mem, {s \in OfSession(mem, uid) : ~s.closed}, LAMBDA s : Counted(s, ip)))
AcctInterim(uid, ip) == Call(Wrap(SqlUpdateAcctInterim(uid, ip)), MemAcctInterim(uid, ip), TRUE)

\* The counters a Stop carries are told apart by their value.
SqlUpdateAcctStop(uid, octets) ==
  Silent(Change(sql, {s \in OfSession(sql, uid) : ~s.closed},
                LAMBDA s : [s EXCEPT !.octets = octets, !.closed = TRUE]))
MemAcctStop(uid, octets) ==
  Silent(Change(mem, OfSession(mem, uid), LAMBDA s : [s EXCEPT !.octets = octets, !.closed = TRUE]))
\* The double counts into a session that is closed.
AcctStop(uid, octets) ==
  Call(Wrap(SqlUpdateAcctStop(uid, octets)), MemAcctStop(uid, octets),
       \A s \in OfSession(sql, uid) : s.closed => s.octets = octets)

SqlListActiveSessions(t, user) == Answer(sql, {s \in Owned(sql, t) : s.user = user /\ ~s.closed})
MemActiveSessions(t, user) == Answer(mem, {s \in Owned(mem, t) : s.user = user /\ ~s.closed})
ActiveSessions(t, user) == Call(Wrap(SqlListActiveSessions(t, user)), MemActiveSessions(t, user), TRUE)

SessionCalls ==
  /\ table = "radacct"
  /\ \/ \E x \in SessionRows : AcctStart(x)
     \/ \E uid \in RowIds :
          \/ \E n \in {1, 2} : AcctStop(uid, n)
          \/ \E ip \in Keys \cup {Nothing} : AcctInterim(uid, ip)
     \/ \E t \in Owners : ActiveSessions(t, "u")

=============================================================================
