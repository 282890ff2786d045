-------------------------- MODULE TestDoubleProofs --------------------------
(***************************************************************************)
(* The repositories of internal/repo and their double memrepo agree on      *)
(* every call, but for the ones on which they are said to differ; and on    *)
(* those they do differ.  Between calls the double holds the rows           *)
(* PostgreSQL shows (DoubleInv); there is one lemma to a table, and in it   *)
(* one step to a method.                                                    *)
(***************************************************************************)
EXTENDS TestDouble, TLAPS

-----------------------------------------------------------------------------
(* What the rows of a table have become after any number of calls.          *)

\* A row has an id of its own.
UniqueIds(rows) == \A r, s \in rows : r.id = s.id => r = s

StoredUsers ==
  [id : RowIds, tenant : Owners, email : Keys, password : Keys, active : BOOLEAN,
   loggedIn : BOOLEAN, deleted : BOOLEAN]

StoredTokens == [id : RowIds, user : Owners, hash : Keys, expired : BOOLEAN, revoked : BOOLEAN]

StoredPlans == [id : RowIds, tenant : Owners, name : Keys, pool : Keys, deleted : BOOLEAN]

StoredCustomers ==
  [id : RowIds, tenant : Owners, no : Keys, status : {"active", "isolated"}, deleted : BOOLEAN,
   user : Keys \cup {Nothing}, place : BOOLEAN, until : {Nothing, "past"}, portal : BOOLEAN]

StoredRadius ==
  [kind : {"check", "usergroup", "groupreply"}, tenant : Owners, name : Keys, attr : Keys]

\* What asks for no row of an address or a session in one tenant finds one at most.
StoredNas(rows) ==
  /\ rows \subseteq NasRows
  /\ \A m, n \in rows : m.nasname = n.nasname => m = n

KeptSessions ==
  [uid : RowIds, start : {"this second", "the next"}, tenant : Owners, user : {"u"},
   ip : Keys \cup {Nothing}, octets : {0, 1, 2}, closed : BOOLEAN]

\* A session has one row.
StoredSessions(rows) ==
  /\ rows \subseteq KeptSessions
  /\ \A r, s \in rows : r.uid = s.uid => r = s

StoredInvoices ==
  [id : RowIds, tenant : Owners, no : Keys, customer : Keys, period : {"March", "April"},
   due : {"before today", "today"}, status : {"unpaid", "overdue", "paid"}]

StoredPayments ==
  [id : RowIds, tenant : Owners, key : Keys, ref : Keys \cup {Nothing},
   status : {"pending", "settled", "failed"}, method : {"gateway", "cash"}, old : BOOLEAN]

StoredNotices == [id : RowIds, dedup : Keys, status : {"queued", "sent", "failed"}, attempts : Nat]

\* A tenant has one gateway.
StoredGateways(rows) ==
  /\ rows \subseteq GatewayRows
  /\ \A g, h \in rows : g.tenant = h.tenant => g = h

StoredVouchers ==
  [id : RowIds, tenant : Owners, batch : RowIds, code : Keys, status : {"unused", "used"}]

StoredTickets ==
  [id : RowIds, tenant : Owners, customer : Keys \cup {Nothing},
   status : {"open", "resolved", "closed"}, resolved : BOOLEAN]

StoredCredits ==
  [id : RowIds, tenant : Owners, user : Keys, status : {Nothing, "pending", "settled"}]

StoredBalances == [id : RowIds, balance : Nat]

Sound(t, rows) ==
  /\ t = "tenants" => rows \subseteq TenantRows /\ UniqueIds(rows)
  /\ t = "users" => rows \subseteq StoredUsers /\ UniqueIds(rows)
  /\ t = "users, balance" => rows \subseteq StoredBalances
  /\ t = "roles" => rows \subseteq RoleRows
  /\ t = "refresh_tokens" => rows \subseteq StoredTokens
  /\ t = "audit_logs" => rows \subseteq AuditRows
  /\ t = "plans" => rows \subseteq StoredPlans
  /\ t = "bandwidth_profiles" => rows \subseteq BandwidthRows
  /\ t \in {"customers", "customers, other columns"} =>
       rows \subseteq StoredCustomers /\ UniqueIds(rows)
  /\ t = "radius rows" => rows \subseteq StoredRadius
  /\ t = "nas" => StoredNas(rows)
  /\ t = "radpostauth" => rows \subseteq PostAuthRows
  /\ t = "radacct" => StoredSessions(rows)
  /\ t = "invoices" => rows \subseteq StoredInvoices
  /\ t = "invoice_items" => rows \subseteq ItemRows
  /\ t = "payments" => rows \subseteq StoredPayments
  /\ t = "ledger_entries" => rows \subseteq LedgerRows
  /\ t = "payment_gateways" => rows \subseteq ConfigRows
  /\ t = "notification_logs" => rows \subseteq StoredNotices
  /\ t = "wa_gateways" => StoredGateways(rows)
  /\ t = "message_templates" => rows \subseteq TemplateRows
  /\ t = "voucher_batches" => rows \subseteq BatchRows
  /\ t = "vouchers" => rows \subseteq StoredVouchers
  /\ t = "tickets" => rows \subseteq StoredTickets
  /\ t = "ticket_events" => rows \subseteq EventRows
  /\ t \in {"deposits", "commissions"} => rows \subseteq StoredCredits
  /\ t = "acs_devices" => rows \subseteq DeviceRows

\* Until a call on which the two differ, the double holds what the database shows.
DoubleInv ==
  /\ alike <=> ~parted
  /\ ~parted => mem = View(sql) /\ Sound(table, sql)

-----------------------------------------------------------------------------
\* A table without deleted_at is seen as it is.
LEMMA PlainView ==
  ASSUME NEW rows, \A r \in rows : "deleted" \notin DOMAIN r
  PROVE  View(rows) = rows
  BY DEF View

\* One with deleted_at without the rows that are deleted.
LEMMA PresentView ==
  ASSUME NEW rows, \A r \in rows : "deleted" \in DOMAIN r
  PROVE  View(rows) = Present(rows)
  BY DEF View, Present

\* Two answers that are the same, as are the rows they leave in sight.
LEMMA AnswersAgree ==
  ASSUME NEW r, NEW v, NEW q, NEW names, Call(Adapt(Answer(r, v), names), Answer(q, v), TRUE),
         q = View(r), Sound(table, r)
  PROVE  DoubleInv'
<1>1. Adapt(Answer(r, v), names) = Answer(r, v)
  BY DEF Adapt, Answer
<1>2. Answer(r, v).rows = r /\ Answer(q, v).rows = q
  BY DEF Answer
<1>3. Answer(r, v).error = Answer(q, v).error /\ Answer(r, v).value = Answer(q, v).value
  BY DEF Answer
<1> QED
  BY <1>1, <1>2, <1>3 DEF Call, DoubleInv

\* Two answers that differ where they are known to.
LEMMA AnswersDiffer ==
  ASSUME NEW r, NEW v, NEW q, NEW u, NEW names,
         Call(Adapt(Answer(r, v), names), Answer(q, u), FALSE),
         v # u \/ q # View(r)
  PROVE  DoubleInv'
<1>1. Adapt(Answer(r, v), names) = Answer(r, v)
  BY DEF Adapt, Answer
<1>2. /\ Answer(r, v).rows = r
      /\ Answer(r, v).value = v
      /\ Answer(q, u).rows = q
      /\ Answer(q, u).value = u
  BY DEF Answer
<1> QED
  BY <1>1, <1>2 DEF Call, DoubleInv

\* An error where the double has none.
LEMMA OnlyOneRefuses ==
  ASSUME NEW r, NEW e, NEW q, NEW u, NEW names,
         Call(Adapt(Refusal(r, e), names), Answer(q, u), FALSE),
         e # "", e \in DOMAIN names => names[e] # ""
  PROVE  DoubleInv'
<1>1. Adapt(Refusal(r, e), names).error # "" /\ Answer(q, u).error = ""
  BY DEF Adapt, Refusal, Answer
<1>2. Adapt(Refusal(r, e), names).error # Answer(q, u).error
  BY <1>1
<1> QED
  BY <1>2 DEF Call, DoubleInv

\* A row that is added is in sight.
LEMMA PresentAdded ==
  ASSUME NEW rows, NEW x, ~x.deleted
  PROVE  Present(rows \cup {x}) = Present(rows) \cup {x}
  BY DEF Present

\* Rows whose deleted_at is set are out of sight, as the rows the double deletes.
LEMMA PresentGone ==
  ASSUME NEW rows, NEW found, NEW new, \A y \in new : y.deleted
  PROVE  Present((rows \ found) \cup new) = Present(rows) \ found
  BY DEF Present

-----------------------------------------------------------------------------
(* The staff's tables.                                                      *)

\* Calls on tenants: an id has one row, so that what either writes is what the other reads.
LEMMA TenantsKept ==
  ASSUME DoubleInv, TenantCalls, ~parted
  PROVE  DoubleInv'
<1>1. table = "tenants" /\ sql \subseteq TenantRows /\ UniqueIds(sql) /\ mem = sql
  BY PlainView DEF TenantCalls, DoubleInv, Sound, TenantRows
<1>2. \A rows : rows \subseteq TenantRows /\ UniqueIds(rows)
                 => View(rows) = rows /\ Sound(table, rows)
  BY <1>1, PlainView DEF Sound, TenantRows
<1> USE DEF Answer, Refusal, Adapt, Wrap, Returning, Silent, One, Insert, InsertUnless, ChangeOne,
     Change, Delete, NoRows, Unique, Reference
<1>3. ASSUME NEW x \in TenantRows, x.id \in Fresh, TenantCreate(x) PROVE DoubleInv'
  <2>1. sql \cup {x} \subseteq TenantRows /\ UniqueIds(sql \cup {x})
    BY <1>1, <1>3 DEF UniqueIds, Fresh, ById
  <2> QED
    BY <1>1, <1>2, <1>3, <2>1 DEF TenantCreate, SqlCreateTenant, MemTenantCreate, Call, DoubleInv
<1>4. ASSUME NEW id \in RowIds, TenantGetByID(id) PROVE DoubleInv'
  BY <1>1, <1>2, <1>4 DEF TenantGetByID, SqlGetTenantByID, MemTenantGetByID, Call, DoubleInv
<1>5. ASSUME NEW k \in Keys, TenantGetBySlug(k) PROVE DoubleInv'
  BY <1>1, <1>2, <1>5 DEF TenantGetBySlug, SqlGetTenantBySlug, MemTenantGetBySlug, Call, DoubleInv
<1>6. ASSUME NEW k \in Keys \cup {Nothing}, TenantGetByDomain(k) PROVE DoubleInv'
  BY <1>1, <1>2, <1>6 DEF TenantGetByDomain, SqlGetTenantByDomain, MemTenantGetByDomain, Call,
       DoubleInv
<1>7. ASSUME NEW x \in TenantRows, TenantUpdate(x) PROVE DoubleInv'
  <2> DEFINE found == ById(sql, x.id)
             clash == \E t \in sql \ found : x.domain # Nothing /\ t.domain = x.domain
  <2>1. CASE found = {}
    BY <1>1, <1>2, <1>7, <2>1 DEF TenantUpdate, SqlUpdateTenant, MemTenantUpdate, Call, DoubleInv
  <2>2. CASE found # {} /\ clash
    <3>1. PICK t \in sql : found = {t}
      BY <1>1, <2>2 DEF UniqueIds, ById
    <3>2. SqlUpdateTenant(x) = Refusal(sql, "unique")
      BY <2>2 DEF SqlUpdateTenant
    <3>3. MemTenantUpdate(x) = Answer((sql \ found) \cup {x}, {x})
      BY <1>1, <3>1 DEF MemTenantUpdate
    <3> DEFINE inMem == (sql \ found) \cup {x}
    <3>4. Call(Adapt(Refusal(sql, "unique"), [no_rows |-> "ErrNotFound"]),
               Answer(inMem, {x}), FALSE)
      BY <1>7, <2>2, <3>1, <3>2, <3>3 DEF TenantUpdate, Call
    <3>5. "unique" \notin DOMAIN [no_rows |-> "ErrNotFound"]
      OBVIOUS
    <3> HIDE DEF inMem, Answer, Refusal, Adapt
    <3> QED
      BY <3>4, <3>5, OnlyOneRefuses
  <2>3. CASE found # {} /\ ~clash
    <3>1. PICK t \in sql : found = {t}
      BY <1>1, <2>3 DEF UniqueIds, ById
    <3> DEFINE y == [x EXCEPT !.slug = t.slug]
               kept == sql \ found
    <3>2. SqlUpdateTenant(x) = Answer(kept \cup {y}, {y})
      BY <2>3, <3>1 DEF SqlUpdateTenant
    <3>3. MemTenantUpdate(x) = Answer(kept \cup {x}, {x})
      BY <1>1, <3>1 DEF MemTenantUpdate
    <3>4. (y = x <=> t.slug = x.slug) /\ y \in TenantRows /\ y.id = x.id /\ t.id = x.id
      BY <1>1, <3>1 DEF TenantRows, ById
    <3>5. kept \cup {y} \subseteq TenantRows /\ UniqueIds(kept \cup {y})
      BY <1>1, <3>1, <3>4 DEF UniqueIds, ById
    <3>6. CASE t.slug = x.slug
      <4>1. Call(Adapt(Answer(kept \cup {x}, {x}), [no_rows |-> "ErrNotFound"]),
                 Answer(kept \cup {x}, {x}), TRUE)
        BY <1>7, <2>3, <3>1, <3>2, <3>3, <3>4, <3>6 DEF TenantUpdate, Call
      <4> HIDE DEF kept, y, Answer, Adapt
      <4> QED
        BY <1>2, <3>4, <3>5, <3>6, <4>1, AnswersAgree
    <3>7. CASE t.slug # x.slug
      <4>1. Call(Adapt(Answer(kept \cup {y}, {y}), [no_rows |-> "ErrNotFound"]),
                 Answer(kept \cup {x}, {x}), FALSE)
        BY <1>7, <2>3, <3>1, <3>2, <3>3, <3>7 DEF TenantUpdate, Call
      <4>2. {y} # {x}
        BY <3>4, <3>7
      <4> HIDE DEF kept, y, Answer, Adapt
      <4> QED
        BY <4>1, <4>2, AnswersDiffer
    <3> QED
      BY <3>6, <3>7
  <2> QED
    BY <2>1, <2>2, <2>3
<1> QED
  BY <1>3, <1>4, <1>5, <1>6, <1>7 DEF TenantCalls

\* Calls on users: the double updates and deletes across tenants, which shows when the
\* row is another tenant's; elsewhere the rows in sight are the same.
LEMMA UsersKept ==
  ASSUME DoubleInv, UserCalls, ~parted
  PROVE  DoubleInv'
<1>1. table = "users" /\ sql \subseteq StoredUsers /\ UniqueIds(sql) /\ mem = Present(sql)
  BY PresentView DEF UserCalls, DoubleInv, Sound, StoredUsers
<1>2. \A rows : rows \subseteq StoredUsers /\ UniqueIds(rows)
                 => View(rows) = Present(rows) /\ Sound(table, rows)
  BY <1>1, PresentView DEF Sound, StoredUsers
<1> USE DEF Answer, Refusal, Adapt, Wrap, Returning, Silent, One, Insert, InsertUnless, ChangeOne,
     Change, Delete, NoRows, Unique, Reference
<1>3. ASSUME NEW x \in NewUsers, x.id \in Fresh, UserCreate(x) PROVE DoubleInv'
  <2>1. x \in StoredUsers /\ ~x.deleted /\ [x EXCEPT !.active = TRUE] = x
    BY DEF NewUsers, UserRows, StoredUsers
  <2>2. sql \cup {x} \subseteq StoredUsers /\ UniqueIds(sql \cup {x})
    BY <1>1, <1>3, <2>1 DEF UniqueIds, Fresh, ById
  <2>3. Present(sql \cup {x}) = Present(sql) \cup {x}
    BY <2>1, PresentAdded
  <2> QED
    BY <1>1, <1>2, <1>3, <2>1, <2>2, <2>3 DEF UserCreate, SqlCreateUser, MemUserCreate, Call,
         DoubleInv
<1>4. ASSUME NEW id \in RowIds, UserGetByID(id) PROVE DoubleInv'
  BY <1>1, <1>2, <1>4 DEF UserGetByID, SqlGetUserByID, MemUserGetByID, Call, DoubleInv
<1>5. ASSUME NEW t \in Owners, NEW k \in Keys, UserGetByEmail(t, k) PROVE DoubleInv'
  <2>1. {u \in Owned(Present(sql), t) : u.email = k}
          = {u \in Present(sql) : u.tenant = t /\ u.email = k}
    BY DEF Owned
  <2> QED
    BY <1>1, <1>2, <1>5, <2>1 DEF UserGetByEmail, SqlGetUserByEmail, MemUserGetByEmail, Call,
         DoubleInv
<1>6. ASSUME NEW t \in Owners, UserList(t) PROVE DoubleInv'
  BY <1>1, <1>2, <1>6 DEF UserList, SqlListUsersByTenant, MemUserList, Call, DoubleInv
<1>7. ASSUME NEW t \in Owners, UserCount(t) PROVE DoubleInv'
  BY <1>1, <1>2, <1>7 DEF UserCount, SqlCountUsersByTenant, MemUserCount, Call, DoubleInv
<1>8. ASSUME NEW x \in UserRows, UserUpdate(x) PROVE DoubleInv'
  <2> DEFINE found == ById(Present(sql), x.id)
             By(u) == [u EXCEPT !.active = x.active]
  <2>1. CASE found = {}
    <3>1. ById(Owned(Present(sql), x.tenant), x.id) = {}
      BY <2>1 DEF ById, Owned
    <3> QED
      BY <1>1, <1>2, <1>8, <2>1, <3>1 DEF UserUpdate, SqlUpdateUser, MemUserUpdate, Call, DoubleInv
  <2>2. CASE found # {}
    <3>1. PICK u \in sql : found = {u} /\ ~u.deleted /\ u.id = x.id
      BY <1>1, <2>2 DEF UniqueIds, ById, Present
    <3>2. MemUserUpdate(x) = Answer((Present(sql) \ found) \cup {x}, {x})
      BY <1>1, <3>1 DEF MemUserUpdate
    <3>3. By(u) \in StoredUsers /\ By(u).id = u.id /\ By(u).tenant = u.tenant /\ ~By(u).deleted
      BY <1>1, <3>1 DEF StoredUsers, UserRows
    <3>4. CASE x = By(u)
      <4>1. ById(Owned(Present(sql), x.tenant), x.id) = found
        BY <3>1, <3>3, <3>4 DEF ById, Owned
      <4>2. SqlUpdateUser(x) = Answer((sql \ found) \cup {x}, {x})
        BY <3>1, <3>4, <4>1 DEF SqlUpdateUser
      <4>3. (sql \ found) \cup {x} \subseteq StoredUsers /\ UniqueIds((sql \ found) \cup {x})
        BY <1>1, <3>1, <3>3, <3>4 DEF UniqueIds
      <4>4. Present((sql \ found) \cup {x}) = (Present(sql) \ found) \cup {x}
        BY <3>3, <3>4 DEF Present
      <4> DEFINE inSql == (sql \ found) \cup {x}
                 inMem == (Present(sql) \ found) \cup {x}
      <4>5. Call(Adapt(Answer(inSql, {x}), [no_rows |-> "ErrUserNotFound"]),
                 Answer(inMem, {x}), TRUE)
        BY <1>8, <3>1, <3>2, <3>4, <4>2 DEF UserUpdate, Call
      <4>6. inMem = View(inSql) /\ Sound(table, inSql)
        BY <1>2, <4>3, <4>4
      <4> HIDE DEF inSql, inMem, Answer, Adapt
      <4> QED
        BY <4>5, <4>6, AnswersAgree
    <3>5. CASE x # By(u) /\ u.tenant = x.tenant
      <4>1. ById(Owned(Present(sql), x.tenant), x.id) = found
        BY <3>1, <3>5 DEF ById, Owned
      <4>2. SqlUpdateUser(x) = Answer((sql \ found) \cup {By(u)}, {By(u)})
        BY <3>1, <4>1 DEF SqlUpdateUser
      <4> DEFINE y == By(u)
                 inSql == (sql \ found) \cup {y}
                 inMem == (Present(sql) \ found) \cup {x}
      <4>3. Call(Adapt(Answer(inSql, {y}), [no_rows |-> "ErrUserNotFound"]),
                 Answer(inMem, {x}), FALSE)
        BY <1>8, <3>1, <3>2, <3>5, <4>2 DEF UserUpdate, Call
      <4>4. {y} # {x}
        BY <3>5
      <4> HIDE DEF y, inSql, inMem, Answer, Adapt
      <4> QED
        BY <4>3, <4>4, AnswersDiffer
    <3>6. CASE x # By(u) /\ u.tenant # x.tenant
      <4>1. ById(Owned(Present(sql), x.tenant), x.id) = {}
        BY <3>1, <3>6 DEF ById, Owned
      <4>2. SqlUpdateUser(x) = Refusal(sql, "no_rows")
        BY <4>1 DEF SqlUpdateUser
      <4> DEFINE inMem == (Present(sql) \ found) \cup {x}
                 names == [no_rows |-> "ErrUserNotFound"]
      <4>3. Call(Adapt(Refusal(sql, "no_rows"), names), Answer(inMem, {x}), FALSE)
        BY <1>8, <3>1, <3>2, <3>6, <4>2 DEF UserUpdate, Call
      <4>4. names["no_rows"] # ""
        OBVIOUS
      <4> HIDE DEF inMem, names, Answer, Refusal, Adapt
      <4> QED
        BY <4>3, <4>4, OnlyOneRefuses
    <3> QED
      BY <3>4, <3>5, <3>6
  <2> QED
    BY <2>1, <2>2
<1>9. ASSUME NEW id \in RowIds, NEW k \in Keys, UserUpdatePassword(id, k) PROVE DoubleInv'
  <2> DEFINE By(u) == [u EXCEPT !.password = k]
             found == ById(Present(sql), id)
             shown == ById(Present(sql), id)
             new   == {By(u) : u \in found}
             inSql == (sql \ found) \cup new
             inMem == (Present(sql) \ shown) \cup {By(u) : u \in shown}
  <2>1. inSql \subseteq StoredUsers /\ UniqueIds(inSql)
    BY <1>1 DEF StoredUsers, UniqueIds, ById, Present
  <2>2. View(inSql) = Present(inSql) /\ Sound(table, inSql)
    BY <1>2, <2>1
  <2>3. Present(inSql) = inMem
    BY <1>1 DEF Present, ById, StoredUsers
  <2>4. SqlUpdateUserPassword(id, k) = Answer(inSql, {})
    BY DEF SqlUpdateUserPassword
  <2>5. CASE shown = {}
    BY <1>1, <1>9, <2>4, <2>5 DEF UserUpdatePassword, MemUserUpdatePassword, Call, DoubleInv
  <2>6. CASE shown # {}
    <3>1. MemUserUpdatePassword(id, k) = Answer(inMem, {})
      BY <1>1, <2>6 DEF MemUserUpdatePassword
    <3>2. Call(Wrap(Answer(inSql, {})), Answer(inMem, {}), TRUE)
      BY <1>9, <2>4, <2>6, <3>1 DEF UserUpdatePassword, Call
    <3> HIDE DEF inSql, inMem, Answer, Adapt
    <3> QED
      BY <2>2, <2>3, <3>2, AnswersAgree DEF Wrap
  <2> QED
    BY <2>5, <2>6
<1>10. ASSUME NEW id \in RowIds, UserUpdateLastLogin(id) PROVE DoubleInv'
  <2> DEFINE By(u) == [u EXCEPT !.loggedIn = TRUE]
             found == ById(sql, id)
             shown == ById(Present(sql), id)
             new   == {By(u) : u \in found}
             inSql == (sql \ found) \cup new
             inMem == (Present(sql) \ shown) \cup {By(u) : u \in shown}
  <2>1. inSql \subseteq StoredUsers /\ UniqueIds(inSql)
    BY <1>1 DEF StoredUsers, UniqueIds, ById, Present
  <2>2. View(inSql) = Present(inSql) /\ Sound(table, inSql)
    BY <1>2, <2>1
  <2>3. Present(inSql) = inMem
    BY <1>1 DEF Present, ById, StoredUsers
  <2>4. SqlUpdateUserLastLogin(id) = Answer(inSql, {})
    BY DEF SqlUpdateUserLastLogin
  <2>5. CASE shown = {}
    BY <1>1, <1>10, <2>4, <2>5 DEF UserUpdateLastLogin, MemUserUpdateLastLogin, Call, DoubleInv
  <2>6. CASE shown # {}
    <3>1. MemUserUpdateLastLogin(id) = Answer(inMem, {})
      BY <1>1, <2>6 DEF MemUserUpdateLastLogin
    <3>2. Call(Wrap(Answer(inSql, {})), Answer(inMem, {}), TRUE)
      BY <1>10, <2>4, <2>6, <3>1 DEF UserUpdateLastLogin, Call
    <3> HIDE DEF inSql, inMem, Answer, Adapt
    <3> QED
      BY <2>2, <2>3, <3>2, AnswersAgree DEF Wrap
  <2> QED
    BY <2>5, <2>6
<1>11. ASSUME NEW t \in Owners, NEW id \in RowIds, UserSoftDelete(t, id) PROVE DoubleInv'
  <2> DEFINE found == ById(Owned(Present(sql), t), id)
             shown == ById(Present(sql), id)
             new   == {[u EXCEPT !.deleted = TRUE] : u \in found}
             inSql == (sql \ found) \cup new
             inMem == Present(sql) \ shown
  <2>1. inSql \subseteq StoredUsers /\ UniqueIds(inSql) /\ \A y \in new : y.deleted
    BY <1>1 DEF StoredUsers, UniqueIds, ById, Owned, Present
  <2>6. Present(inSql) = Present(sql) \ found
    BY <2>1, PresentGone
  <2>2. View(inSql) = Present(sql) \ found /\ Sound(table, inSql)
    BY <1>2, <2>1, <2>6
  <2>3. SqlSoftDeleteUser(t, id) = Answer(inSql, {}) /\ MemUserSoftDelete(id) = Answer(inMem, {})
    BY <1>1 DEF SqlSoftDeleteUser, MemUserSoftDelete
  <2>4. CASE \A u \in shown : u.tenant = t
    <3>1. found = shown
      BY <2>4 DEF ById, Owned
    <3>2. Call(Wrap(Answer(inSql, {})), Answer(inMem, {}), TRUE)
      BY <1>11, <2>3, <2>4 DEF UserSoftDelete, Call
    <3>3. inMem = View(inSql)
      BY <2>2, <3>1
    <3> HIDE DEF inSql, inMem, Answer, Adapt
    <3> QED
      BY <2>2, <3>2, <3>3, AnswersAgree DEF Wrap
  <2>5. CASE \E u \in shown : u.tenant # t
    <3>1. PICK u \in shown : u.tenant # t
      BY <2>5
    <3>2. u \in Present(sql) \ found /\ u \notin inMem
      BY <3>1 DEF ById, Owned
    <3>3. Call(Wrap(Answer(inSql, {})), Answer(inMem, {}), FALSE)
      BY <1>11, <2>3, <2>5 DEF UserSoftDelete, Call
    <3>4. inMem # View(inSql)
      BY <2>2, <3>2
    <3> HIDE DEF inSql, inMem, Answer, Adapt
    <3> QED
      BY <3>3, <3>4, AnswersDiffer DEF Wrap
  <2> QED
    BY <2>4, <2>5
<1> QED
  BY <1>3, <1>4, <1>5, <1>6, <1>7, <1>8, <1>9, <1>10, <1>11 DEF UserCalls

\* Calls on roles: a system role belongs to no tenant, and both find it.
LEMMA RolesKept ==
  ASSUME DoubleInv, RoleCalls, ~parted
  PROVE  DoubleInv'
<1>1. table = "roles" /\ sql \subseteq RoleRows /\ mem = sql
  BY PlainView DEF RoleCalls, DoubleInv, Sound, RoleRows
<1>2. \A rows : rows \subseteq RoleRows => View(rows) = rows /\ Sound(table, rows)
  BY <1>1, PlainView DEF Sound, RoleRows
<1> USE DEF Answer, Refusal, Adapt, Wrap, Returning, Silent, One, Insert, InsertUnless, ChangeOne,
     Change, Delete, NoRows, Unique, Reference
<1>3. ASSUME NEW x \in RoleRows, RoleCreate(x) PROVE DoubleInv'
  BY <1>1, <1>2, <1>3 DEF RoleCreate, SqlCreateRole, MemRoleCreate, Call, DoubleInv
<1>4. ASSUME NEW id \in RowIds, RoleGetByID(id) PROVE DoubleInv'
  BY <1>1, <1>2, <1>4 DEF RoleGetByID, SqlGetRoleByID, MemRoleGetByID, Call, DoubleInv
<1>5. ASSUME NEW t \in Owners, NEW k \in Keys, RoleGetByName(t, k) PROVE DoubleInv'
  BY <1>1, <1>2, <1>5 DEF RoleGetByName, SqlGetRoleByName, MemRoleGetByName, Call, DoubleInv
<1>6. ASSUME NEW t \in Owners, RoleList(t) PROVE DoubleInv'
  BY <1>1, <1>2, <1>6 DEF RoleList, SqlListRolesByTenant, MemRoleList, Call, DoubleInv
<1>7. ASSUME NEW id \in RowIds, RolePermissionCodes(id) PROVE DoubleInv'
  BY <1>1, <1>2, <1>7 DEF RolePermissionCodes, SqlListPermissionCodesByRole,
       MemRolePermissionCodes, Call, DoubleInv
<1>8. ASSUME PermissionList PROVE DoubleInv'
  <2>1. "in the table only" \in Permissions /\ "in the table only" \notin DoublePermissions
    BY DEF Permissions, DoublePermissions
  <2>2. Permissions # DoublePermissions
    BY <2>1
  <2> QED
    BY <1>1, <1>2, <1>8, <2>2 DEF PermissionList, SqlListPermissions, MemPermissionList, Call,
         DoubleInv
<1>9. ASSUME NEW id \in RowIds, RoleGrantAllPermissions(id) PROVE DoubleInv'
  <2> DEFINE found == ById(sql, id)
             byAll == {[u EXCEPT !.perms = @ \cup Permissions] : u \in found}
             bySome == {[u EXCEPT !.perms = @ \cup DoublePermissions] : u \in found}
             inSql == (sql \ found) \cup byAll
             inMem == (sql \ found) \cup bySome
  <2>1. CASE found = {}
    BY <1>1, <1>2, <1>9, <2>1 DEF RoleGrantAllPermissions, SqlGrantAllPermissionsToRole,
         MemRoleGrantAllPermissions, Granted, Call, DoubleInv
  <2>2. CASE found # {}
    <3>1. \E u \in inSql : "in the table only" \in u.perms
      <4>1. PICK r \in found : TRUE
        BY <2>2
      <4>2. [r EXCEPT !.perms = @ \cup Permissions].perms = r.perms \cup Permissions
        BY <1>1, <4>1 DEF RoleRows, ById
      <4> QED
        BY <4>1, <4>2 DEF Permissions
    <3>2. \A u \in inMem : "in the table only" \notin u.perms
      <4>1. \A u \in found :
              "in the table only" \notin [u EXCEPT !.perms = @ \cup DoublePermissions].perms
        BY <1>1 DEF RoleRows, ById, DoublePermissions
      <4>2. \A u \in sql : "in the table only" \notin u.perms
        BY <1>1 DEF RoleRows
      <4> QED
        BY <4>1, <4>2
    <3>3. \A u \in inSql : "deleted" \notin DOMAIN u
      BY <1>1 DEF RoleRows, ById
    <3>4. inMem # View(inSql)
      BY <3>1, <3>2, <3>3, PlainView
    <3>5. SqlGrantAllPermissionsToRole(id) = Answer(inSql, {})
      BY <2>2 DEF SqlGrantAllPermissionsToRole, Granted
    <3>6. MemRoleGrantAllPermissions(id) = Answer(inMem, {})
      BY <1>1 DEF MemRoleGrantAllPermissions, Granted
    <3>7. Call(Wrap(Answer(inSql, {})), Answer(inMem, {}), FALSE)
      BY <1>9, <3>5, <3>6 DEF RoleGrantAllPermissions
    <3> HIDE DEF inSql, inMem, Answer, Adapt
    <3> QED
      BY <3>4, <3>7, AnswersDiffer DEF Wrap
  <2> QED
    BY <2>1, <2>2
<1>10. ASSUME NEW id \in RowIds, NEW p \in Permissions, RoleAddPermission(id, p) PROVE DoubleInv'
  <2> DEFINE found == ById(sql, id)
             inSql == (sql \ found) \cup {[u EXCEPT !.perms = @ \cup {p}] : u \in found}
  <2>1. \A r \in sql : r.perms = {}
    BY <1>1 DEF RoleRows
  <2>2. ~\E r \in found : p \in r.perms
    BY <2>1 DEF ById
  <2>3. CASE found = {}
    BY <1>1, <1>2, <1>10, <2>3 DEF RoleAddPermission, SqlAddRolePermission, MemRoleAddPermission,
         Granted, Call, DoubleInv
  <2>4. CASE found # {}
    <3>1. \E u \in inSql : u.perms # {}
      <4>1. PICK r \in found : TRUE
        BY <2>4
      <4>2. [r EXCEPT !.perms = @ \cup {p}].perms = r.perms \cup {p}
        BY <1>1, <4>1 DEF RoleRows, ById
      <4> QED
        BY <4>1, <4>2
    <3>2. \A u \in inSql : "deleted" \notin DOMAIN u
      BY <1>1 DEF RoleRows, ById
    <3>3. sql # View(inSql)
      BY <2>1, <3>1, <3>2, PlainView
    <3>4. SqlAddRolePermission(id, p) = Answer(inSql, {})
      BY <2>4 DEF SqlAddRolePermission, Granted
    <3>5. MemRoleAddPermission = Answer(sql, {})
      BY <1>1 DEF MemRoleAddPermission
    <3>6. Call(Wrap(Answer(inSql, {})), Answer(sql, {}), FALSE)
      BY <1>10, <2>2, <3>4, <3>5 DEF RoleAddPermission, Call
    <3> HIDE DEF inSql, Answer, Adapt
    <3> QED
      BY <3>3, <3>6, AnswersDiffer DEF Wrap
  <2> QED
    BY <2>3, <2>4
<1> QED
  BY <1>3, <1>4, <1>5, <1>6, <1>7, <1>8, <1>9, <1>10 DEF RoleCalls

\* Calls on refresh tokens: each revokes what the other does.
LEMMA TokensKept ==
  ASSUME DoubleInv, TokenCalls, ~parted
  PROVE  DoubleInv'
<1>1. table = "refresh_tokens" /\ sql \subseteq StoredTokens /\ mem = sql
  BY PlainView DEF TokenCalls, DoubleInv, Sound, StoredTokens
<1>2. \A rows : rows \subseteq StoredTokens => View(rows) = rows /\ Sound(table, rows)
  BY <1>1, PlainView DEF Sound, StoredTokens
<1> USE DEF Answer, Refusal, Adapt, Wrap, Returning, Silent, One, Insert, InsertUnless, ChangeOne,
     Change, Delete, NoRows, Unique, Reference
<1>3. ASSUME NEW x \in TokenRows, TokenCreate(x) PROVE DoubleInv'
  <2>1. x \in StoredTokens
    BY DEF TokenRows, StoredTokens
  <2>2. CASE \E t \in sql : t.hash = x.hash
    BY <1>1, <1>3, <2>2 DEF TokenCreate, SqlCreateRefreshToken, MemTokenCreate, Call, DoubleInv
  <2>3. CASE \A t \in sql : t.hash # x.hash
    <3>1. {t \in sql : t.hash # x.hash} = sql
      BY <2>3
    <3>2. SqlCreateRefreshToken(x) = Answer(sql \cup {x}, {x})
      BY <2>3 DEF SqlCreateRefreshToken
    <3>3. MemTokenCreate(x) = Answer(sql \cup {x}, {x})
      BY <1>1, <3>1 DEF MemTokenCreate
    <3>4. Call(Wrap(Answer(sql \cup {x}, {x})), Answer(sql \cup {x}, {x}), TRUE)
      BY <1>3, <2>3, <3>2, <3>3 DEF TokenCreate, Call
    <3>5. sql \cup {x} \subseteq StoredTokens
      BY <1>1, <2>1
    <3> QED
      BY <1>2, <3>4, <3>5, AnswersAgree
  <2> QED
    BY <2>2, <2>3
<1>4. ASSUME NEW k \in Keys, TokenGetByHash(k) PROVE DoubleInv'
  BY <1>1, <1>2, <1>4 DEF TokenGetByHash, SqlGetRefreshTokenByHash, MemTokenGetByHash, Call,
       DoubleInv
<1>5. ASSUME NEW k \in Keys, TokenRevoke(k) PROVE DoubleInv'
  <2> DEFINE found == {t \in {t \in sql : t.hash = k} : ~t.revoked}
             now   == (sql \ found) \cup {[t EXCEPT !.revoked = TRUE] : t \in found}
  <2>1. now \subseteq StoredTokens
    BY <1>1 DEF StoredTokens
  <2> QED
    BY <1>1, <1>2, <1>5, <2>1 DEF TokenRevoke, SqlRevokeRefreshToken, MemTokenRevoke, Revoked,
         Call, DoubleInv
<1>6. ASSUME NEW k \in Owners, TokenRevokeAllForUser(k) PROVE DoubleInv'
  <2> DEFINE found == {t \in {t \in sql : t.user = k} : ~t.revoked}
             now   == (sql \ found) \cup {[t EXCEPT !.revoked = TRUE] : t \in found}
  <2>1. now \subseteq StoredTokens
    BY <1>1 DEF StoredTokens
  <2> QED
    BY <1>1, <1>2, <1>6, <2>1 DEF TokenRevokeAllForUser, SqlRevokeAllUserRefreshTokens,
         MemTokenRevokeAllForUser, Revoked, Call, DoubleInv
<1>7. ASSUME TokenDeleteExpired PROVE DoubleInv'
  BY <1>1, <1>2, <1>7 DEF TokenDeleteExpired, SqlDeleteExpiredRefreshTokens, MemTokenDeleteExpired,
       Call, DoubleInv
<1> QED
  BY <1>3, <1>4, <1>5, <1>6, <1>7 DEF TokenCalls

\* Calls on the audit log.
LEMMA AuditKept ==
  ASSUME DoubleInv, AuditCalls, ~parted
  PROVE  DoubleInv'
<1>1. table = "audit_logs" /\ sql \subseteq AuditRows /\ mem = sql
  BY PlainView DEF AuditCalls, DoubleInv, Sound, AuditRows
<1>2. \A rows : rows \subseteq AuditRows => View(rows) = rows /\ Sound(table, rows)
  BY <1>1, PlainView DEF Sound, AuditRows
<1> USE DEF Answer, Refusal, Adapt, Wrap, Returning, Silent, One, Insert, InsertUnless, ChangeOne,
     Change, Delete, NoRows, Unique, Reference
<1>3. ASSUME NEW x \in AuditRows, AuditInsert(x) PROVE DoubleInv'
  BY <1>1, <1>2, <1>3 DEF AuditInsert, SqlInsertAuditLog, MemAuditInsert, Call, DoubleInv
<1>4. ASSUME NEW t \in Owners, AuditList(t) PROVE DoubleInv'
  BY <1>1, <1>2, <1>4 DEF AuditList, SqlListAuditLogs, MemAuditList, Call, DoubleInv
<1> QED
  BY <1>3, <1>4 DEF AuditCalls

-----------------------------------------------------------------------------
(* Plans and customers.                                                     *)

\* Calls on plans: a plan that takes another one's name is refused by PostgreSQL only.
LEMMA PlansKept ==
  ASSUME DoubleInv, PlanCalls, ~parted
  PROVE  DoubleInv'
<1>1. table = "plans" /\ sql \subseteq StoredPlans /\ mem = Present(sql)
  BY PresentView DEF PlanCalls, DoubleInv, Sound, StoredPlans
<1>2. \A rows : rows \subseteq StoredPlans => View(rows) = Present(rows) /\ Sound(table, rows)
  BY <1>1, PresentView DEF Sound, StoredPlans
<1> USE DEF Answer, Refusal, Adapt, Wrap, Returning, Silent, One, Insert, InsertUnless, ChangeOne,
     Change, Delete, NoRows, Unique, Reference
<1>3. ASSUME NEW x \in PlanRows, x.id \in Fresh, PlanCreate(x) PROVE DoubleInv'
  <2>1. x \in StoredPlans /\ ~x.deleted
    BY DEF PlanRows, StoredPlans
  <2>2. Present(sql \cup {x}) = Present(sql) \cup {x}
    BY <2>1, PresentAdded
  <2> QED
    BY <1>1, <1>2, <1>3, <2>1, <2>2 DEF PlanCreate, SqlCreatePlan, MemPlanCreate, Call, DoubleInv
<1>4. ASSUME NEW t \in Owners, NEW id \in RowIds, PlanGetByID(t, id) PROVE DoubleInv'
  <2>1. {p \in ById(Present(sql), id) : p.tenant = t} = ById(Owned(Present(sql), t), id)
    BY DEF ById, Owned
  <2> QED
    BY <1>1, <1>2, <1>4, <2>1 DEF PlanGetByID, SqlGetPlanByID, MemPlanGetByID, Call, DoubleInv
<1>5. ASSUME NEW t \in Owners, PlanList(t) PROVE DoubleInv'
  BY <1>1, <1>2, <1>5 DEF PlanList, SqlListPlansByTenant, MemPlanList, Call, DoubleInv
<1>6. ASSUME NEW t \in Owners, PlanCount(t) PROVE DoubleInv'
  BY <1>1, <1>2, <1>6 DEF PlanCount, SqlCountPlansByTenant, MemPlanCount, Call, DoubleInv
<1>7. ASSUME NEW x \in PlanRows, PlanUpdate(x) PROVE DoubleInv'
  <2> DEFINE found == ById(Owned(Present(sql), x.tenant), x.id)
             names == [no_rows |-> "ErrNotFound", unique |-> "ErrNameTaken"]
             inSql == (sql \ found) \cup {x}
             inMem == (Present(sql) \ found) \cup {x}
  <2>1. {p \in ById(Present(sql), x.id) : p.tenant = x.tenant} = found
    BY DEF ById, Owned
  <2>2. CASE found = {}
    BY <1>1, <1>2, <1>7, <2>1, <2>2 DEF PlanUpdate, SqlUpdatePlan, MemPlanUpdate, Call, DoubleInv
  <2>3. CASE found # {}
    <3>1. {x : p \in found} = {x}
      BY <2>3
    <3>2. MemPlanUpdate(x) = Answer(inMem, {x})
      BY <1>1, <2>1, <2>3, <3>1 DEF MemPlanUpdate
    <3>3. CASE \A p \in Present(sql) : p.id # x.id => ~SamePlan(p, x)
      <4>1. ~ \E p \in Present(sql) \ found : SamePlan(p, x)
        BY <3>3 DEF SamePlan, ById, Owned
      <4>2. SqlUpdatePlan(x) = Answer(inSql, {x})
        BY <2>3, <3>1, <4>1 DEF SqlUpdatePlan
      <4>3. Call(Adapt(Answer(inSql, {x}), names), Answer(inMem, {x}), TRUE)
        BY <1>7, <2>3, <3>2, <3>3, <4>2 DEF PlanUpdate, Call
      <4>4. inSql \subseteq StoredPlans /\ Present(inSql) = inMem
        BY <1>1 DEF PlanRows, StoredPlans, Present
      <4>5. inMem = View(inSql) /\ Sound(table, inSql)
        BY <1>2, <4>4
      <4> HIDE DEF inSql, inMem, names, Answer, Adapt
      <4> QED
        BY <4>3, <4>5, AnswersAgree
    <3>4. CASE \E p \in Present(sql) : p.id # x.id /\ SamePlan(p, x)
      <4>1. \E p \in Present(sql) \ found : SamePlan(p, x)
        BY <3>4 DEF ById
      <4>2. SqlUpdatePlan(x) = Refusal(sql, "unique")
        BY <2>3, <4>1 DEF SqlUpdatePlan
      <4>3. Call(Adapt(Refusal(sql, "unique"), names), Answer(inMem, {x}), FALSE)
        BY <1>7, <2>3, <3>2, <3>4, <4>2 DEF PlanUpdate, Call
      <4>4. names["unique"] # ""
        OBVIOUS
      <4> HIDE DEF inMem, names, Answer, Refusal, Adapt
      <4> QED
        BY <4>3, <4>4, OnlyOneRefuses
    <3> QED
      BY <3>3, <3>4
  <2> QED
    BY <2>2, <2>3
<1>8. ASSUME NEW t \in Owners, NEW id \in RowIds, PlanSoftDelete(t, id) PROVE DoubleInv'
  <2> DEFINE found == ById(Owned(Present(sql), t), id)
             new   == {[p EXCEPT !.deleted = TRUE] : p \in found}
             inSql == (sql \ found) \cup new
             inMem == Present(sql) \ found
  <2>1. inSql \subseteq StoredPlans /\ \A p \in new : p.deleted
    BY <1>1 DEF StoredPlans, ById, Owned, Present
  <2>2. Present(inSql) = inMem
    BY <2>1, PresentGone
  <2>3. {p \in ById(Present(sql), id) : p.tenant = t} = found
    BY DEF ById, Owned
  <2>4. SqlSoftDeletePlan(t, id) = Answer(inSql, {}) /\ MemPlanSoftDelete(t, id) = Answer(inMem, {})
    BY <1>1, <2>3 DEF SqlSoftDeletePlan, MemPlanSoftDelete
  <2>5. inMem = View(inSql) /\ Sound(table, inSql)
    BY <1>2, <2>1, <2>2
  <2>6. Call(Wrap(Answer(inSql, {})), Answer(inMem, {}), TRUE)
    BY <1>8, <2>4 DEF PlanSoftDelete
  <2> HIDE DEF inSql, inMem, Answer, Adapt
  <2> QED
    BY <2>5, <2>6, AnswersAgree DEF Wrap
<1> QED
  BY <1>3, <1>4, <1>5, <1>6, <1>7, <1>8 DEF PlanCalls

\* Calls on bandwidth profiles: they differ when the profile is another tenant's.
LEMMA BandwidthKept ==
  ASSUME DoubleInv, BandwidthCalls, ~parted
  PROVE  DoubleInv'
<1>1. table = "bandwidth_profiles" /\ sql \subseteq BandwidthRows /\ mem = sql
  BY PlainView DEF BandwidthCalls, DoubleInv, Sound, BandwidthRows
<1>2. \A rows : rows \subseteq BandwidthRows => View(rows) = rows /\ Sound(table, rows)
  BY <1>1, PlainView DEF Sound, BandwidthRows
<1> USE DEF Answer, Refusal, Adapt, Wrap, Returning, Silent, One, Insert, InsertUnless, ChangeOne,
     Change, Delete, NoRows, Unique, Reference
<1>3. ASSUME NEW x \in BandwidthRows, BandwidthUpsert(x) PROVE DoubleInv'
  <2> DEFINE found == ProfileOf(sql, x.plan)
             new   == {[b EXCEPT !.rate = x.rate] : b \in found}
  <2>1. CASE found = {}
    <3>1. sql \ found = sql /\ sql \cup {x} \subseteq BandwidthRows
      BY <1>1, <2>1
    <3> QED
      BY <1>1, <1>2, <1>3, <2>1, <3>1 DEF BandwidthUpsert, SqlUpsertBandwidthProfile,
           MemBandwidthUpsert, Call, DoubleInv
  <2>2. CASE found # {} /\ \A b \in found : b.tenant = x.tenant
    <3>1. \A b \in found : [b EXCEPT !.rate = x.rate] = x
      BY <1>1, <2>2 DEF ProfileOf, BandwidthRows
    <3>2. new = {x} /\ (sql \ found) \cup {x} \subseteq BandwidthRows
      BY <1>1, <2>2, <3>1
    <3>3. SqlUpsertBandwidthProfile(x) = Answer((sql \ found) \cup {x}, {x})
      BY <2>2, <3>2 DEF SqlUpsertBandwidthProfile
    <3>4. MemBandwidthUpsert(x) = Answer((sql \ found) \cup {x}, {x})
      BY <1>1 DEF MemBandwidthUpsert
    <3>5. Call(Wrap(Answer((sql \ found) \cup {x}, {x})), Answer((sql \ found) \cup {x}, {x}), TRUE)
      BY <1>3, <2>2, <3>3, <3>4 DEF BandwidthUpsert, Call
    <3> QED
      BY <1>2, <3>2, <3>5, AnswersAgree
  <2>3. CASE \E b \in found : b.tenant # x.tenant
    <3>1. PICK b \in found : b.tenant # x.tenant
      BY <2>3
    <3>2. [b EXCEPT !.rate = x.rate].tenant # x.tenant
      BY <1>1, <3>1 DEF ProfileOf, BandwidthRows
    <3>3. [b EXCEPT !.rate = x.rate] \in new
      BY <3>1
    <3>4. new # {x}
      BY <3>2, <3>3
    <3>5. SqlUpsertBandwidthProfile(x) = Answer((sql \ found) \cup new, new)
      BY <2>3 DEF SqlUpsertBandwidthProfile
    <3>6. MemBandwidthUpsert(x) = Answer((sql \ found) \cup {x}, {x})
      BY <1>1 DEF MemBandwidthUpsert
    <3> DEFINE kept == sql \ found
    <3>7. Call(Wrap(Answer(kept \cup new, new)), Answer(kept \cup {x}, {x}), FALSE)
      BY <1>3, <2>3, <3>5, <3>6 DEF BandwidthUpsert, Call
    <3> HIDE DEF new, found, kept, Answer, Adapt
    <3> QED
      BY <3>4, <3>7, AnswersDiffer DEF Wrap
  <2> QED
    BY <2>1, <2>2, <2>3
<1>4. ASSUME NEW p \in RowIds, BandwidthGetByPlan(p) PROVE DoubleInv'
  BY <1>1, <1>2, <1>4 DEF BandwidthGetByPlan, SqlGetBandwidthProfileByPlan, MemBandwidthGetByPlan,
       Call, DoubleInv
<1> QED
  BY <1>3, <1>4 DEF BandwidthCalls

\* Calls on customers, under either half of their columns: the double differs when two
\* unique indexes are hit, when it writes what the UPDATE leaves, and when nobody is found.
LEMMA CustomersKept ==
  ASSUME DoubleInv, CustomerCalls, ~parted
  PROVE  DoubleInv'
<1>0. \A rows : rows \subseteq StoredCustomers /\ UniqueIds(rows) => View(rows) = Present(rows)
  <2>1. \A r \in StoredCustomers : "deleted" \in DOMAIN r
    BY DEF StoredCustomers
  <2> QED
    BY <2>1, PresentView
<1>1. /\ table \in {"customers", "customers, other columns"}
      /\ sql \subseteq StoredCustomers
      /\ UniqueIds(sql)
      /\ mem = Present(sql)
  <2>1. table \in {"customers", "customers, other columns"}
    BY DEF CustomerCalls
  <2>2. mem = View(sql) /\ Sound(table, sql)
    BY DEF DoubleInv
  <2>3. sql \subseteq StoredCustomers /\ UniqueIds(sql)
    BY <2>1, <2>2 DEF Sound
  <2> QED
    BY <1>0, <2>1, <2>2, <2>3
<1>2. \A rows : rows \subseteq StoredCustomers /\ UniqueIds(rows)
                 => View(rows) = Present(rows) /\ Sound(table, rows)
  BY <1>0, <1>1 DEF Sound
<1> USE DEF Answer, Refusal, Adapt, Wrap, Returning, Silent, One, Insert, InsertUnless, ChangeOne,
     Change, Delete, NoRows, Unique, Reference
<1>3. ASSUME NEW x \in CustomerRows, x \in NewCustomers, x.id \in Fresh, CustomerCreate(x)
      PROVE  DoubleInv'
  <2> DEFINE inSql == sql \cup {x}
             inMem == Present(sql) \cup {x}
             numbered == \E c \in Present(sql) : SameNo(c, x)
             named    == \E c \in Present(sql) : SameUser(c, x)
  <2>1. x \in StoredCustomers /\ ~x.deleted
    BY <1>1 DEF CustomerRows, CustomerColumns, StoredCustomers
  <2>2. inSql \subseteq StoredCustomers /\ UniqueIds(inSql)
    BY <1>1, <1>3, <2>1 DEF UniqueIds, Fresh, ById
  <2>3. Present(inSql) = inMem
    BY <2>1, PresentAdded
  <2>4. inMem = View(inSql) /\ Sound(table, inSql)
    BY <1>2, <2>2, <2>3
  <2>5. PICK m \in MemCustomerCreate(x) :
          Call(Adapt(SqlCreateCustomer(x), CustomerErrors), m,
               m.error = "ErrUsernameTaken" => \A c \in Present(sql) : ~SameNo(c, x))
    BY <1>3 DEF CustomerCreate
  <2>6. CASE ~numbered /\ ~named
    <3>1. SqlCreateCustomer(x) = Answer(inSql, {x}) /\ m = Answer(inMem, {x})
      BY <1>1, <2>5, <2>6 DEF SqlCreateCustomer, MemCustomerCreate
    <3>2. Call(Adapt(Answer(inSql, {x}), CustomerErrors), Answer(inMem, {x}), TRUE)
      BY <2>5, <2>6, <3>1 DEF Call
    <3> HIDE DEF inSql, inMem, Answer, Adapt
    <3> QED
      BY <2>4, <3>2, AnswersAgree
  <2>7. CASE numbered \/ named
    <3>1. PICK c \in Present(sql) :
            /\ SameNo(c, x) \/ SameUser(c, x)
            /\ m = Refusal(Present(sql), IF SameNo(c, x) THEN "ErrNoTaken" ELSE "ErrUsernameTaken")
      BY <1>1, <2>5, <2>7 DEF MemCustomerCreate
    <3>2. CASE numbered
      <4>1. Adapt(SqlCreateCustomer(x), CustomerErrors) = Refusal(sql, "ErrNoTaken")
        BY <3>2 DEF SqlCreateCustomer, NoTaken, CustomerErrors
      <4>2. CASE SameNo(c, x)
        <5>1. Call(Refusal(sql, "ErrNoTaken"), Refusal(Present(sql), "ErrNoTaken"), TRUE)
          BY <2>5, <3>1, <4>1, <4>2 DEF Call
        <5> QED
          BY <1>1, <1>2, <5>1 DEF Call, DoubleInv
      <4>3. CASE ~SameNo(c, x)
        <5>1. Call(Refusal(sql, "ErrNoTaken"), Refusal(Present(sql), "ErrUsernameTaken"), FALSE)
          BY <2>5, <3>1, <3>2, <4>1, <4>3 DEF Call
        <5> QED
          BY <5>1 DEF Call, DoubleInv
      <4> QED
        BY <4>2, <4>3
    <3>3. CASE ~numbered
      <4>1. Adapt(SqlCreateCustomer(x), CustomerErrors) = Refusal(sql, "ErrUsernameTaken")
        BY <2>7, <3>3 DEF SqlCreateCustomer, UserTaken, CustomerErrors
      <4>2. Call(Refusal(sql, "ErrUsernameTaken"), Refusal(Present(sql), "ErrUsernameTaken"), TRUE)
        BY <2>5, <3>1, <3>3, <4>1 DEF Call
      <4> QED
        BY <1>1, <1>2, <4>2 DEF Call, DoubleInv
    <3> QED
      BY <3>2, <3>3
  <2> QED
    BY <2>6, <2>7
<1>4. ASSUME NEW x \in CustomerRows, CustomerUpdate(x) PROVE DoubleInv'
  <2> DEFINE found == CustomerIn(Present(sql), x.tenant, x.id)
             names == [no_rows |-> "ErrNotFound", customer_no |-> "ErrNoTaken",
                       pppoe_username |-> "ErrUsernameTaken"]
  <2>1. x \in StoredCustomers /\ ~x.deleted
    BY <1>1 DEF CustomerRows, CustomerColumns, StoredCustomers
  <2>2. CASE found = {}
    <3>1. Call(Adapt(Refusal(sql, "no_rows"), names), Refusal(Present(sql), "ErrNotFound"), TRUE)
      BY <1>1, <1>4, <2>2 DEF CustomerUpdate, SqlUpdateCustomer, MemCustomerUpdate, Call
    <3> QED
      BY <1>1, <1>2, <3>1 DEF Call, DoubleInv
  <2>3. CASE found # {}
    <3>1. PICK c \in sql : found = {c} /\ ~c.deleted /\ c.id = x.id /\ c.tenant = x.tenant
      BY <1>1, <2>3 DEF UniqueIds, CustomerIn, ById, Owned, Present
    <3> DEFINE y == [x EXCEPT !.no = c.no, !.until = c.until, !.portal = c.portal]
               inSql == (sql \ found) \cup {y}
               inMem == (Present(sql) \ found) \cup {x}
               clash == \E d \in Present(sql) \ found : SameUser(d, x)
               Written == c.no = x.no /\ c.until = x.until /\ c.portal = x.portal
    <3>2. MemCustomerUpdate(x) = Answer(inMem, {x})
      BY <1>1, <3>1 DEF MemCustomerUpdate
    <3>3. y \in StoredCustomers /\ y.id = x.id /\ ~y.deleted /\ (Written <=> y = x)
      BY <1>1, <2>1, <3>1 DEF StoredCustomers
    <3>4. CASE clash
      <4>1. SqlUpdateCustomer(x) = Refusal(sql, "pppoe_username")
        BY <2>3, <3>4 DEF SqlUpdateCustomer, UserTaken
      <4>2. ~ \A d \in Present(sql) \ {c} : ~SameUser(d, x)
        BY <3>1, <3>4
      <4>3. Call(Adapt(Refusal(sql, "pppoe_username"), names), Answer(inMem, {x}), FALSE)
        BY <1>4, <3>1, <3>2, <4>1, <4>2 DEF CustomerUpdate, Call
      <4>4. names["pppoe_username"] # ""
        OBVIOUS
      <4> HIDE DEF inMem, names, Answer, Refusal, Adapt
      <4> QED
        BY <4>3, <4>4, OnlyOneRefuses
    <3>5. CASE ~clash
      <4>1. SqlUpdateCustomer(x) = Answer(inSql, {y})
        BY <2>3, <3>1, <3>5 DEF SqlUpdateCustomer
      <4>2. \A d \in Present(sql) \ {c} : ~SameUser(d, x)
        BY <3>1, <3>5
      <4>3. CASE Written
        <5>1. Call(Adapt(Answer(inSql, {y}), names), Answer(inMem, {y}), TRUE)
          BY <1>4, <3>1, <3>2, <3>3, <4>1, <4>2, <4>3 DEF CustomerUpdate, Call
        <5>2. inSql \subseteq StoredCustomers /\ UniqueIds(inSql)
          BY <1>1, <3>1, <3>3 DEF UniqueIds
        <5>3. Present(inSql) = inMem
          BY <3>3, <4>3 DEF Present
        <5>4. inMem = View(inSql) /\ Sound(table, inSql)
          BY <1>2, <5>2, <5>3
        <5> HIDE DEF y, inSql, inMem, names, Answer, Adapt
        <5> QED
          BY <5>1, <5>4, AnswersAgree
      <4>4. CASE ~Written
        <5>1. Call(Adapt(Answer(inSql, {y}), names), Answer(inMem, {x}), FALSE)
          BY <1>4, <3>1, <3>2, <4>1, <4>4 DEF CustomerUpdate, Call
        <5>2. {y} # {x}
          BY <3>3, <4>4
        <5> HIDE DEF y, inSql, inMem, names, Answer, Adapt
        <5> QED
          BY <5>1, <5>2, AnswersDiffer
      <4> QED
        BY <4>3, <4>4
    <3> QED
      BY <3>4, <3>5
  <2> QED
    BY <2>2, <2>3
<1>5. ASSUME CustomerListExpiredActive PROVE DoubleInv'
  BY <1>1, <1>2, <1>5 DEF CustomerListExpiredActive, SqlListExpiredActiveCustomers,
       MemCustomerListExpiredActive, ExpiredActive, Call, DoubleInv
<1>6. ASSUME NEW t \in Owners, CustomerList(t) PROVE DoubleInv'
  BY <1>1, <1>2, <1>6 DEF CustomerList, SqlListCustomersByTenant, MemCustomerList, Call, DoubleInv
<1>7. ASSUME NEW t \in Owners, CustomerCount(t) PROVE DoubleInv'
  BY <1>1, <1>2, <1>7 DEF CustomerCount, SqlCountCustomersByTenant, MemCustomerCount, Call,
       DoubleInv
<1>8. ASSUME NEW t \in Owners, CustomerListWithLocation(t) PROVE DoubleInv'
  BY <1>1, <1>2, <1>8 DEF CustomerListWithLocation, SqlListCustomersWithLocation,
       MemCustomerListWithLocation, Call, DoubleInv
<1>9. ASSUME NEW t \in Owners, NEW k \in Keys, CustomerGetByNo(t, k) PROVE DoubleInv'
  BY <1>1, <1>2, <1>9 DEF CustomerGetByNo, SqlGetCustomerByNo, MemCustomerGetByNo, Call, DoubleInv
<1>10. ASSUME NEW t \in Owners, NEW id \in RowIds, CustomerGetByID(t, id) PROVE DoubleInv'
  BY <1>1, <1>2, <1>10 DEF CustomerGetByID, SqlGetCustomerByID, MemCustomerGetByID, Call, DoubleInv
<1>11. ASSUME NEW t \in Owners, NEW id \in RowIds, CustomerSoftDelete(t, id) PROVE DoubleInv'
  <2> DEFINE found == CustomerIn(Present(sql), t, id)
             new   == {[c EXCEPT !.deleted = TRUE] : c \in found}
             inSql == (sql \ found) \cup new
             inMem == Present(sql) \ found
  <2>1. inSql \subseteq StoredCustomers /\ UniqueIds(inSql) /\ \A c \in new : c.deleted
    <3> DEFINE Gone(c) == [c EXCEPT !.deleted = TRUE]
    <3>1. ASSUME NEW c \in sql
          PROVE  Gone(c) \in StoredCustomers /\ Gone(c).id = c.id /\ Gone(c).deleted
      BY <1>1 DEF StoredCustomers
    <3>2. new = {Gone(c) : c \in found}
      OBVIOUS
    <3>3. \A c, d \in sql : c.id = d.id => c = d
      BY <1>1 DEF UniqueIds
    <3>4. found \subseteq sql
      BY DEF CustomerIn, ById, Owned, Present
    <3> HIDE DEF Gone, found, new
    <3>5. \A y \in inSql :
            \E c \in sql : c.id = y.id /\ y = IF c \in found THEN Gone(c) ELSE c
      BY <3>1, <3>2, <3>4
    <3>6. \A y, z \in inSql : y.id = z.id => y = z
      BY <3>3, <3>5
    <3> QED
      <4>1. inSql \subseteq StoredCustomers
        BY <1>1, <3>1, <3>4, <3>5
      <4>2. \A c \in new : c.deleted
        BY <3>1, <3>2, <3>4
      <4> QED
        BY <3>6, <4>1, <4>2 DEF UniqueIds
  <2>2. Present(inSql) = inMem
    BY <2>1, PresentGone
  <2>3. inMem = View(inSql) /\ Sound(table, inSql)
    BY <1>2, <2>1, <2>2
  <2>4. Call(Wrap(Answer(inSql, {})), Answer(inMem, {}), TRUE)
    BY <1>1, <1>11 DEF CustomerSoftDelete, SqlSoftDeleteCustomer, MemCustomerSoftDelete
  <2> HIDE DEF inSql, inMem, Answer, Adapt
  <2> QED
    BY <2>3, <2>4, AnswersAgree DEF Wrap
<1>12. ASSUME NEW t \in Owners, NEW id \in RowIds, NEW s \in {"active", "isolated"},
              CustomerUpdateStatus(t, id, s)
       PROVE  DoubleInv'
  <2> DEFINE By(c) == [c EXCEPT !.status = s]
             found == CustomerIn(Present(sql), t, id)
             new   == {By(c) : c \in found}
             inSql == (sql \ found) \cup new
             inMem == (Present(sql) \ found) \cup new
  <2>1. inSql \subseteq StoredCustomers /\ UniqueIds(inSql) /\ \A c \in new : ~c.deleted
    <3>1. ASSUME NEW c \in sql
          PROVE  By(c) \in StoredCustomers /\ By(c).id = c.id /\ By(c).deleted = c.deleted
      BY <1>1 DEF StoredCustomers
    <3>2. \A c, d \in sql : c.id = d.id => c = d
      BY <1>1 DEF UniqueIds
    <3> HIDE DEF By
    <3>3. \A y \in inSql :
            \E c \in sql : c.id = y.id /\ y = IF c \in found THEN By(c) ELSE c
      BY <3>1 DEF CustomerIn, ById, Owned, Present
    <3>4. \A y, z \in inSql : y.id = z.id => y = z
      BY <3>2, <3>3
    <3>5. inSql \subseteq StoredCustomers
      BY <1>1, <3>1, <3>3
    <3>6. \A c \in new : ~c.deleted
      BY <3>1 DEF CustomerIn, ById, Owned, Present
    <3> QED
      BY <3>4, <3>5, <3>6 DEF UniqueIds
  <2>2. Present(inSql) = inMem
    <3> HIDE DEF found, new
    <3> QED
      BY <2>1 DEF Present
  <2>3. inMem = View(inSql) /\ Sound(table, inSql)
    BY <1>2, <2>1, <2>2
  <2>4. CASE found = {}
    <3>1. Call(Wrap(Answer(sql, {})), Refusal(Present(sql), "ErrNotFound"), FALSE)
      <4>1. (sql \ {}) \cup {} = sql /\ {By(c) : c \in {}} = {}
        OBVIOUS
      <4> QED
        BY <1>1, <1>12, <2>4, <4>1 DEF CustomerUpdateStatus, SqlUpdateCustomerStatus,
             MemCustomerUpdateStatus, Call
    <3> QED
      BY <3>1 DEF Call, DoubleInv
  <2>5. CASE found # {}
    <3>1. Call(Wrap(Answer(inSql, {})), Answer(inMem, {}), TRUE)
      BY <1>1, <1>12, <2>5 DEF CustomerUpdateStatus, SqlUpdateCustomerStatus,
           MemCustomerUpdateStatus, Call
    <3> HIDE DEF inSql, inMem, Answer, Adapt
    <3> QED
      BY <2>3, <3>1, AnswersAgree DEF Wrap
  <2> QED
    BY <2>4, <2>5
<1>13. ASSUME NEW t \in Owners, NEW id \in RowIds, CustomerSetPortalPassword(t, id) PROVE DoubleInv'
  <2> DEFINE By(c) == [c EXCEPT !.portal = TRUE]
             found == CustomerIn(Present(sql), t, id)
             new   == {By(c) : c \in found}
             inSql == (sql \ found) \cup new
             inMem == (Present(sql) \ found) \cup new
  <2>1. inSql \subseteq StoredCustomers /\ UniqueIds(inSql) /\ \A c \in new : ~c.deleted
    <3>1. ASSUME NEW c \in sql
          PROVE  By(c) \in StoredCustomers /\ By(c).id = c.id /\ By(c).deleted = c.deleted
      BY <1>1 DEF StoredCustomers
    <3>2. \A c, d \in sql : c.id = d.id => c = d
      BY <1>1 DEF UniqueIds
    <3> HIDE DEF By
    <3>3. \A y \in inSql :
            \E c \in sql : c.id = y.id /\ y = IF c \in found THEN By(c) ELSE c
      BY <3>1 DEF CustomerIn, ById, Owned, Present
    <3>4. \A y, z \in inSql : y.id = z.id => y = z
      BY <3>2, <3>3
    <3>5. inSql \subseteq StoredCustomers
      BY <1>1, <3>1, <3>3
    <3>6. \A c \in new : ~c.deleted
      BY <3>1 DEF CustomerIn, ById, Owned, Present
    <3> QED
      BY <3>4, <3>5, <3>6 DEF UniqueIds
  <2>2. Present(inSql) = inMem
    <3> HIDE DEF found, new
    <3> QED
      BY <2>1 DEF Present
  <2>3. inMem = View(inSql) /\ Sound(table, inSql)
    BY <1>2, <2>1, <2>2
  <2>4. CASE found = {}
    <3>1. Call(Wrap(Answer(sql, {})), Refusal(Present(sql), "ErrNotFound"), FALSE)
      <4>1. (sql \ {}) \cup {} = sql /\ {By(c) : c \in {}} = {}
        OBVIOUS
      <4> QED
        BY <1>1, <1>13, <2>4, <4>1 DEF CustomerSetPortalPassword, SqlSetPortalPassword,
             MemCustomerSetPortalPassword, Call
    <3> QED
      BY <3>1 DEF Call, DoubleInv
  <2>5. CASE found # {}
    <3>1. Call(Wrap(Answer(inSql, {})), Answer(inMem, {}), TRUE)
      BY <1>1, <1>13, <2>5 DEF CustomerSetPortalPassword, SqlSetPortalPassword,
           MemCustomerSetPortalPassword, Call
    <3> HIDE DEF inSql, inMem, Answer, Adapt
    <3> QED
      BY <2>3, <3>1, AnswersAgree DEF Wrap
  <2> QED
    BY <2>4, <2>5
<1>14. ASSUME NEW t \in Owners, NEW id \in RowIds, NEW s \in {"active", "isolated"},
              CustomerSetActiveUntil(t, id, "past", s)
       PROVE  DoubleInv'
  <2> DEFINE By(c) == [c EXCEPT !.until = "past", !.status = s]
             found == CustomerIn(Present(sql), t, id)
             new   == {By(c) : c \in found}
             inSql == (sql \ found) \cup new
             inMem == (Present(sql) \ found) \cup new
  <2>1. inSql \subseteq StoredCustomers /\ UniqueIds(inSql) /\ \A c \in new : ~c.deleted
    <3>1. ASSUME NEW c \in sql
          PROVE  By(c) \in StoredCustomers /\ By(c).id = c.id /\ By(c).deleted = c.deleted
      BY <1>1 DEF StoredCustomers
    <3>2. \A c, d \in sql : c.id = d.id => c = d
      BY <1>1 DEF UniqueIds
    <3> HIDE DEF By
    <3>3. \A y \in inSql :
            \E c \in sql : c.id = y.id /\ y = IF c \in found THEN By(c) ELSE c
      BY <3>1 DEF CustomerIn, ById, Owned, Present
    <3>4. \A y, z \in inSql : y.id = z.id => y = z
      BY <3>2, <3>3
    <3>5. inSql \subseteq StoredCustomers
      BY <1>1, <3>1, <3>3
    <3>6. \A c \in new : ~c.deleted
      BY <3>1 DEF CustomerIn, ById, Owned, Present
    <3> QED
      BY <3>4, <3>5, <3>6 DEF UniqueIds
  <2>2. Present(inSql) = inMem
    <3> HIDE DEF found, new
    <3> QED
      BY <2>1 DEF Present
  <2>3. inMem = View(inSql) /\ Sound(table, inSql)
    BY <1>2, <2>1, <2>2
  <2>4. CASE found = {}
    <3>1. Call(Wrap(Answer(sql, {})), Refusal(Present(sql), "ErrNotFound"), FALSE)
      <4>1. (sql \ {}) \cup {} = sql /\ {By(c) : c \in {}} = {}
        OBVIOUS
      <4> QED
        BY <1>1, <1>14, <2>4, <4>1 DEF CustomerSetActiveUntil, SqlSetCustomerActiveUntil,
             MemCustomerSetActiveUntil, Call
    <3> QED
      BY <3>1 DEF Call, DoubleInv
  <2>5. CASE found # {}
    <3>1. Call(Wrap(Answer(inSql, {})), Answer(inMem, {}), TRUE)
      BY <1>1, <1>14, <2>5 DEF CustomerSetActiveUntil, SqlSetCustomerActiveUntil,
           MemCustomerSetActiveUntil, Call
    <3> HIDE DEF inSql, inMem, Answer, Adapt
    <3> QED
      BY <2>3, <3>1, AnswersAgree DEF Wrap
  <2> QED
    BY <2>4, <2>5
<1> QED
  BY <1>3, <1>4, <1>5, <1>6, <1>7, <1>8, <1>9, <1>10, <1>11, <1>12, <1>13, <1>14 DEF CustomerCalls

-----------------------------------------------------------------------------
(* What the access servers use.                                             *)

\* Calls on the RADIUS rows: they differ when a user has the name of a group with replies.
LEMMA RadiusKept ==
  ASSUME DoubleInv, RadiusCalls, ~parted
  PROVE  DoubleInv'
<1>0. \A r \in StoredRadius : "deleted" \notin DOMAIN r
  BY DEF StoredRadius
<1>1. table = "radius rows" /\ sql \subseteq StoredRadius /\ mem = sql
  BY <1>0, PlainView DEF RadiusCalls, DoubleInv, Sound
<1>2. \A rows : rows \subseteq StoredRadius => View(rows) = rows /\ Sound(table, rows)
  BY <1>0, <1>1, PlainView DEF Sound
<1> USE DEF Answer, Refusal, Adapt, Wrap, Returning, Silent, One, Insert, InsertUnless, ChangeOne,
     Change, Delete, NoRows, Unique, Reference
<1>3. ASSUME NEW t \in Owners, NEW n \in Keys, NEW k \in Keys, SetUserPassword(t, n, k)
      PROVE  DoubleInv'
  <2>1. Without(sql, {"check"}, t, n) \subseteq StoredRadius
    BY <1>1 DEF Without
  <2>2. \A y \in Keys : RadiusRow("check", t, n, y) \in StoredRadius
    BY DEF RadiusRow, StoredRadius
  <2>3. Without(sql, {"check"}, t, n) \cup {RadiusRow("check", t, n, y) : y \in {k}}
          \subseteq StoredRadius
    BY <2>1, <2>2
  <2> QED
    BY <1>1, <1>2, <1>3, <2>3 DEF SetUserPassword, SqlSetUserPassword, MemSetUserPassword,
         Replaced, Call, DoubleInv
<1>4. ASSUME NEW t \in Owners, NEW n \in Keys, NEW k \in Keys, SetUserGroup(t, n, k)
      PROVE  DoubleInv'
  <2>1. Without(sql, {"usergroup"}, t, n) \subseteq StoredRadius
    BY <1>1 DEF Without
  <2>2. \A y \in Keys : RadiusRow("usergroup", t, n, y) \in StoredRadius
    BY DEF RadiusRow, StoredRadius
  <2>3. Without(sql, {"usergroup"}, t, n) \cup {RadiusRow("usergroup", t, n, y) : y \in {k}}
          \subseteq StoredRadius
    BY <2>1, <2>2
  <2> QED
    BY <1>1, <1>2, <1>4, <2>3 DEF SetUserGroup, SqlSetUserGroup, MemSetUserGroup, Replaced, Call,
         DoubleInv
<1>5. ASSUME NEW t \in Owners, NEW n \in Keys, NEW as \in SUBSET Keys, RadiusSetGroupReply(t, n, as)
      PROVE  DoubleInv'
  <2>1. Without(sql, {"groupreply"}, t, n) \subseteq StoredRadius
    BY <1>1 DEF Without
  <2>2. \A y \in Keys : RadiusRow("groupreply", t, n, y) \in StoredRadius
    BY DEF RadiusRow, StoredRadius
  <2>3. Without(sql, {"groupreply"}, t, n) \cup {RadiusRow("groupreply", t, n, y) : y \in as}
          \subseteq StoredRadius
    BY <2>1, <2>2
  <2> QED
    BY <1>1, <1>2, <1>5, <2>3 DEF RadiusSetGroupReply, SqlSetGroupReply, MemSetGroupReply,
         Replaced, Call, DoubleInv
<1>6. ASSUME NEW t \in Owners, NEW n \in Keys, UserGroups(t, n) PROVE DoubleInv'
  BY <1>1, <1>2, <1>6 DEF UserGroups, SqlListRadUserGroups, MemUserGroups, Call, DoubleInv
<1>7. ASSUME NEW t \in Owners, NEW n \in Keys, UserCheck(t, n) PROVE DoubleInv'
  BY <1>1, <1>2, <1>7 DEF UserCheck, SqlListRadCheckUser, MemUserCheck, Call, DoubleInv
<1>8. ASSUME NEW t \in Owners, NEW n \in Keys, UserReply(t, n) PROVE DoubleInv'
  <2>1. RowsOf(sql, "reply", t, n) = {}
    BY <1>1 DEF RowsOf, StoredRadius
  <2> QED
    BY <1>1, <1>2, <1>8, <2>1 DEF UserReply, SqlListRadReplyUser, MemUserReply, Call, DoubleInv
<1>9. ASSUME NEW t \in Owners, NEW n \in Keys, GroupReply(t, n) PROVE DoubleInv'
  BY <1>1, <1>2, <1>9 DEF GroupReply, SqlListRadGroupReplyForGroup, MemGroupReply, Call, DoubleInv
<1>10. ASSUME NEW t \in Owners, NEW n \in Keys, RadiusClearUser(t, n) PROVE DoubleInv'
  <2> DEFINE inSql == Without(sql, {"check", "reply", "usergroup"}, t, n)
             inMem == Without(sql, {"check", "usergroup", "groupreply"}, t, n)
  <2>1. SqlClearUser(t, n) = Answer(inSql, {}) /\ MemClearUser(t, n) = Answer(inMem, {})
    BY <1>1 DEF SqlClearUser, MemClearUser
  <2>2. inSql \subseteq StoredRadius
    BY <1>1 DEF Without
  <2>3. RowsOf(sql, "reply", t, n) = {}
    BY <1>1 DEF RowsOf, StoredRadius
  <2>4. CASE RowsOf(sql, "groupreply", t, n) = {}
    <3>1. inSql = inMem
      BY <2>3, <2>4 DEF Without
    <3>2. Call(Wrap(Answer(inSql, {})), Answer(inMem, {}), TRUE)
      BY <1>10, <2>1, <2>4 DEF RadiusClearUser, Call
    <3> HIDE DEF inSql, inMem
    <3> QED
      BY <1>2, <2>2, <3>1, <3>2, AnswersAgree
  <2>5. CASE RowsOf(sql, "groupreply", t, n) # {}
    <3>1. PICK r \in RowsOf(sql, "groupreply", t, n) : TRUE
      BY <2>5
    <3>2. r \in inSql /\ r \notin inMem
      BY <3>1 DEF RowsOf, Without
    <3>3. Call(Wrap(Answer(inSql, {})), Answer(inMem, {}), FALSE)
      BY <1>10, <2>1, <2>5 DEF RadiusClearUser, Call
    <3> HIDE DEF inSql, inMem
    <3>4. inMem # View(inSql)
      BY <1>2, <2>2, <3>2
    <3> QED
      BY <3>3, <3>4, AnswersDiffer
  <2> QED
    BY <2>4, <2>5
<1>11. ASSUME NEW t \in Owners, NEW n \in Keys PROVE SomeKey \in Keys
  BY <1>11 DEF SomeKey
<1> QED
  BY <1>3, <1>4, <1>5, <1>6, <1>7, <1>8, <1>9, <1>10, <1>11 DEF RadiusCalls

\* Calls on access servers: while no two tenants have one address, one row has it.
LEMMA NasKept ==
  ASSUME DoubleInv, NasCalls, ~parted
  PROVE  DoubleInv'
<1>1. table = "nas" /\ StoredNas(sql) /\ mem = sql
  BY PlainView DEF NasCalls, DoubleInv, Sound, StoredNas, NasRows
<1>2. \A rows : StoredNas(rows) => View(rows) = rows /\ Sound(table, rows)
  BY <1>1, PlainView DEF Sound, StoredNas, NasRows
<1> USE DEF Answer, Refusal, Adapt, Wrap, Returning, Silent, One, Insert, InsertUnless, ChangeOne,
     Change, Delete, NoRows, Unique, Reference
<1>3. ASSUME NEW x \in NasRows, CreateNas(x) PROVE DoubleInv'
  <2>1. CASE \E y \in sql : y.nasname = x.nasname
    <3>1. PICK y \in sql : y.nasname = x.nasname
      BY <2>1
    <3>2. \A z \in sql : z.nasname = x.nasname => z = y
      BY <1>1, <3>1 DEF StoredNas
    <3>3. CASE y.tenant = x.tenant
      BY <1>1, <1>2, <1>3, <3>1, <3>2, <3>3 DEF CreateNas, SqlCreateNas, MemCreateNas, Call,
           DoubleInv, Owned
    <3>4. CASE y.tenant # x.tenant
      BY <1>1, <1>2, <1>3, <3>1, <3>2, <3>4 DEF CreateNas, SqlCreateNas, MemCreateNas, Call,
           DoubleInv, Owned
    <3> QED
      BY <3>3, <3>4
  <2>2. CASE \A y \in sql : y.nasname # x.nasname
    <3>1. StoredNas(sql \cup {x})
      BY <1>1, <2>2 DEF StoredNas
    <3> QED
      BY <1>1, <1>2, <1>3, <2>2, <3>1 DEF CreateNas, SqlCreateNas, MemCreateNas, Call, DoubleInv,
           Owned
  <2> QED
    BY <2>1, <2>2
<1>4. ASSUME NEW k \in Keys, NasByIP(k) PROVE DoubleInv'
  <2> DEFINE found == {y \in sql : y.nasname = k}
  <2>1. CASE found = {}
    BY <1>1, <1>2, <1>4, <2>1 DEF NasByIP, SqlGetNasByIP, MemNasByIP, Call, DoubleInv
  <2>2. CASE found # {}
    <3>1. found = {CHOOSE y \in found : TRUE}
      BY <1>1, <2>2 DEF StoredNas
    <3>2. SqlGetNasByIP(k) = Answer(sql, found)
      BY <2>2, <3>1 DEF SqlGetNasByIP
    <3>3. MemNasByIP(k) = Answer(sql, found)
      BY <1>1, <2>2 DEF MemNasByIP
    <3>4. Call(Adapt(Answer(sql, found), [no_rows |-> "ErrNasNotFound"]), Answer(sql, found), TRUE)
      BY <1>4, <3>2, <3>3 DEF NasByIP
    <3> HIDE DEF found
    <3> QED
      BY <1>1, <1>2, <3>4, AnswersAgree
  <2> QED
    BY <2>1, <2>2
<1>5. ASSUME NEW t \in Owners, ListNas(t) PROVE DoubleInv'
  BY <1>1, <1>2, <1>5 DEF ListNas, SqlListNasByTenant, MemListNas, Call, DoubleInv
<1> QED
  BY <1>3, <1>4, <1>5 DEF NasCalls

\* Calls on the log of authentications.
LEMMA PostAuthKept ==
  ASSUME DoubleInv, PostAuthCalls, ~parted
  PROVE  DoubleInv'
<1>1. table = "radpostauth" /\ sql \subseteq PostAuthRows /\ mem = sql
  BY PlainView DEF PostAuthCalls, DoubleInv, Sound, PostAuthRows
<1>2. \A rows : rows \subseteq PostAuthRows => View(rows) = rows /\ Sound(table, rows)
  BY <1>1, PlainView DEF Sound, PostAuthRows
<1> USE DEF Answer, Refusal, Adapt, Wrap, Returning, Silent, One, Insert, InsertUnless, ChangeOne,
     Change, Delete, NoRows, Unique, Reference
<1>3. ASSUME NEW x \in PostAuthRows, InsertPostAuth(x) PROVE DoubleInv'
  BY <1>1, <1>2, <1>3 DEF InsertPostAuth, SqlInsertRadPostAuth, MemInsertPostAuth, Call, DoubleInv
<1> QED
  BY <1>3 DEF PostAuthCalls

\* Calls on sessions: until a start in another second a session has one row, and until a
\* late Stop a closed row has the counters of its own Stop.
LEMMA SessionsKept ==
  ASSUME DoubleInv, SessionCalls, ~parted
  PROVE  DoubleInv'
<1>0. \A rows : StoredSessions(rows) => View(rows) = rows
  <2>1. \A r \in KeptSessions : "deleted" \notin DOMAIN r
    BY DEF KeptSessions
  <2> QED
    BY <2>1, PlainView DEF StoredSessions
<1>1. table = "radacct" /\ StoredSessions(sql) /\ mem = sql
  <2>1. table = "radacct"
    BY DEF SessionCalls
  <2>2. mem = View(sql) /\ Sound(table, sql)
    BY DEF DoubleInv
  <2>3. StoredSessions(sql)
    BY <2>1, <2>2 DEF Sound
  <2> QED
    BY <1>0, <2>1, <2>2, <2>3
<1>2. \A rows : StoredSessions(rows) => View(rows) = rows /\ Sound(table, rows)
  BY <1>0, <1>1 DEF Sound
<1> USE DEF Answer, Refusal, Adapt, Wrap, Returning, Silent, One, Insert, InsertUnless, ChangeOne,
     Change, Delete, NoRows, Unique, Reference
<1>3. ASSUME NEW x \in SessionRows, AcctStart(x) PROVE DoubleInv'
  <2> DEFINE held == OfSession(sql, x.uid)
             now == sql \cup {x}
             Same(s) == s.start = x.start
  <2>1. \A s \in held : s \in sql /\ s.uid = x.uid
    BY DEF OfSession
  <2>2. CASE held = {}
    <3>1. StoredSessions(now)
      BY <1>1, <2>2 DEF StoredSessions, KeptSessions, SessionRows, OfSession
    <3>2. now = View(now) /\ Sound(table, now)
      BY <1>2, <3>1
    <3>3. Call(Wrap(Answer(now, {})), Answer(now, {}), TRUE)
      BY <1>1, <1>3, <2>2 DEF AcctStart, SqlInsertAcctStart, MemAcctStart
    <3> HIDE DEF now, Answer, Adapt
    <3> QED
      BY <3>2, <3>3, AnswersAgree DEF Wrap
  <2>3. CASE held # {} /\ \A s \in held : Same(s)
    <3>1. Call(Wrap(Answer(sql, {})), Answer(sql, {}), TRUE)
      BY <1>1, <1>3, <2>3 DEF AcctStart, SqlInsertAcctStart, MemAcctStart
    <3>2. sql = View(sql) /\ Sound(table, sql)
      BY <1>1, <1>2
    <3> HIDE DEF Answer, Adapt
    <3> QED
      BY <3>1, <3>2, AnswersAgree DEF Wrap
  <2>4. CASE \E s \in held : ~Same(s)
    <3>1. \A s \in held : ~Same(s)
      BY <1>1, <2>1, <2>4 DEF StoredSessions
    <3>2. x \notin sql
      BY <3>1 DEF OfSession
    <3>3. now = View(now)
      <4>1. now \subseteq KeptSessions
        BY <1>1 DEF StoredSessions, KeptSessions, SessionRows
      <4>2. \A s \in KeptSessions : "deleted" \notin DOMAIN s
        BY DEF KeptSessions
      <4> QED
        BY <4>1, <4>2, PlainView
    <3>4. Call(Wrap(Answer(now, {})), Answer(sql, {}), FALSE)
      BY <1>1, <1>3, <2>4, <3>1 DEF AcctStart, SqlInsertAcctStart, MemAcctStart, Call
    <3>5. sql # View(now)
      BY <3>2, <3>3
    <3> HIDE DEF now, Answer, Adapt
    <3> QED
      BY <3>4, <3>5, AnswersDiffer DEF Wrap
  <2> QED
    BY <2>2, <2>3, <2>4
<1>4. ASSUME NEW uid \in RowIds, NEW n \in {1, 2}, AcctStop(uid, n) PROVE DoubleInv'
  <2> DEFINE By(s) == [s EXCEPT !.octets = n, !.closed = TRUE]
             open  == {s \in OfSession(sql, uid) : ~s.closed}
             all   == OfSession(sql, uid)
             inSql == (sql \ open) \cup {By(s) : s \in open}
             inMem == (sql \ all) \cup {By(s) : s \in all}
  <2>5. ASSUME NEW s \in sql PROVE By(s).uid = s.uid /\ By(s) \in KeptSessions
    BY <1>1 DEF StoredSessions, KeptSessions
  <2>1. StoredSessions(inSql)
    <3> HIDE DEF By
    <3>1. \A y \in inSql :
            \E s \in sql : s.uid = y.uid /\ y = IF s \in open THEN By(s) ELSE s
      BY <2>5 DEF OfSession
    <3>2. \A x, y \in inSql : x.uid = y.uid => x = y
      BY <1>1, <3>1 DEF StoredSessions
    <3> QED
      BY <1>1, <2>5, <3>2 DEF StoredSessions, OfSession
  <2>2. inSql = View(inSql) /\ Sound(table, inSql)
    BY <1>2, <2>1
  <2>3. CASE \A s \in all : s.closed => s.octets = n
    <3>1. \A s \in all : s.closed => By(s) = s
      BY <1>1, <2>3 DEF StoredSessions, KeptSessions, OfSession
    <3>2. inMem = inSql
      <4> HIDE DEF By
      <4>1. ASSUME NEW y \in inSql PROVE y \in inMem
        BY <3>1, <4>1 DEF OfSession
      <4>2. ASSUME NEW y \in inMem PROVE y \in inSql
        BY <3>1, <4>2 DEF OfSession
      <4> QED
        BY <4>1, <4>2
    <3>3. Call(Wrap(Answer(inSql, {})), Answer(inMem, {}), TRUE)
      BY <1>1, <1>4, <2>3 DEF AcctStop, SqlUpdateAcctStop, MemAcctStop, Call
    <3> HIDE DEF inSql, inMem, Answer, Adapt
    <3> QED
      BY <2>2, <3>2, <3>3, AnswersAgree DEF Wrap
  <2>4. CASE \E s \in all : s.closed /\ s.octets # n
    <3>1. PICK s \in all : s.closed /\ s.octets # n
      BY <2>4
    <3>2. \A r \in all : By(r).octets = n
      BY <1>1 DEF StoredSessions, KeptSessions, OfSession
    <3>3. s \in inSql /\ s \notin inMem
      BY <3>1, <3>2 DEF OfSession
    <3>4. inMem # View(inSql)
      BY <2>2, <3>3
    <3>5. Call(Wrap(Answer(inSql, {})), Answer(inMem, {}), FALSE)
      BY <1>1, <1>4, <2>4 DEF AcctStop, SqlUpdateAcctStop, MemAcctStop, Call
    <3> HIDE DEF inSql, inMem, Answer, Adapt
    <3> QED
      BY <3>4, <3>5, AnswersDiffer DEF Wrap
  <2> QED
    BY <2>3, <2>4
<1>5. ASSUME NEW uid \in RowIds, NEW ip \in Keys \cup {Nothing}, AcctInterim(uid, ip)
      PROVE  DoubleInv'
  <2> DEFINE open == {s \in OfSession(sql, uid) : ~s.closed}
             now  == (sql \ open) \cup {Counted(s, ip) : s \in open}
  <2>1. ASSUME NEW s \in sql
        PROVE  /\ Counted(s, ip).uid = s.uid
               /\ Counted(s, ip) \in KeptSessions
    BY <1>1 DEF StoredSessions, KeptSessions, Counted
  <2>2. StoredSessions(now)
    <3>1. \A y \in now :
            \E s \in sql : s.uid = y.uid /\ y = IF s \in open THEN Counted(s, ip) ELSE s
      BY <2>1 DEF OfSession
    <3>2. \A x, y \in now : x.uid = y.uid => x = y
      BY <1>1, <3>1 DEF StoredSessions
    <3> QED
      BY <1>1, <2>1, <3>2 DEF StoredSessions, OfSession
  <2>3. now = View(now) /\ Sound(table, now)
    BY <1>2, <2>2
  <2>4. Call(Wrap(Answer(now, {})), Answer(now, {}), TRUE)
    BY <1>1, <1>5 DEF AcctInterim, SqlUpdateAcctInterim, MemAcctInterim
  <2> HIDE DEF now, Answer, Adapt
  <2> QED
    BY <2>3, <2>4, AnswersAgree DEF Wrap
<1>6. ASSUME NEW t \in Owners, ActiveSessions(t, "u") PROVE DoubleInv'
  BY <1>1, <1>2, <1>6 DEF ActiveSessions, SqlListActiveSessions, MemActiveSessions, Call, DoubleInv
<1> QED
  BY <1>3, <1>4, <1>5, <1>6 DEF SessionCalls

-----------------------------------------------------------------------------
(* What is billed.                                                          *)

\* Calls on invoices: marking what is overdue differs on the day an invoice is due, and
\* only then.
LEMMA InvoicesKept ==
  ASSUME DoubleInv, InvoiceCalls, ~parted
  PROVE  DoubleInv'
<1>0. \A rows : rows \subseteq StoredInvoices => View(rows) = rows
  <2>1. \A r \in StoredInvoices : "deleted" \notin DOMAIN r
    BY DEF StoredInvoices
  <2> QED
    BY <2>1, PlainView
<1>1. table = "invoices" /\ sql \subseteq StoredInvoices /\ mem = sql
  <2>1. table = "invoices"
    BY DEF InvoiceCalls
  <2>2. mem = View(sql) /\ Sound(table, sql)
    BY DEF DoubleInv
  <2>3. sql \subseteq StoredInvoices
    BY <2>1, <2>2 DEF Sound
  <2> QED
    BY <1>0, <2>1, <2>2, <2>3
<1>2. \A rows : rows \subseteq StoredInvoices => View(rows) = rows /\ Sound(table, rows)
  BY <1>0, <1>1 DEF Sound
<1> USE DEF Answer, Refusal, Adapt, Wrap, Returning, Silent, One, Insert, InsertUnless, ChangeOne,
     Change, Delete, NoRows, Unique, Reference
<1>3. ASSUME MarkOverdue PROVE DoubleInv'
  <2> DEFINE By(i) == [i EXCEPT !.status = "overdue"]
             late  == {i \in sql : i.status = "unpaid" /\ i.due \in {"before today"}}
             today == {i \in sql : i.status = "unpaid" /\ i.due \in {"before today", "today"}}
             inSql == (sql \ late) \cup {By(i) : i \in late}
             inMem == (sql \ today) \cup {By(i) : i \in today}
  <2>1. inSql \subseteq StoredInvoices
    BY <1>1 DEF StoredInvoices
  <2>2. View(inSql) = inSql /\ Sound(table, inSql)
    BY <1>2, <2>1
  <2>3. /\ SqlMarkOverdueInvoices = Answer(inSql, {Cardinality(late)})
        /\ MemMarkOverdue = Answer(inMem, {Cardinality(today)})
    BY <1>1 DEF SqlMarkOverdueInvoices, MemMarkOverdue, Overdue, WithStatus
  <2>4. CASE \A i \in sql : i.status = "unpaid" => i.due # "today"
    <3>1. late = today
      BY <2>4
    <3> DEFINE value == {Cardinality(late)}
    <3>2. Call(Wrap(Answer(inSql, value)), Answer(inSql, value), TRUE)
      BY <1>3, <2>3, <2>4, <3>1 DEF MarkOverdue, Call
    <3> HIDE DEF inSql, value, Answer, Adapt
    <3> QED
      BY <2>2, <3>2, AnswersAgree DEF Wrap
  <2>5. CASE \E i \in sql : i.status = "unpaid" /\ i.due = "today"
    <3>1. PICK i \in sql : i.status = "unpaid" /\ i.due = "today"
      BY <2>5
    <3>2. i \in inSql
      BY <3>1
    <3>3. \A j \in today : By(j).status = "overdue"
      BY <1>1 DEF StoredInvoices
    <3>4. i \notin inMem
      BY <3>1, <3>3
    <3>5. inMem # View(inSql)
      BY <2>2, <3>2, <3>4
    <3> DEFINE v == {Cardinality(late)}
               u == {Cardinality(today)}
    <3>6. Call(Wrap(Answer(inSql, v)), Answer(inMem, u), FALSE)
      BY <1>3, <2>3, <2>5 DEF MarkOverdue, Call
    <3> HIDE DEF inSql, inMem, u, v, Answer, Adapt
    <3> QED
      BY <3>5, <3>6, AnswersDiffer DEF Wrap
  <2> QED
    BY <2>4, <2>5
<1>4. ASSUME NEW x \in InvoiceRows, InvoiceCreate(x) PROVE DoubleInv'
  <2> DEFINE now == sql \cup {x}
  <2>1. now \subseteq StoredInvoices
    BY <1>1 DEF InvoiceRows, StoredInvoices
  <2>2. View(now) = now /\ Sound(table, now)
    BY <1>2, <2>1
  <2>3. CASE \E i \in sql : SamePeriod(i, x)
    BY <1>1, <1>2, <1>4, <2>3 DEF InvoiceCreate, SqlCreateInvoice, MemCreateInvoice, Call, DoubleInv
  <2>4. CASE ~(\E i \in sql : SamePeriod(i, x)) /\ ~ \E i \in sql : SameInvoiceNo(i, x)
    <3>1. Call(Adapt(Answer(now, {x}), [no_rows |-> "ErrInvoiceExists"]), Answer(now, {x}), TRUE)
      BY <1>1, <1>4, <2>4 DEF InvoiceCreate, SqlCreateInvoice, MemCreateInvoice, Call
    <3> HIDE DEF now, Answer, Adapt
    <3> QED
      BY <2>2, <3>1, AnswersAgree
  <2>5. CASE ~(\E i \in sql : SamePeriod(i, x)) /\ \E i \in sql : SameInvoiceNo(i, x)
    <3> DEFINE names == [no_rows |-> "ErrInvoiceExists"]
    <3>1. Call(Adapt(Refusal(sql, "unique"), names), Answer(now, {x}), FALSE)
      BY <1>1, <1>4, <2>5 DEF InvoiceCreate, SqlCreateInvoice, MemCreateInvoice, Call
    <3>2. "unique" \notin DOMAIN names
      OBVIOUS
    <3> HIDE DEF now, names, Answer, Refusal, Adapt
    <3> QED
      BY <3>1, <3>2, OnlyOneRefuses
  <2> QED
    BY <2>3, <2>4, <2>5
<1>5. ASSUME NEW t \in Owners, ListInvoices(t) PROVE DoubleInv'
  BY <1>1, <1>2, <1>5 DEF ListInvoices, SqlListInvoicesByTenant, MemListInvoices, Call, DoubleInv
<1>6. ASSUME NEW t \in Owners, Outstanding(t) PROVE DoubleInv'
  BY <1>1, <1>2, <1>6 DEF Outstanding, SqlSumOutstanding, MemOutstanding, Call, DoubleInv
<1>7. ASSUME NEW t \in Owners, NEW c \in Keys, ListInvoicesByCustomer(t, c) PROVE DoubleInv'
  BY <1>1, <1>2, <1>7 DEF ListInvoicesByCustomer, SqlListInvoicesByCustomer,
       MemListInvoicesByCustomer, Call, DoubleInv
<1>8. ASSUME NEW t \in Owners, NEW id \in RowIds, GetInvoice(t, id) PROVE DoubleInv'
  BY <1>1, <1>2, <1>8 DEF GetInvoice, SqlGetInvoiceByID, MemGetInvoice, Call, DoubleInv
<1>9. ASSUME NEW t \in Owners, NEW id \in RowIds, MarkInvoicePaid(t, id) PROVE DoubleInv'
  <2> DEFINE found == InvoiceIn(sql, t, id)
             now == (sql \ found) \cup {[i EXCEPT !.status = "paid"] : i \in found}
  <2>1. now \subseteq StoredInvoices
    <3>1. \A i \in sql : [i EXCEPT !.status = "paid"] \in StoredInvoices
      BY <1>1 DEF StoredInvoices, InvoiceStatuses
    <3> QED
      BY <1>1, <3>1 DEF InvoiceIn, ById, Owned
  <2>2. View(now) = now /\ Sound(table, now)
    BY <1>2, <2>1
  <2>3. Call(Wrap(Answer(now, {})), Answer(now, {}), TRUE)
    BY <1>1, <1>9 DEF MarkInvoicePaid, SqlMarkInvoicePaid, MemMarkInvoicePaid, WithStatus
  <2> HIDE DEF now, Answer, Adapt
  <2> QED
    BY <2>2, <2>3, AnswersAgree DEF Wrap
<1>10. ASSUME NEW t \in Owners, NEW id \in RowIds, NEW s \in InvoiceStatuses,
              SetInvoiceStatus(t, id, s)
       PROVE  DoubleInv'
  <2> DEFINE found == InvoiceIn(sql, t, id)
             now == (sql \ found) \cup {[i EXCEPT !.status = s] : i \in found}
  <2>1. now \subseteq StoredInvoices
    <3>1. \A i \in sql : [i EXCEPT !.status = s] \in StoredInvoices
      BY <1>1 DEF StoredInvoices, InvoiceStatuses
    <3> QED
      BY <1>1, <3>1 DEF InvoiceIn, ById, Owned
  <2>2. View(now) = now /\ Sound(table, now)
    BY <1>2, <2>1
  <2>3. Call(Wrap(Answer(now, {})), Answer(now, {}), TRUE)
    BY <1>1, <1>10 DEF SetInvoiceStatus, SqlSetInvoiceStatus, MemSetInvoiceStatus, WithStatus
  <2> HIDE DEF now, Answer, Adapt
  <2> QED
    BY <2>2, <2>3, AnswersAgree DEF Wrap
<1> QED
  BY <1>3, <1>4, <1>5, <1>6, <1>7, <1>8, <1>9, <1>10 DEF InvoiceCalls

\* Calls on the items of invoices.
LEMMA ItemsKept ==
  ASSUME DoubleInv, ItemCalls, ~parted
  PROVE  DoubleInv'
<1>1. table = "invoice_items" /\ sql \subseteq ItemRows /\ mem = sql
  BY PlainView DEF ItemCalls, DoubleInv, Sound, ItemRows
<1>2. \A rows : rows \subseteq ItemRows => View(rows) = rows /\ Sound(table, rows)
  BY <1>1, PlainView DEF Sound, ItemRows
<1> USE DEF Answer, Refusal, Adapt, Wrap, Returning, Silent, One, Insert, InsertUnless, ChangeOne,
     Change, Delete, NoRows, Unique, Reference
<1>3. ASSUME NEW x \in ItemRows, AddInvoiceItem(x) PROVE DoubleInv'
  BY <1>1, <1>2, <1>3 DEF AddInvoiceItem, SqlInsertInvoiceItem, MemAddInvoiceItem, Call, DoubleInv
<1>4. ASSUME NEW i \in RowIds, InvoiceItems(i) PROVE DoubleInv'
  BY <1>1, <1>2, <1>4 DEF InvoiceItems, SqlListInvoiceItems, MemInvoiceItems, Call, DoubleInv
<1> QED
  BY <1>3, <1>4 DEF ItemCalls

\* Calls on payments: settling what is settled already leaves it, as the double rewrites
\* it to what it was.
LEMMA PaymentsKept ==
  ASSUME DoubleInv, PaymentCalls, ~parted
  PROVE  DoubleInv'
<1>0. \A rows : rows \subseteq StoredPayments => View(rows) = rows
  <2>1. \A r \in StoredPayments : "deleted" \notin DOMAIN r
    BY DEF StoredPayments
  <2> QED
    BY <2>1, PlainView
<1>1. table = "payments" /\ sql \subseteq StoredPayments /\ mem = sql
  <2>1. table = "payments"
    BY DEF PaymentCalls
  <2>2. mem = View(sql) /\ Sound(table, sql)
    BY DEF DoubleInv
  <2>3. sql \subseteq StoredPayments
    BY <2>1, <2>2 DEF Sound
  <2> QED
    BY <1>0, <2>1, <2>2, <2>3
<1>2. \A rows : rows \subseteq StoredPayments => View(rows) = rows /\ Sound(table, rows)
  BY <1>0, <1>1 DEF Sound
<1> USE DEF Answer, Refusal, Adapt, Wrap, Returning, Silent, One, Insert, InsertUnless, ChangeOne,
     Change, Delete, NoRows, Unique, Reference
<1>3. ASSUME ListPendingGatewayPayments PROVE DoubleInv'
  BY <1>1, <1>2, <1>3 DEF ListPendingGatewayPayments, SqlListPendingGatewayPayments,
       MemListPendingGatewayPayments, Call, DoubleInv
<1>4. ASSUME NEW x \in PaymentRows, PaymentCreate(x) PROVE DoubleInv'
  <2> DEFINE now == sql \cup {x}
             names == [no_rows |-> "ErrPaymentNotUnique"]
             taken == \E p \in sql : p.key = x.key
             known == \E p \in sql : x.ref # Nothing /\ p.ref = x.ref
  <2>1. now \subseteq StoredPayments
    BY <1>1 DEF PaymentRows, StoredPayments
  <2>2. View(now) = now /\ Sound(table, now)
    BY <1>2, <2>1
  <2>3. CASE taken
    <3>1. Call(Adapt(Refusal(sql, "no_rows"), names), Refusal(sql, "ErrPaymentNotUnique"), TRUE)
      BY <1>1, <1>4, <2>3 DEF PaymentCreate, SqlCreatePayment, MemCreatePayment
    <3> QED
      BY <1>1, <1>2, <3>1 DEF Call, DoubleInv
  <2>4. CASE ~taken /\ ~known
    <3>1. Call(Adapt(Answer(now, {x}), names), Answer(now, {x}), TRUE)
      BY <1>1, <1>4, <2>4 DEF PaymentCreate, SqlCreatePayment, MemCreatePayment
    <3> HIDE DEF now, names, Answer, Adapt
    <3> QED
      BY <2>2, <3>1, AnswersAgree
  <2>5. CASE ~taken /\ known
    <3>1. Call(Adapt(Refusal(sql, "unique"), names), Answer(now, {x}), FALSE)
      BY <1>1, <1>4, <2>5 DEF PaymentCreate, SqlCreatePayment, MemCreatePayment
    <3>2. "unique" \notin DOMAIN names
      OBVIOUS
    <3> HIDE DEF now, names, Answer, Refusal, Adapt
    <3> QED
      BY <3>1, <3>2, OnlyOneRefuses
  <2> QED
    BY <2>3, <2>4, <2>5
<1>5. ASSUME NEW t \in Owners, ListPayments(t) PROVE DoubleInv'
  BY <1>1, <1>2, <1>5 DEF ListPayments, SqlListPaymentsByTenant, MemListPayments, Call, DoubleInv
<1>6. ASSUME NEW r \in Keys \cup {Nothing}, GetPaymentByRef(r) PROVE DoubleInv'
  <2> DEFINE found == {p \in sql : p.ref = r}
             names == [no_rows |-> "ErrPaymentNotFound"]
  <2>1. CASE found = {}
    <3>1. /\ {p \in sql : r # Nothing /\ p.ref = r} = {}
          /\ (r # Nothing \/ \A p \in sql : p.ref # Nothing)
      BY <2>1
    <3>2. Call(Adapt(Refusal(sql, "no_rows"), names), Refusal(sql, "ErrPaymentNotFound"), TRUE)
      BY <1>1, <1>6, <2>1, <3>1 DEF GetPaymentByRef, SqlGetPaymentByGatewayRef, MemGetPaymentByRef
    <3> QED
      BY <1>1, <1>2, <3>2 DEF Call, DoubleInv
  <2>2. CASE found # {} /\ r # Nothing
    <3>1. {p \in sql : r # Nothing /\ p.ref = r} = found
      BY <2>2
    <3>2. Call(Adapt(Answer(sql, found), names), Answer(sql, found), TRUE)
      BY <1>1, <1>6, <2>2, <3>1 DEF GetPaymentByRef, SqlGetPaymentByGatewayRef, MemGetPaymentByRef
    <3>3. sql = View(sql) /\ Sound(table, sql)
      BY <1>1, <1>2
    <3> HIDE DEF found, names, Answer, Adapt
    <3> QED
      BY <3>2, <3>3, AnswersAgree
  <2>3. CASE found # {} /\ r = Nothing
    <3>1. /\ {p \in sql : r # Nothing /\ p.ref = r} = {}
          /\ ~(r # Nothing \/ \A p \in sql : p.ref # Nothing)
      BY <2>3
    <3>2. Call(Adapt(Refusal(sql, "no_rows"), names), Answer(sql, found), FALSE)
      BY <1>1, <1>6, <2>3, <3>1 DEF GetPaymentByRef, SqlGetPaymentByGatewayRef, MemGetPaymentByRef,
           Call
    <3>3. names["no_rows"] # ""
      OBVIOUS
    <3> HIDE DEF found, names, Answer, Refusal, Adapt
    <3> QED
      BY <3>2, <3>3, OnlyOneRefuses
  <2> QED
    BY <2>1, <2>2, <2>3
<1>7. ASSUME NEW id \in RowIds, SettlePayment(id) PROVE DoubleInv'
  <2> DEFINE By(p) == [p EXCEPT !.status = "settled"]
             open  == {p \in ById(sql, id) : p.status # "settled"}
             all   == ById(sql, id)
             inSql == (sql \ open) \cup {By(p) : p \in open}
             inMem == (sql \ all) \cup {By(p) : p \in all}
  <2>1. \A p \in sql : By(p) \in StoredPayments /\ (p.status = "settled" => By(p) = p)
    BY <1>1 DEF StoredPayments
  <2>2. inSql \subseteq StoredPayments /\ inMem = inSql
    <3> HIDE DEF By
    <3>1. ASSUME NEW p \in inSql PROVE p \in inMem
      BY <2>1, <3>1 DEF ById
    <3>2. ASSUME NEW p \in inMem PROVE p \in inSql
      BY <2>1, <3>2 DEF ById
    <3> QED
      BY <1>1, <2>1, <3>1, <3>2 DEF ById
  <2>3. View(inSql) = inSql /\ Sound(table, inSql)
    BY <1>2, <2>2
  <2>4. Call(Wrap(Answer(inSql, {})), Answer(inMem, {}), TRUE)
    BY <1>1, <1>7 DEF SettlePayment, SqlSettlePayment, MemSettlePayment, WithStatus
  <2> HIDE DEF inSql, inMem, Answer, Adapt
  <2> QED
    BY <2>2, <2>3, <2>4, AnswersAgree DEF Wrap
<1>8. ASSUME NEW id \in RowIds, NEW s \in {"pending", "settled", "failed"}, MarkPaymentStatus(id, s)
      PROVE  DoubleInv'
  <2> DEFINE now == (sql \ ById(sql, id)) \cup {[p EXCEPT !.status = s] : p \in ById(sql, id)}
  <2>1. now \subseteq StoredPayments
    <3>1. \A p \in sql : [p EXCEPT !.status = s] \in StoredPayments
      BY <1>1 DEF StoredPayments
    <3> QED
      BY <1>1, <3>1 DEF ById
  <2>2. View(now) = now /\ Sound(table, now)
    BY <1>2, <2>1
  <2>3. Call(Wrap(Answer(now, {})), Answer(now, {}), TRUE)
    BY <1>1, <1>8 DEF MarkPaymentStatus, SqlMarkPaymentStatus, MemMarkPaymentStatus, WithStatus
  <2> HIDE DEF now, Answer, Adapt
  <2> QED
    BY <2>2, <2>3, AnswersAgree DEF Wrap
<1> QED
  BY <1>3, <1>4, <1>5, <1>6, <1>7, <1>8 DEF PaymentCalls

\* Calls on the ledger.
LEMMA LedgerKept ==
  ASSUME DoubleInv, LedgerCalls, ~parted
  PROVE  DoubleInv'
<1>1. table = "ledger_entries" /\ sql \subseteq LedgerRows /\ mem = sql
  BY PlainView DEF LedgerCalls, DoubleInv, Sound, LedgerRows
<1>2. \A rows : rows \subseteq LedgerRows => View(rows) = rows /\ Sound(table, rows)
  BY <1>1, PlainView DEF Sound, LedgerRows
<1> USE DEF Answer, Refusal, Adapt, Wrap, Returning, Silent, One, Insert, InsertUnless, ChangeOne,
     Change, Delete, NoRows, Unique, Reference
<1>3. ASSUME NEW x \in LedgerRows, AddLedger(x) PROVE DoubleInv'
  BY <1>1, <1>2, <1>3 DEF AddLedger, SqlInsertLedgerEntry, MemAddLedger, Call, DoubleInv
<1>4. ASSUME NEW t \in Owners, SumLedger(t) PROVE DoubleInv'
  BY <1>1, <1>2, <1>4 DEF SumLedger, SqlSumLedgerByType, MemSumLedger, Call, DoubleInv
<1> QED
  BY <1>3, <1>4 DEF LedgerCalls

\* Calls on the configuration of payment gateways.
LEMMA ConfigsKept ==
  ASSUME DoubleInv, ConfigCalls, ~parted
  PROVE  DoubleInv'
<1>1. table = "payment_gateways" /\ sql \subseteq ConfigRows /\ mem = sql
  BY PlainView DEF ConfigCalls, DoubleInv, Sound, ConfigRows
<1>2. \A rows : rows \subseteq ConfigRows => View(rows) = rows /\ Sound(table, rows)
  BY <1>1, PlainView DEF Sound, ConfigRows
<1> USE DEF Answer, Refusal, Adapt, Wrap, Returning, Silent, One, Insert, InsertUnless, ChangeOne,
     Change, Delete, NoRows, Unique, Reference
<1>3. ASSUME NEW x \in ConfigRows, UpsertGatewayConfig(x) PROVE DoubleInv'
  BY <1>1, <1>2, <1>3 DEF UpsertGatewayConfig, SqlUpsertPaymentGateway, MemUpsertGatewayConfig,
       Upserted, Call, DoubleInv
<1>4. ASSUME NEW t \in Owners, NEW p \in Keys, GetGatewayConfig(t, p) PROVE DoubleInv'
  BY <1>1, <1>2, <1>4 DEF GetGatewayConfig, SqlGetPaymentGateway, MemGetGatewayConfig, Call,
       DoubleInv
<1> QED
  BY <1>3, <1>4 DEF ConfigCalls

-----------------------------------------------------------------------------
(* Messages, vouchers, tickets, resellers and devices.                      *)

\* Calls on notifications: an attempt is counted once for each row that is claimed, so
\* that claiming fewer rows shows.
LEMMA NoticesKept ==
  ASSUME DoubleInv, NoticeCalls, ~parted
  PROVE  DoubleInv'
<1>0. \A rows : rows \subseteq StoredNotices => View(rows) = rows
  <2>1. \A r \in StoredNotices : "deleted" \notin DOMAIN r
    BY DEF StoredNotices
  <2> QED
    BY <2>1, PlainView
<1>1. table = "notification_logs" /\ sql \subseteq StoredNotices /\ mem = sql
  <2>1. table = "notification_logs"
    BY DEF NoticeCalls
  <2>2. mem = View(sql) /\ Sound(table, sql)
    BY DEF DoubleInv
  <2>3. sql \subseteq StoredNotices
    BY <2>1, <2>2 DEF Sound
  <2> QED
    BY <1>0, <2>1, <2>2, <2>3
<1>2. \A rows : rows \subseteq StoredNotices => View(rows) = rows /\ Sound(table, rows)
  BY <1>0, <1>1 DEF Sound
<1> USE DEF Answer, Refusal, Adapt, Wrap, Returning, Silent, One, Insert, InsertUnless, ChangeOne,
     Change, Delete, NoRows, Unique, Reference
<1>3. ASSUME NEW x \in NoticeRows, NoticeEnqueue(x) PROVE DoubleInv'
  <2>1. x \in StoredNotices
    BY DEF NoticeRows, StoredNotices
  <2> QED
    BY <1>1, <1>2, <1>3, <2>1 DEF NoticeEnqueue, SqlEnqueueNotification, MemEnqueue, EnqueuedOnce,
         Call, DoubleInv
<1>4. ASSUME NEW due \in SUBSET Queued(sql), NoticeClaimDue(due) PROVE DoubleInv'
  <2> DEFINE By(n) == [n EXCEPT !.attempts = @ + 1]
             sent  == {By(n) : n \in due}
             all   == {By(n) : n \in Queued(sql)}
             inSql == (sql \ due) \cup sent
             inMem == (sql \ Queued(sql)) \cup all
  <2>1. ASSUME NEW n \in sql PROVE By(n) \in StoredNotices /\ By(n).attempts = n.attempts + 1
    <3>1. n \in StoredNotices
      BY <1>1
    <3>2. n.attempts + 1 \in Nat
      BY <3>1 DEF StoredNotices
    <3> QED
      BY <3>1, <3>2 DEF StoredNotices
  <2>2. due \subseteq sql
    BY DEF Queued
  <2>3. View(inSql) = inSql /\ Sound(table, inSql)
    BY <1>1, <1>2, <2>1, <2>2
  <2>4. SqlClaimDueNotifications(due) = Answer(inSql, sent) /\ MemClaimDue = Answer(inMem, all)
    BY <1>1 DEF SqlClaimDueNotifications, MemClaimDue, Claimed
  <2>5. CASE due = Queued(sql)
    <3>1. Call(Wrap(Answer(inSql, sent)), Answer(inSql, sent), TRUE)
      BY <1>4, <2>4, <2>5 DEF NoticeClaimDue, Call
    <3> HIDE DEF inSql, sent, Answer, Adapt
    <3> QED
      BY <2>3, <3>1, AnswersAgree DEF Wrap
  <2>6. CASE due # Queued(sql)
    <3>1. PICK n \in Queued(sql) : n \notin due
      BY <2>6
    <3>2. ASSUME NEW m \in due, By(m) = By(n) PROVE FALSE
      <4>1. m \in StoredNotices /\ n \in StoredNotices
        BY <1>1, <2>2, <3>1 DEF Queued
      <4>2. m.attempts = n.attempts
        <5>1. By(m).attempts = m.attempts + 1 /\ By(n).attempts = n.attempts + 1
          BY <4>1 DEF StoredNotices
        <5>2. m.attempts + 1 = n.attempts + 1 /\ m.attempts \in Nat /\ n.attempts \in Nat
          BY <3>2, <4>1, <5>1 DEF StoredNotices
        <5> QED
          BY <5>2
      <4>3. m.id = n.id /\ m.dedup = n.dedup /\ m.status = n.status
        BY <3>2, <4>1 DEF StoredNotices
      <4>4. m = n
        BY <4>1, <4>2, <4>3 DEF StoredNotices
      <4> QED
        BY <3>1, <4>4
    <3>3. By(n) \in all /\ By(n) \notin sent
      BY <3>1, <3>2
    <3>4. sent # all
      BY <3>3
    <3>5. Call(Wrap(Answer(inSql, sent)), Answer(inMem, all), FALSE)
      BY <1>4, <2>4, <2>6 DEF NoticeClaimDue, Call
    <3> HIDE DEF inSql, inMem, sent, all, Answer, Adapt
    <3> QED
      BY <3>4, <3>5, AnswersDiffer DEF Wrap
  <2> QED
    BY <2>5, <2>6
<1>5. ASSUME NEW id \in RowIds, NEW s \in NoticeStatuses, NoticeMark(id, s) PROVE DoubleInv'
  <2> DEFINE found == ById(sql, id)
             now == (sql \ found) \cup {[n EXCEPT !.status = s] : n \in found}
  <2>1. now \subseteq StoredNotices
    BY <1>1 DEF NoticeStatuses, StoredNotices, ById
  <2>2. View(now) = now /\ Sound(table, now)
    BY <1>2, <2>1
  <2>3. Call(Wrap(Answer(now, {})), Answer(now, {}), TRUE)
    BY <1>1, <1>5 DEF NoticeMark, SqlMarkNotification, MemMarkNotification, Marked
  <2> HIDE DEF now, Answer, Adapt
  <2> QED
    BY <2>2, <2>3, AnswersAgree DEF Wrap
<1> QED
  BY <1>3, <1>4, <1>5 DEF NoticeCalls

\* Calls on WhatsApp gateways: while a tenant has one, the oldest is the only one.
LEMMA GatewaysKept ==
  ASSUME DoubleInv, GatewayCalls, ~parted
  PROVE  DoubleInv'
<1>1. table = "wa_gateways" /\ StoredGateways(sql) /\ mem = sql
  BY PlainView DEF GatewayCalls, DoubleInv, Sound, StoredGateways, GatewayRows
<1>2. \A rows : StoredGateways(rows) => View(rows) = rows /\ Sound(table, rows)
  BY <1>1, PlainView DEF Sound, StoredGateways, GatewayRows
<1> USE DEF Answer, Refusal, Adapt, Wrap, Returning, Silent, One, Insert, InsertUnless, ChangeOne,
     Change, Delete, NoRows, Unique, Reference
<1>3. ASSUME NEW x \in GatewayRows, x.id \in Fresh, CreateGateway(x) PROVE DoubleInv'
  <2> DEFINE inSql == sql \cup {x}
             inMem == (sql \ Owned(sql, x.tenant)) \cup {x}
  <2>1. SqlUpsertGateway(x) = Answer(inSql, {x}) /\ MemCreateGateway(x) = Answer(inMem, {x})
    BY <1>1 DEF SqlUpsertGateway, MemCreateGateway
  <2>2. View(inSql) = inSql
    BY <1>1, PlainView DEF StoredGateways, GatewayRows
  <2>3. CASE Owned(sql, x.tenant) = {}
    <3>1. StoredGateways(inSql) /\ inMem = inSql
      BY <1>1, <2>3 DEF StoredGateways, Owned
    <3>2. View(inSql) = inMem /\ Sound(table, inSql)
      BY <1>2, <3>1
    <3>3. Call(Wrap(Answer(inSql, {x})), Answer(inMem, {x}), TRUE)
      BY <1>3, <2>1, <2>3 DEF CreateGateway, Call
    <3> HIDE DEF inSql, inMem, Answer, Adapt
    <3> QED
      BY <3>2, <3>3, AnswersAgree DEF Wrap
  <2>4. CASE Owned(sql, x.tenant) # {}
    <3>1. PICK g \in Owned(sql, x.tenant) : TRUE
      BY <2>4
    <3>2. g # x /\ g \in sql
      BY <1>3, <3>1 DEF Fresh, ById, Owned
    <3>3. inMem # View(inSql)
      BY <2>2, <3>1, <3>2
    <3>4. Call(Wrap(Answer(inSql, {x})), Answer(inMem, {x}), FALSE)
      BY <1>3, <2>1, <2>4 DEF CreateGateway, Call
    <3> HIDE DEF inSql, inMem, Answer, Adapt
    <3> QED
      BY <3>3, <3>4, AnswersDiffer DEF Wrap
  <2> QED
    BY <2>3, <2>4
<1>4. ASSUME NEW t \in Owners, ActiveGateway(t) PROVE DoubleInv'
  <2> DEFINE found == {g \in Owned(sql, t) : g.active}
  <2>1. Oldest(found) = found
    <3>1. \A g, h \in found : g = h /\ g.id \in Nat
      BY <1>1, StoresAssumption DEF StoredGateways, GatewayRows, Owned
    <3> QED
      BY <3>1 DEF Oldest
  <2>2. /\ SqlGetActiveGateway(t) = One(sql, found, "no_rows")
        /\ MemActiveGateway(t) = One(sql, found, "ErrNoGateway")
    BY <1>1, <2>1 DEF SqlGetActiveGateway, MemActiveGateway
  <2>3. CASE found = {}
    <3> DEFINE names == [no_rows |-> "ErrNoGateway"]
    <3>1. Call(Adapt(Refusal(sql, "no_rows"), names), Refusal(sql, "ErrNoGateway"), TRUE)
      BY <1>4, <2>2, <2>3 DEF ActiveGateway
    <3> HIDE DEF found
    <3> QED
      BY <1>1, <1>2, <3>1 DEF Call, DoubleInv
  <2>4. CASE found # {}
    <3>1. Call(Adapt(Answer(sql, found), [no_rows |-> "ErrNoGateway"]), Answer(sql, found), TRUE)
      BY <1>4, <2>2, <2>4 DEF ActiveGateway
    <3>2. sql = View(sql) /\ Sound(table, sql)
      BY <1>1, <1>2
    <3> HIDE DEF found, Answer, Adapt
    <3> QED
      BY <3>1, <3>2, AnswersAgree
  <2> QED
    BY <2>3, <2>4
<1> QED
  BY <1>3, <1>4 DEF GatewayCalls

\* Calls on the templates of messages.
LEMMA TemplatesKept ==
  ASSUME DoubleInv, TemplateCalls, ~parted
  PROVE  DoubleInv'
<1>1. table = "message_templates" /\ sql \subseteq TemplateRows /\ mem = sql
  BY PlainView DEF TemplateCalls, DoubleInv, Sound, TemplateRows
<1>2. \A rows : rows \subseteq TemplateRows => View(rows) = rows /\ Sound(table, rows)
  BY <1>1, PlainView DEF Sound, TemplateRows
<1> USE DEF Answer, Refusal, Adapt, Wrap, Returning, Silent, One, Insert, InsertUnless, ChangeOne,
     Change, Delete, NoRows, Unique, Reference
<1>3. ASSUME NEW x \in TemplateRows, UpsertTemplate(x) PROVE DoubleInv'
  BY <1>1, <1>2, <1>3 DEF UpsertTemplate, SqlUpsertTemplate, MemUpsertTemplate, TemplateStored,
       Call, DoubleInv
<1>4. ASSUME NEW t \in Owners, NEW k \in Keys, GetTemplate(t, k) PROVE DoubleInv'
  BY <1>1, <1>2, <1>4 DEF GetTemplate, SqlGetTemplate, MemTemplate, Call, DoubleInv
<1> QED
  BY <1>3, <1>4 DEF TemplateCalls

\* Calls on batches of vouchers.
LEMMA BatchesKept ==
  ASSUME DoubleInv, BatchCalls, ~parted
  PROVE  DoubleInv'
<1>1. table = "voucher_batches" /\ sql \subseteq BatchRows /\ mem = sql
  BY PlainView DEF BatchCalls, DoubleInv, Sound, BatchRows
<1>2. \A rows : rows \subseteq BatchRows => View(rows) = rows /\ Sound(table, rows)
  BY <1>1, PlainView DEF Sound, BatchRows
<1> USE DEF Answer, Refusal, Adapt, Wrap, Returning, Silent, One, Insert, InsertUnless, ChangeOne,
     Change, Delete, NoRows, Unique, Reference
<1>3. ASSUME NEW x \in BatchRows, VoucherCreateBatch(x) PROVE DoubleInv'
  BY <1>1, <1>2, <1>3 DEF VoucherCreateBatch, SqlCreateVoucherBatch, MemCreateBatch, Call,
       DoubleInv
<1>4. ASSUME NEW t \in Owners, ListBatches(t) PROVE DoubleInv'
  BY <1>1, <1>2, <1>4 DEF ListBatches, SqlListVoucherBatches, MemListBatches, Call, DoubleInv
<1>5. ASSUME NEW t \in Owners, NEW id \in RowIds, GetBatch(t, id) PROVE DoubleInv'
  BY <1>1, <1>2, <1>5 DEF GetBatch, SqlGetVoucherBatch, MemGetBatch, Call, DoubleInv
<1> QED
  BY <1>3, <1>4, <1>5 DEF BatchCalls

\* Calls on vouchers: both spend what is unused.
LEMMA VouchersKept ==
  ASSUME DoubleInv, VoucherCalls, ~parted
  PROVE  DoubleInv'
<1>1. table = "vouchers" /\ sql \subseteq StoredVouchers /\ mem = sql
  BY PlainView DEF VoucherCalls, DoubleInv, Sound, StoredVouchers
<1>2. \A rows : rows \subseteq StoredVouchers => View(rows) = rows /\ Sound(table, rows)
  BY <1>1, PlainView DEF Sound, StoredVouchers
<1> USE DEF Answer, Refusal, Adapt, Wrap, Returning, Silent, One, Insert, InsertUnless, ChangeOne,
     Change, Delete, NoRows, Unique, Reference
<1>3. ASSUME NEW x \in VoucherRows, VoucherCreate(x) PROVE DoubleInv'
  <2>1. x \in StoredVouchers
    BY DEF VoucherRows, StoredVouchers
  <2> QED
    BY <1>1, <1>2, <1>3, <2>1 DEF VoucherCreate, SqlCreateVoucher, MemCreateVoucher, Call, DoubleInv
<1>4. ASSUME NEW t \in Owners, NEW k \in Keys, GetByCode(t, k) PROVE DoubleInv'
  BY <1>1, <1>2, <1>4 DEF GetByCode, SqlGetVoucherByCode, MemGetByCode, Call, DoubleInv
<1>5. ASSUME NEW t \in Owners, NEW b \in RowIds, ListByBatch(t, b) PROVE DoubleInv'
  BY <1>1, <1>2, <1>5 DEF ListByBatch, SqlListVouchersByBatch, MemListByBatch, Call, DoubleInv
<1>6. ASSUME NEW t \in Owners, NEW k \in Keys, MarkUsed(t, k) PROVE DoubleInv'
  <2> DEFINE found == {v \in WithCode(sql, t, k) : v.status = "unused"}
             now   == (sql \ found) \cup {[v EXCEPT !.status = "used"] : v \in found}
  <2>1. now \subseteq StoredVouchers
    BY <1>1 DEF WithCode, Owned, StoredVouchers
  <2>2. SqlMarkVoucherUsed(t, k) = Answer(now, {}) /\ MemMarkUsed(t, k) = Answer(now, {})
    BY <1>1 DEF SqlMarkVoucherUsed, MemMarkUsed, Used
  <2>3. Call(Wrap(Answer(now, {})), Answer(now, {}), TRUE)
    BY <1>6, <2>2 DEF MarkUsed
  <2> HIDE DEF now
  <2> QED
    BY <1>2, <2>1, <2>3, AnswersAgree
<1> QED
  BY <1>3, <1>4, <1>5, <1>6 DEF VoucherCalls

\* Calls on tickets: they differ when the ticket is not found.
LEMMA TicketsKept ==
  ASSUME DoubleInv, TicketCalls, ~parted
  PROVE  DoubleInv'
<1>1. table = "tickets" /\ sql \subseteq StoredTickets /\ mem = sql
  BY PlainView DEF TicketCalls, DoubleInv, Sound, StoredTickets
<1>2. \A rows : rows \subseteq StoredTickets => View(rows) = rows /\ Sound(table, rows)
  BY <1>1, PlainView DEF Sound, StoredTickets
<1> USE DEF Answer, Refusal, Adapt, Wrap, Returning, Silent, One, Insert, InsertUnless, ChangeOne,
     Change, Delete, NoRows, Unique, Reference
<1>3. ASSUME NEW x \in TicketRows, TicketCreate(x) PROVE DoubleInv'
  <2>1. x \in StoredTickets
    BY DEF TicketRows, StoredTickets
  <2> QED
    BY <1>1, <1>2, <1>3, <2>1 DEF TicketCreate, SqlCreateTicket, MemTicketCreate, Call, DoubleInv
<1>4. ASSUME NEW t \in Owners, TicketList(t) PROVE DoubleInv'
  BY <1>1, <1>2, <1>4 DEF TicketList, SqlListTickets, MemTicketList, Call, DoubleInv
<1>5. ASSUME NEW t \in Owners, NEW c \in Keys, TicketListByCustomer(t, c) PROVE DoubleInv'
  BY <1>1, <1>2, <1>5 DEF TicketListByCustomer, SqlListTicketsByCustomer, MemTicketListByCustomer,
       Call, DoubleInv
<1>6. ASSUME NEW t \in Owners, NEW id \in RowIds, TicketGet(t, id) PROVE DoubleInv'
  BY <1>1, <1>2, <1>6 DEF TicketGet, SqlGetTicket, MemTicketGet, Call, DoubleInv
<1>7. ASSUME NEW t \in Owners, NEW id \in RowIds, NEW s \in SetStatuses,
             TicketUpdateStatus(t, id, s)
      PROVE  DoubleInv'
  <2>1. \A y \in TicketIn(sql, t, id) : ToStatus(s, y) \in StoredTickets
    BY <1>1 DEF TicketIn, ById, Owned, ToStatus, StoredTickets, SetStatuses
  <2>2. (sql \ TicketIn(sql, t, id)) \cup {ToStatus(s, y) : y \in TicketIn(sql, t, id)}
          \subseteq StoredTickets
    BY <1>1, <2>1
  <2>3. CASE TicketIn(sql, t, id) = {}
    BY <1>1, <1>7, <2>3 DEF TicketUpdateStatus, SqlUpdateTicketStatus, MemTicketUpdateStatus, Call,
         DoubleInv
  <2>4. CASE TicketIn(sql, t, id) # {}
    BY <1>1, <1>2, <1>7, <2>2, <2>4 DEF TicketUpdateStatus, SqlUpdateTicketStatus,
         MemTicketUpdateStatus, Call, DoubleInv
  <2> QED
    BY <2>3, <2>4
<1> QED
  BY <1>3, <1>4, <1>5, <1>6, <1>7 DEF TicketCalls

\* Calls on the events of tickets.
LEMMA EventsKept ==
  ASSUME DoubleInv, EventCalls, ~parted
  PROVE  DoubleInv'
<1>1. table = "ticket_events" /\ sql \subseteq EventRows /\ mem = sql
  BY PlainView DEF EventCalls, DoubleInv, Sound, EventRows
<1>2. \A rows : rows \subseteq EventRows => View(rows) = rows /\ Sound(table, rows)
  BY <1>1, PlainView DEF Sound, EventRows
<1> USE DEF Answer, Refusal, Adapt, Wrap, Returning, Silent, One, Insert, InsertUnless, ChangeOne,
     Change, Delete, NoRows, Unique, Reference
<1>3. ASSUME NEW x \in EventRows, TicketAddEvent(x) PROVE DoubleInv'
  BY <1>1, <1>2, <1>3 DEF TicketAddEvent, SqlAddTicketEvent, MemAddEvent, Call, DoubleInv
<1>4. ASSUME NEW t \in RowIds, TicketListEvents(t) PROVE DoubleInv'
  BY <1>1, <1>2, <1>4 DEF TicketListEvents, SqlListTicketEvents, MemListEvents, Call, DoubleInv
<1> QED
  BY <1>3, <1>4 DEF EventCalls

\* Calls on deposits and commissions: they differ on a commission that is pending.
LEMMA CreditsKept ==
  ASSUME DoubleInv, CreditCalls, ~parted
  PROVE  DoubleInv'
<1>0. \A rows : rows \subseteq StoredCredits => View(rows) = rows
  <2>1. \A r \in StoredCredits : "deleted" \notin DOMAIN r
    BY DEF StoredCredits
  <2> QED
    BY <2>1, PlainView
<1>1. table \in {"deposits", "commissions"} /\ sql \subseteq StoredCredits /\ mem = sql
  <2>1. table \in {"deposits", "commissions"}
    BY DEF CreditCalls
  <2>2. mem = View(sql) /\ Sound(table, sql)
    BY DEF DoubleInv
  <2>3. sql \subseteq StoredCredits
    BY <2>1, <2>2 DEF Sound
  <2> QED
    BY <1>0, <2>1, <2>2, <2>3
<1>2. \A rows : rows \subseteq StoredCredits => View(rows) = rows /\ Sound(table, rows)
  BY <1>0, <1>1 DEF Sound
<1> USE DEF Answer, Refusal, Adapt, Wrap, Returning, Silent, One, Insert, InsertUnless, ChangeOne,
     Change, Delete, NoRows, Unique, Reference
<1>3. ASSUME NEW x \in CreditRows, x.id \in Fresh, CreateDeposit(x) PROVE DoubleInv'
  <2> DEFINE y == Settled(x)
             now == sql \cup {y}
  <2>1. y \in StoredCredits
    BY DEF Settled, CreditRows, StoredCredits
  <2>2. Call(Wrap(Answer(now, {y})), Answer(now, {y}), TRUE)
    BY <1>1, <1>3 DEF CreateDeposit, SqlCreateDeposit, MemCreateDeposit
  <2>3. now = View(now) /\ Sound(table, now)
    BY <1>1, <1>2, <2>1
  <2> HIDE DEF y, now, Answer, Adapt
  <2> QED
    BY <2>2, <2>3, AnswersAgree DEF Wrap
<1>4. ASSUME NEW x \in CreditRows, x.id \in Fresh, CreateCommission(x) PROVE DoubleInv'
  <2> DEFINE y == [x EXCEPT !.status = "settled"]
             inSql == sql \cup {y}
  <2>1. y \in StoredCredits
    BY DEF CreditRows, StoredCredits
  <2>2. inSql = View(inSql) /\ Sound(table, inSql)
    BY <1>1, <1>2, <2>1
  <2>3. CASE x.status # "pending"
    <3>1. Settled(x) = y
      BY <2>3 DEF Settled, CreditRows
    <3>2. Call(Wrap(Answer(inSql, {y})), Answer(inSql, {y}), TRUE)
      BY <1>1, <1>4, <2>3, <3>1 DEF CreateCommission, SqlCreateCommission, MemCreateCommission, Call
    <3> HIDE DEF y, inSql, Answer, Adapt
    <3> QED
      BY <2>2, <3>2, AnswersAgree DEF Wrap
  <2>4. CASE x.status = "pending"
    <3>1. Settled(x) = x
      BY <2>4, StoresAssumption DEF Settled, CreditRows
    <3> DEFINE inMem == sql \cup {x}
    <3>2. Call(Wrap(Answer(inSql, {y})), Answer(inMem, {x}), FALSE)
      BY <1>1, <1>4, <2>4, <3>1 DEF CreateCommission, SqlCreateCommission, MemCreateCommission, Call
    <3>3. {y} # {x}
      BY <2>4 DEF CreditRows
    <3> HIDE DEF y, inSql, inMem, Answer, Adapt
    <3> QED
      BY <3>2, <3>3, AnswersDiffer DEF Wrap
  <2> QED
    BY <2>3, <2>4
<1>5. ASSUME NEW t \in Owners, NEW u \in Keys, ListCredits(t, u) PROVE DoubleInv'
  BY <1>1, <1>2, <1>5 DEF ListCredits, SqlListCredits, MemListCredits, Call, DoubleInv
<1> QED
  BY <1>3, <1>4, <1>5 DEF CreditCalls

\* Calls on balances: they differ when the user is not found.
LEMMA BalancesKept ==
  ASSUME DoubleInv, BalanceCalls, ~parted
  PROVE  DoubleInv'
<1>0. \A rows : rows \subseteq StoredBalances => View(rows) = rows
  <2>1. \A r \in StoredBalances : "deleted" \notin DOMAIN r
    BY DEF StoredBalances
  <2> QED
    BY <2>1, PlainView
<1>1. table = "users, balance" /\ sql \subseteq StoredBalances /\ mem = sql
  <2>1. table = "users, balance"
    BY DEF BalanceCalls
  <2>2. mem = View(sql) /\ Sound(table, sql)
    BY DEF DoubleInv
  <2>3. sql \subseteq StoredBalances
    BY <2>1, <2>2 DEF Sound
  <2> QED
    BY <1>0, <2>1, <2>2, <2>3
<1>2. \A rows : rows \subseteq StoredBalances => View(rows) = rows /\ Sound(table, rows)
  BY <1>0, <1>1 DEF Sound
<1> USE DEF Answer, Refusal, Adapt, Wrap, Returning, Silent, One, Insert, InsertUnless, ChangeOne,
     Change, Delete, NoRows, Unique, Reference
<1>3. ASSUME NEW x \in BalanceRows, x.id \in Fresh, BalanceOfNewUser(x) PROVE DoubleInv'
  <2>1. x \in StoredBalances
    BY DEF BalanceRows, StoredBalances
  <2> QED
    BY <1>1, <1>2, <1>3, <2>1 DEF BalanceOfNewUser, Call, DoubleInv
<1>4. ASSUME NEW id \in RowIds, ResellerAddBalance(id, 1) PROVE DoubleInv'
  <2> DEFINE found == ById(sql, id)
             new == {[u EXCEPT !.balance = @ + 1] : u \in found}
             now == (sql \ found) \cup new
             value == {u.balance : u \in new}
  <2>1. CASE found = {}
    <3> DEFINE names == [e \in {} |-> ""]
               made == sql \cup {[id |-> id, balance |-> 1]}
    <3>3. SqlAddUserBalance(id, 1) = Refusal(sql, "no_rows")
      BY <2>1 DEF SqlAddUserBalance, WithBalance
    <3>4. MemAddBalance(id, 1) = Answer(made, {1})
      BY <1>1, <2>1 DEF MemAddBalance
    <3>5. Call(Adapt(Refusal(sql, "no_rows"), names), Answer(made, {1}), FALSE)
      BY <1>4, <2>1, <3>3, <3>4 DEF ResellerAddBalance, Call
    <3>6. DOMAIN names = {}
      OBVIOUS
    <3> HIDE DEF made, names, Answer, Refusal, Adapt
    <3> QED
      BY <3>5, <3>6, OnlyOneRefuses
  <2>2. CASE found # {}
    <3>1. now \subseteq StoredBalances
      <4>1. ASSUME NEW u \in sql PROVE [u EXCEPT !.balance = @ + 1] \in StoredBalances
        <5>1. u \in StoredBalances
          BY <1>1, <4>1
        <5>2. u.balance + 1 \in Nat
          BY <5>1 DEF StoredBalances
        <5> QED
          BY <5>1, <5>2 DEF StoredBalances
      <4> QED
        BY <1>1, <4>1 DEF ById
    <3>2. now = View(now) /\ Sound(table, now)
      BY <1>2, <3>1
    <3>3. \A error : WithBalance(sql, found, 1, error) = Answer(now, value)
      <4>1. \A error : ChangeOne(sql, found, LAMBDA u : [u EXCEPT !.balance = @ + 1], error) = Answer(now, new)
        BY <2>2
      <4> QED
        BY <4>1 DEF WithBalance
    <3>5. SqlAddUserBalance(id, 1) = Answer(now, value) /\ MemAddBalance(id, 1) = Answer(now, value)
      BY <1>1, <2>2, <3>3 DEF SqlAddUserBalance, MemAddBalance
    <3>4. Call(Wrap(Answer(now, value)), Answer(now, value), TRUE)
      BY <1>4, <2>2, <3>5 DEF ResellerAddBalance, Call
    <3> HIDE DEF now, value, Answer, Adapt
    <3> QED
      BY <3>2, <3>4, AnswersAgree DEF Wrap
  <2> QED
    BY <2>1, <2>2
<1> QED
  BY <1>3, <1>4 DEF BalanceCalls

\* Calls on customers' devices.
LEMMA DevicesKept ==
  ASSUME DoubleInv, DeviceCalls, ~parted
  PROVE  DoubleInv'
<1>1. table = "acs_devices" /\ sql \subseteq DeviceRows /\ mem = sql
  BY PlainView DEF DeviceCalls, DoubleInv, Sound, DeviceRows
<1>2. \A rows : rows \subseteq DeviceRows => View(rows) = rows /\ Sound(table, rows)
  BY <1>1, PlainView DEF Sound, DeviceRows
<1> USE DEF Answer, Refusal, Adapt, Wrap, Returning, Silent, One, Insert, InsertUnless, ChangeOne,
     Change, Delete, NoRows, Unique, Reference
<1>3. ASSUME NEW x \in DeviceRows, DeviceUpsert(x) PROVE DoubleInv'
  BY <1>1, <1>2, <1>3 DEF DeviceUpsert, SqlUpsertAcsDevice, MemDeviceUpsert, Reported, Call,
       DoubleInv
<1>4. ASSUME NEW t \in Owners, DeviceList(t) PROVE DoubleInv'
  BY <1>1, <1>2, <1>4 DEF DeviceList, SqlListAcsDevices, MemDeviceList, Call, DoubleInv
<1>5. ASSUME NEW t \in Owners, NEW k \in Keys, DeviceGet(t, k) PROVE DoubleInv'
  BY <1>1, <1>2, <1>5 DEF DeviceGet, SqlGetAcsDevice, MemDeviceGet, Call, DoubleInv
<1> QED
  BY <1>3, <1>4, <1>5 DEF DeviceCalls

-----------------------------------------------------------------------------
(* All tables.                                                              *)

\* With no rows the double agrees.
LEMMA DoubleInvStart == DoubleInit => DoubleInv
<1> SUFFICES ASSUME DoubleInit PROVE DoubleInv
  OBVIOUS
<1>1. sql = {} /\ mem = {} /\ alike /\ ~parted
  BY DEF DoubleInit, StoreInit
<1>2. View(sql) = {}
  BY <1>1 DEF View
<1>3. Sound(table, sql)
  BY <1>1 DEF Sound, UniqueIds, StoredNas, StoredSessions, StoredGateways
<1> QED
  BY <1>1, <1>2, <1>3 DEF DoubleInv

\* Every call on every table keeps it so.
LEMMA DoubleInvStep == DoubleInv /\ [DoubleNext]_storeVars => DoubleInv'
<1> SUFFICES ASSUME DoubleInv, [DoubleNext]_storeVars PROVE DoubleInv'
  OBVIOUS
<1>1. CASE DoubleNext
  <2>1. ~parted
    BY <1>1 DEF DoubleNext
  <2>2. CASE TenantCalls
    BY <2>1, <2>2, TenantsKept
  <2>3. CASE UserCalls
    BY <2>1, <2>3, UsersKept
  <2>4. CASE RoleCalls
    BY <2>1, <2>4, RolesKept
  <2>5. CASE TokenCalls
    BY <2>1, <2>5, TokensKept
  <2>6. CASE AuditCalls
    BY <2>1, <2>6, AuditKept
  <2>7. CASE PlanCalls
    BY <2>1, <2>7, PlansKept
  <2>8. CASE BandwidthCalls
    BY <2>1, <2>8, BandwidthKept
  <2>9. CASE CustomerCalls
    BY <2>1, <2>9, CustomersKept
  <2>10. CASE RadiusCalls
    BY <2>1, <2>10, RadiusKept
  <2>11. CASE NasCalls
    BY <2>1, <2>11, NasKept
  <2>12. CASE PostAuthCalls
    BY <2>1, <2>12, PostAuthKept
  <2>13. CASE SessionCalls
    BY <2>1, <2>13, SessionsKept
  <2>14. CASE InvoiceCalls
    BY <2>1, <2>14, InvoicesKept
  <2>15. CASE ItemCalls
    BY <2>1, <2>15, ItemsKept
  <2>16. CASE PaymentCalls
    BY <2>1, <2>16, PaymentsKept
  <2>17. CASE LedgerCalls
    BY <2>1, <2>17, LedgerKept
  <2>18. CASE ConfigCalls
    BY <2>1, <2>18, ConfigsKept
  <2>19. CASE NoticeCalls
    BY <2>1, <2>19, NoticesKept
  <2>20. CASE GatewayCalls
    BY <2>1, <2>20, GatewaysKept
  <2>21. CASE TemplateCalls
    BY <2>1, <2>21, TemplatesKept
  <2>22. CASE BatchCalls
    BY <2>1, <2>22, BatchesKept
  <2>23. CASE VoucherCalls
    BY <2>1, <2>23, VouchersKept
  <2>24. CASE TicketCalls
    BY <2>1, <2>24, TicketsKept
  <2>25. CASE EventCalls
    BY <2>1, <2>25, EventsKept
  <2>26. CASE CreditCalls
    BY <2>1, <2>26, CreditsKept
  <2>27. CASE BalanceCalls
    BY <2>1, <2>27, BalancesKept
  <2>28. CASE DeviceCalls
    BY <2>1, <2>28, DevicesKept
  <2> QED
    BY <1>1, <2>2, <2>3, <2>4, <2>5, <2>6, <2>7, <2>8, <2>9, <2>10, <2>11, <2>12, <2>13, <2>14,
       <2>15, <2>16, <2>17, <2>18, <2>19, <2>20, <2>21, <2>22, <2>23, <2>24, <2>25, <2>26, <2>27,
       <2>28 DEF DoubleNext
<1>2. CASE UNCHANGED storeVars
  BY <1>2 DEF storeVars, DoubleInv
<1> QED
  BY <1>1, <1>2

\* Whatever the services' tests do with the double, PostgreSQL would do, until a call
\* on which the two are said to differ; and there they do.
THEOREM DoubleIsFaithful == DoubleSpec => []DoubleAgrees
<1>1. DoubleInit => DoubleInv
  BY DoubleInvStart
<1>2. DoubleInv /\ [DoubleNext]_storeVars => DoubleInv'
  BY DoubleInvStep
<1>3. DoubleInv => DoubleAgrees
  BY DEF DoubleInv, DoubleAgrees
<1> QED
  BY <1>1, <1>2, <1>3, PTL DEF DoubleSpec

=============================================================================
