--------------------------- MODULE StoreDirectory ---------------------------
(***************************************************************************)
(* Tenants, users, roles, refresh tokens and the audit log, in PostgreSQL   *)
(* and in the double.                                                       *)
(***************************************************************************)
EXTENDS Stores

-----------------------------------------------------------------------------
(* Tenants.                                                                 *)

TenantRows == [id : RowIds, slug : Keys, domain : Keys \cup {Nothing}, status : {"active", "suspended"}]

SqlCreateTenant(x) ==
  InsertUnless(\E t \in sql : t.slug = x.slug \/ (x.domain # Nothing /\ t.domain = x.domain), x)
MemTenantCreate(x) ==
  IF \E t \in mem : t.slug = x.slug THEN Refusal(mem, "ErrSlugTaken") ELSE Insert(mem, x)
\* The double lets two tenants have one domain.
TenantCreate(x) ==
  Call(Adapt(SqlCreateTenant(x), [unique |-> "ErrSlugTaken"]), MemTenantCreate(x),
       (\E t \in sql : x.domain # Nothing /\ t.domain = x.domain) => \E t \in sql : t.slug = x.slug)

SqlGetTenantByID(id) == One(sql, ById(sql, id), NoRows)
MemTenantGetByID(id) == One(mem, ById(mem, id), "ErrNotFound")
TenantGetByID(id) == Call(Adapt(SqlGetTenantByID(id), [no_rows |-> "ErrNotFound"]), MemTenantGetByID(id), TRUE)

SqlGetTenantBySlug(slug) == One(sql, {t \in sql : t.slug = slug}, NoRows)
MemTenantGetBySlug(slug) == One(mem, {t \in mem : t.slug = slug}, "ErrNotFound")
TenantGetBySlug(slug) ==
  Call(Adapt(SqlGetTenantBySlug(slug), [no_rows |-> "ErrNotFound"]), MemTenantGetBySlug(slug), TRUE)

\* No row's domain equals NULL.
SqlGetTenantByDomain(domain) == One(sql, {t \in sql : domain # Nothing /\ t.domain = domain}, NoRows)
MemTenantGetByDomain(domain) == One(mem, {t \in mem : domain # Nothing /\ t.domain = domain}, "ErrNotFound")
TenantGetByDomain(domain) ==
  Call(Adapt(SqlGetTenantByDomain(domain), [no_rows |-> "ErrNotFound"]), MemTenantGetByDomain(domain), TRUE)

\* The slug is not among the columns of the UPDATE.
SqlUpdateTenant(x) ==
  IF \E t \in sql \ ById(sql, x.id) : x.domain # Nothing /\ t.domain = x.domain /\ ById(sql, x.id) # {}
    THEN Refusal(sql, Unique)
    ELSE ChangeOne(sql, ById(sql, x.id), LAMBDA t : [x EXCEPT !.slug = t.slug], NoRows)
MemTenantUpdate(x) == ChangeOne(mem, ById(mem, x.id), LAMBDA t : x, "ErrNotFound")
\* The double changes the slug, and to a domain that is taken.
TenantUpdate(x) ==
  Call(Adapt(SqlUpdateTenant(x), [no_rows |-> "ErrNotFound"]), MemTenantUpdate(x),
       \A t \in ById(sql, x.id) :
         t.slug = x.slug /\ \A u \in sql \ {t} : x.domain = Nothing \/ u.domain # x.domain)

TenantCalls ==
  /\ table = "tenants"
  /\ \/ \E x \in TenantRows : (x.id \in Fresh /\ TenantCreate(x)) \/ TenantUpdate(x)
     \/ \E id \in RowIds : TenantGetByID(id)
     \/ \E k \in Keys : TenantGetBySlug(k)
     \/ \E k \in Keys \cup {Nothing} : TenantGetByDomain(k)

-----------------------------------------------------------------------------
(* Users.                                                                   *)

UserRows == [id : RowIds, tenant : Owners, email : Keys, password : Keys, active : BOOLEAN,
             loggedIn : BOOLEAN, deleted : {FALSE}]
NewUsers == {x \in UserRows : x.active /\ ~x.loggedIn}

SqlCreateUser(x) == InsertUnless(\E u \in Present(sql) : u.tenant = x.tenant /\ u.email = x.email, x)
MemUserCreate(x) ==
  IF \E u \in mem : u.tenant = x.tenant /\ u.email = x.email
    THEN Refusal(mem, "ErrEmailTaken") ELSE Insert(mem, [x EXCEPT !.active = TRUE])
UserCreate(x) == Call(Adapt(SqlCreateUser(x), [unique |-> "ErrEmailTaken"]), MemUserCreate(x), TRUE)

SqlGetUserByID(id) == One(sql, ById(Present(sql), id), NoRows)
MemUserGetByID(id) == One(mem, ById(mem, id), "ErrUserNotFound")
UserGetByID(id) == Call(Adapt(SqlGetUserByID(id), [no_rows |-> "ErrUserNotFound"]), MemUserGetByID(id), TRUE)

SqlGetUserByEmail(t, email) == One(sql, {u \in Owned(Present(sql), t) : u.email = email}, NoRows)
MemUserGetByEmail(t, email) == One(mem, {u \in mem : u.tenant = t /\ u.email = email}, "ErrUserNotFound")
UserGetByEmail(t, email) ==
  Call(Adapt(SqlGetUserByEmail(t, email), [no_rows |-> "ErrUserNotFound"]), MemUserGetByEmail(t, email), TRUE)

SqlListUsersByTenant(t) == Answer(sql, Owned(Present(sql), t))
MemUserList(t) == Answer(mem, Owned(mem, t))
UserList(t) == Call(Wrap(SqlListUsersByTenant(t)), MemUserList(t), TRUE)

SqlCountUsersByTenant(t) == Answer(sql, {Cardinality(Owned(Present(sql), t))})
MemUserCount(t) == Answer(mem, {Cardinality(Owned(mem, t))})
UserCount(t) == Call(Wrap(SqlCountUsersByTenant(t)), MemUserCount(t), TRUE)

\* Name, role and activity are what the UPDATE writes; the latter stands for them.
SqlUpdateUser(x) ==
  ChangeOne(sql, ById(Owned(Present(sql), x.tenant), x.id), LAMBDA u : [u EXCEPT !.active = x.active], NoRows)
MemUserUpdate(x) == ChangeOne(mem, ById(mem, x.id), LAMBDA u : x, "ErrUserNotFound")
\* The double finds another tenant's user, and overwrites every column.
UserUpdate(x) ==
  Call(Adapt(SqlUpdateUser(x), [no_rows |-> "ErrUserNotFound"]), MemUserUpdate(x),
       \A u \in ById(Present(sql), x.id) : x = [u EXCEPT !.active = x.active])

SqlUpdateUserPassword(id, password) ==
  Silent(Change(sql, ById(Present(sql), id), LAMBDA u : [u EXCEPT !.password = password]))
MemUserUpdatePassword(id, password) ==
  Silent(ChangeOne(mem, ById(mem, id), LAMBDA u : [u EXCEPT !.password = password], "ErrUserNotFound"))
\* The UPDATE does not mind finding nobody.
UserUpdatePassword(id, password) ==
  Call(Wrap(SqlUpdateUserPassword(id, password)), MemUserUpdatePassword(id, password), ById(Present(sql), id) # {})

\* It does not ask whether the user is deleted, either.
SqlUpdateUserLastLogin(id) == Silent(Change(sql, ById(sql, id), LAMBDA u : [u EXCEPT !.loggedIn = TRUE]))
MemUserUpdateLastLogin(id) ==
  Silent(ChangeOne(mem, ById(mem, id), LAMBDA u : [u EXCEPT !.loggedIn = TRUE], "ErrUserNotFound"))
UserUpdateLastLogin(id) ==
  Call(Wrap(SqlUpdateUserLastLogin(id)), MemUserUpdateLastLogin(id), ById(Present(sql), id) # {})

SqlSoftDeleteUser(t, id) ==
  Silent(Change(sql, ById(Owned(Present(sql), t), id), LAMBDA u : [u EXCEPT !.deleted = TRUE]))
MemUserSoftDelete(id) == Silent(Delete(mem, ById(mem, id)))
\* The double deletes another tenant's user.
UserSoftDelete(t, id) ==
  Call(Wrap(SqlSoftDeleteUser(t, id)), MemUserSoftDelete(id), \A u \in ById(Present(sql), id) : u.tenant = t)

UserCalls ==
  /\ table = "users"
  /\ \/ \E x \in UserRows : (x \in NewUsers /\ x.id \in Fresh /\ UserCreate(x)) \/ UserUpdate(x)
     \/ \E id \in RowIds :
          \/ UserGetByID(id) \/ UserUpdateLastLogin(id)
          \/ \E k \in Keys : UserUpdatePassword(id, k)
          \/ \E t \in Owners : UserSoftDelete(t, id)
     \/ \E t \in Owners : UserList(t) \/ UserCount(t) \/ \E k \in Keys : UserGetByEmail(t, k)

-----------------------------------------------------------------------------
(* Roles.  The double's catalog of permissions is shorter than the table.   *)

Permissions == {"in both catalogs", "in the table only"}
DoublePermissions == {"in both catalogs"}

RoleRows == [id : RowIds, tenant : Owners, name : Keys, perms : {{}}]

SqlCreateRole(x) == InsertUnless(\E r \in sql : r.tenant = x.tenant /\ r.name = x.name, x)
MemRoleCreate(x) == Insert(mem, x)
\* The double lets a tenant have two roles of one name.
RoleCreate(x) ==
  Call(Wrap(SqlCreateRole(x)), MemRoleCreate(x), \A r \in sql : r.tenant # x.tenant \/ r.name # x.name)

SqlGetRoleByID(id) == One(sql, ById(sql, id), NoRows)
MemRoleGetByID(id) == One(mem, ById(mem, id), "ErrRoleNotFound")
RoleGetByID(id) == Call(Adapt(SqlGetRoleByID(id), [no_rows |-> "ErrRoleNotFound"]), MemRoleGetByID(id), TRUE)

SqlGetRoleByName(t, name) == One(sql, {r \in Owned(sql, t) : r.name = name}, NoRows)
MemRoleGetByName(t, name) == One(mem, {r \in Owned(mem, t) : r.name = name}, "ErrRoleNotFound")
RoleGetByName(t, name) ==
  Call(Adapt(SqlGetRoleByName(t, name), [no_rows |-> "ErrRoleNotFound"]), MemRoleGetByName(t, name), TRUE)

SqlListRolesByTenant(t) == Answer(sql, Owned(sql, t))
MemRoleList(t) == Answer(mem, Owned(mem, t))
RoleList(t) == Call(Wrap(SqlListRolesByTenant(t)), MemRoleList(t), TRUE)

Granted(rows, id, perms) == Change(rows, ById(rows, id), LAMBDA r : [r EXCEPT !.perms = @ \cup perms])

SqlGrantAllPermissionsToRole(id) ==
  IF ById(sql, id) = {} THEN Refusal(sql, Reference) ELSE Silent(Granted(sql, id, Permissions))
MemRoleGrantAllPermissions(id) == Silent(Granted(mem, id, DoublePermissions))
RoleGrantAllPermissions(id) ==
  Call(Wrap(SqlGrantAllPermissionsToRole(id)), MemRoleGrantAllPermissions(id), FALSE)

SqlAddRolePermission(id, p) ==
  IF ById(sql, id) = {} THEN Refusal(sql, Reference) ELSE Silent(Granted(sql, id, {p}))
MemRoleAddPermission == Answer(mem, {})
\* The double does not add it.
RoleAddPermission(id, p) ==
  Call(Wrap(SqlAddRolePermission(id, p)), MemRoleAddPermission, \E r \in ById(sql, id) : p \in r.perms)

SqlListPermissionCodesByRole(id) == Answer(sql, UNION {r.perms : r \in ById(sql, id)})
MemRolePermissionCodes(id) == Answer(mem, UNION {r.perms : r \in ById(mem, id)})
RolePermissionCodes(id) ==
  Call(Wrap(SqlListPermissionCodesByRole(id)), MemRolePermissionCodes(id), TRUE)

SqlListPermissions == Answer(sql, Permissions)
MemPermissionList == Answer(mem, DoublePermissions)
PermissionList == Call(Wrap(SqlListPermissions), MemPermissionList, FALSE)

RoleCalls ==
  /\ table = "roles"
  /\ \/ PermissionList
     \/ \E x \in RoleRows : x.id \in Fresh /\ RoleCreate(x)
     \/ \E id \in RowIds :
          \/ RoleGetByID(id) \/ RoleGrantAllPermissions(id) \/ RolePermissionCodes(id)
          \/ \E p \in Permissions : RoleAddPermission(id, p)
     \/ \E t \in Owners : RoleList(t) \/ \E k \in Keys : RoleGetByName(t, k)

-----------------------------------------------------------------------------
(* Refresh tokens.                                                          *)

TokenRows == [id : RowIds, user : Owners, hash : Keys, expired : BOOLEAN, revoked : {FALSE}]

SqlCreateRefreshToken(x) == InsertUnless(\E t \in sql : t.hash = x.hash, x)
MemTokenCreate(x) == Answer({t \in mem : t.hash # x.hash} \cup {x}, {x})
\* The double puts the new token in the place of one with the same hash.
TokenCreate(x) ==
  Call(Wrap(SqlCreateRefreshToken(x)), MemTokenCreate(x), \A t \in sql : t.hash # x.hash)

SqlGetRefreshTokenByHash(hash) == One(sql, {t \in sql : t.hash = hash}, NoRows)
MemTokenGetByHash(hash) == One(mem, {t \in mem : t.hash = hash}, "ErrTokenNotFound")
TokenGetByHash(hash) ==
  Call(Adapt(SqlGetRefreshTokenByHash(hash), [no_rows |-> "ErrTokenNotFound"]), MemTokenGetByHash(hash), TRUE)

Revoked(rows, found) == Silent(Change(rows, {t \in found : ~t.revoked}, LAMBDA t : [t EXCEPT !.revoked = TRUE]))

SqlRevokeRefreshToken(hash) == Revoked(sql, {t \in sql : t.hash = hash})
MemTokenRevoke(hash) == Revoked(mem, {t \in mem : t.hash = hash})
TokenRevoke(hash) == Call(Wrap(SqlRevokeRefreshToken(hash)), MemTokenRevoke(hash), TRUE)

SqlRevokeAllUserRefreshTokens(user) == Revoked(sql, {t \in sql : t.user = user})
MemTokenRevokeAllForUser(user) == Revoked(mem, {t \in mem : t.user = user})
TokenRevokeAllForUser(user) ==
  Call(Wrap(SqlRevokeAllUserRefreshTokens(user)), MemTokenRevokeAllForUser(user), TRUE)

SqlDeleteExpiredRefreshTokens == Delete(sql, {t \in sql : t.expired})
MemTokenDeleteExpired == Delete(mem, {t \in mem : t.expired})
TokenDeleteExpired == Call(Wrap(SqlDeleteExpiredRefreshTokens), MemTokenDeleteExpired, TRUE)

TokenCalls ==
  /\ table = "refresh_tokens"
  /\ \/ TokenDeleteExpired
     \/ \E x \in TokenRows : x.id \in Fresh /\ TokenCreate(x)
     \/ \E k \in Keys : TokenGetByHash(k) \/ TokenRevoke(k)
     \/ \E u \in Owners : TokenRevokeAllForUser(u)

-----------------------------------------------------------------------------
(* The audit log.                                                           *)

AuditRows == [id : RowIds, tenant : Owners, action : Keys]

SqlInsertAuditLog(x) == Insert(sql, x)
MemAuditInsert(x) == Insert(mem, x)
AuditInsert(x) == Call(Wrap(SqlInsertAuditLog(x)), MemAuditInsert(x), TRUE)

SqlListAuditLogs(t) == Answer(sql, Owned(sql, t))
MemAuditList(t) == Answer(mem, Owned(mem, t))
AuditList(t) == Call(Wrap(SqlListAuditLogs(t)), MemAuditList(t), TRUE)

AuditCalls ==
  /\ table = "audit_logs"
  /\ \/ \E x \in AuditRows : x.id \in Fresh /\ AuditInsert(x)
     \/ \E t \in Owners : AuditList(t)

=============================================================================
