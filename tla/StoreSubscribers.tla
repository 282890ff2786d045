-------------------------- MODULE StoreSubscribers --------------------------
(***************************************************************************)
(* Plans, bandwidth profiles, customers, their RADIUS rows, access servers  *)
(* and sessions, in PostgreSQL and in the double.                           *)
(***************************************************************************)
EXTENDS Stores

-----------------------------------------------------------------------------
(* Plans.  Pool stands for every column but the name.                       *)

PlanRows == [id : RowIds, tenant : Owners, name : Keys, pool : Keys, deleted : {FALSE}]

SamePlan(p, x) == p.tenant = x.tenant /\ p.name = x.name

SqlCreatePlan(x) == InsertUnless(\E p \in Present(sql) : SamePlan(p, x), x)
MemPlanCreate(x) == IF \E p \in mem : SamePlan(p, x) THEN Refusal(mem, "ErrNameTaken") ELSE Insert(mem, x)
PlanCreate(x) == Call(Adapt(SqlCreatePlan(x), [unique |-> "ErrNameTaken"]), MemPlanCreate(x), TRUE)

SqlGetPlanByID(t, id) == One(sql, ById(Owned(Present(sql), t), id), NoRows)
MemPlanGetByID(t, id) == One(mem, {p \in ById(mem, id) : p.tenant = t}, "ErrNotFound")
PlanGetByID(t, id) == Call(Adapt(SqlGetPlanByID(t, id), [no_rows |-> "ErrNotFound"]), MemPlanGetByID(t, id), TRUE)

SqlListPlansByTenant(t) == Answer(sql, Owned(Present(sql), t))
MemPlanList(t) == Answer(mem, Owned(mem, t))
PlanList(t) == Call(Wrap(SqlListPlansByTenant(t)), MemPlanList(t), TRUE)

SqlCountPlansByTenant(t) == Answer(sql, {Cardinality(Owned(Present(sql), t))})
MemPlanCount(t) == Answer(mem, {Cardinality(Owned(mem, t))})
PlanCount(t) == Call(Wrap(SqlCountPlansByTenant(t)), MemPlanCount(t), TRUE)

SqlUpdatePlan(x) ==
  LET found == ById(Owned(Present(sql), x.tenant), x.id) IN
  IF found # {} /\ \E p \in Present(sql) \ found : SamePlan(p, x)
    THEN Refusal(sql, Unique)
    ELSE ChangeOne(sql, found, LAMBDA p : x, NoRows)
MemPlanUpdate(x) == ChangeOne(mem, {p \in ById(mem, x.id) : p.tenant = x.tenant}, LAMBDA p : x, "ErrNotFound")
\* The double lets a plan take another one's name.
PlanUpdate(x) ==
  Call(Adapt(SqlUpdatePlan(x), [no_rows |-> "ErrNotFound", unique |-> "ErrNameTaken"]), MemPlanUpdate(x),
       ById(Owned(Present(sql), x.tenant), x.id) # {} =>
         \A p \in Present(sql) : p.id # x.id => ~SamePlan(p, x))

SqlSoftDeletePlan(t, id) ==
  Silent(Change(sql, ById(Owned(Present(sql), t), id), LAMBDA p : [p EXCEPT !.deleted = TRUE]))
MemPlanSoftDelete(t, id) == Silent(Delete(mem, {p \in ById(mem, id) : p.tenant = t}))
PlanSoftDelete(t, id) == Call(Wrap(SqlSoftDeletePlan(t, id)), MemPlanSoftDelete(t, id), TRUE)

PlanCalls ==
  /\ table = "plans"
  /\ \/ \E x \in PlanRows : (x.id \in Fresh /\ PlanCreate(x)) \/ PlanUpdate(x)
     \/ \E t \in Owners :
          PlanList(t) \/ PlanCount(t) \/ \E id \in RowIds : PlanGetByID(t, id) \/ PlanSoftDelete(t, id)

-----------------------------------------------------------------------------
(* Bandwidth profiles, one to a plan.                                       *)

BandwidthRows == [tenant : Owners, plan : RowIds, rate : Keys]

ProfileOf(rows, p) == {b \in rows : b.plan = p}

SqlUpsertBandwidthProfile(x) ==
  IF ProfileOf(sql, x.plan) = {} THEN Insert(sql, x)
    ELSE Change(sql, ProfileOf(sql, x.plan), LAMBDA b : [b EXCEPT !.rate = x.rate])
MemBandwidthUpsert(x) == Answer((mem \ ProfileOf(mem, x.plan)) \cup {x}, {x})
\* The double moves a profile to another tenant.
BandwidthUpsert(x) ==
  Call(Wrap(SqlUpsertBandwidthProfile(x)), MemBandwidthUpsert(x),
       \A b \in ProfileOf(sql, x.plan) : b.tenant = x.tenant)

SqlGetBandwidthProfileByPlan(p) == One(sql, ProfileOf(sql, p), NoRows)
MemBandwidthGetByPlan(p) == One(mem, ProfileOf(mem, p), "ErrNotFound")
BandwidthGetByPlan(p) ==
  Call(Adapt(SqlGetBandwidthProfileByPlan(p), [no_rows |-> "ErrNotFound"]), MemBandwidthGetByPlan(p), TRUE)

BandwidthCalls ==
  /\ table = "bandwidth_profiles"
  /\ \/ \E x \in BandwidthRows : BandwidthUpsert(x)
     \/ \E p \in RowIds : BandwidthGetByPlan(p)

-----------------------------------------------------------------------------
(* Customers.  Half of the columns are in play at a time.                   *)

CustomerColumns(t) ==
  [id : RowIds, tenant : Owners, no : Keys, status : {"active", "isolated"}, deleted : {FALSE},
   user   : IF t = "customers" THEN Keys \cup {Nothing} ELSE {Nothing},
   place  : IF t = "customers" THEN {FALSE} ELSE BOOLEAN,
   until  : IF t = "customers" THEN {Nothing} ELSE {Nothing, "past"},
   portal : IF t = "customers" THEN {FALSE} ELSE BOOLEAN]

CustomerRows == CustomerColumns(table)
NewCustomers == {x \in CustomerRows : x.until = Nothing /\ ~x.portal}

SameNo(c, x) == c.tenant = x.tenant /\ c.no = x.no
SameUser(c, x) == c.tenant = x.tenant /\ c.user = x.user /\ x.user # Nothing

CustomerIn(rows, t, id) == ById(Owned(rows, t), id)

\* mapCustomerErr tells the two unique indexes apart; that of the number is looked
\* at first.
NoTaken == "customer_no"
UserTaken == "pppoe_username"
CustomerErrors == [customer_no |-> "ErrNoTaken", pppoe_username |-> "ErrUsernameTaken"]

SqlCreateCustomer(x) ==
  IF \E c \in Present(sql) : SameNo(c, x) THEN Refusal(sql, NoTaken)
    ELSE IF \E c \in Present(sql) : SameUser(c, x) THEN Refusal(sql, UserTaken)
    ELSE Insert(sql, x)
\* The double meets the customers in any order.
MemCustomerCreate(x) ==
  LET met == {c \in mem : SameNo(c, x) \/ SameUser(c, x)} IN
  IF met = {} THEN {Insert(mem, x)}
    ELSE {Refusal(mem, IF SameNo(c, x) THEN "ErrNoTaken" ELSE "ErrUsernameTaken") : c \in met}
\* With both taken it may complain of the other one.
CustomerCreate(x) ==
  \E m \in MemCustomerCreate(x) :
    Call(Adapt(SqlCreateCustomer(x), CustomerErrors), m,
         m.error = "ErrUsernameTaken" => \A c \in Present(sql) : ~SameNo(c, x))

SqlGetCustomerByID(t, id) == One(sql, CustomerIn(Present(sql), t, id), NoRows)
MemCustomerGetByID(t, id) == One(mem, CustomerIn(mem, t, id), "ErrNotFound")
CustomerGetByID(t, id) ==
  Call(Adapt(SqlGetCustomerByID(t, id), [no_rows |-> "ErrNotFound"]), MemCustomerGetByID(t, id), TRUE)

SqlGetCustomerByNo(t, no) == One(sql, {c \in Owned(Present(sql), t) : c.no = no}, NoRows)
MemCustomerGetByNo(t, no) == One(mem, {c \in Owned(mem, t) : c.no = no}, "ErrNotFound")
CustomerGetByNo(t, no) ==
  Call(Adapt(SqlGetCustomerByNo(t, no), [no_rows |-> "ErrNotFound"]), MemCustomerGetByNo(t, no), TRUE)

SqlListCustomersByTenant(t) == Answer(sql, Owned(Present(sql), t))
MemCustomerList(t) == Answer(mem, Owned(mem, t))
CustomerList(t) == Call(Wrap(SqlListCustomersByTenant(t)), MemCustomerList(t), TRUE)

SqlCountCustomersByTenant(t) == Answer(sql, {Cardinality(Owned(Present(sql), t))})
MemCustomerCount(t) == Answer(mem, {Cardinality(Owned(mem, t))})
CustomerCount(t) == Call(Wrap(SqlCountCustomersByTenant(t)), MemCustomerCount(t), TRUE)

\* Neither the number nor active_until nor the portal password is written.
SqlUpdateCustomer(x) ==
  LET found == CustomerIn(Present(sql), x.tenant, x.id) IN
  IF found # {} /\ \E c \in Present(sql) \ found : SameUser(c, x)
    THEN Refusal(sql, UserTaken)
    ELSE ChangeOne(sql, found,
           LAMBDA c : [x EXCEPT !.no = c.no, !.until = c.until, !.portal = c.portal], NoRows)
MemCustomerUpdate(x) == ChangeOne(mem, CustomerIn(mem, x.tenant, x.id), LAMBDA c : x, "ErrNotFound")
\* The double writes them, and lets two customers have one user name.
CustomerUpdate(x) ==
  Call(Adapt(SqlUpdateCustomer(x),
             [no_rows |-> "ErrNotFound", customer_no |-> "ErrNoTaken", pppoe_username |-> "ErrUsernameTaken"]),
       MemCustomerUpdate(x),
       \A c \in CustomerIn(Present(sql), x.tenant, x.id) :
         /\ c.no = x.no /\ c.until = x.until /\ c.portal = x.portal
         /\ \A d \in Present(sql) \ {c} : ~SameUser(d, x))

SqlUpdateCustomerStatus(t, id, status) ==
  Silent(Change(sql, CustomerIn(Present(sql), t, id), LAMBDA c : [c EXCEPT !.status = status]))
MemCustomerUpdateStatus(t, id, status) ==
  Silent(ChangeOne(mem, CustomerIn(mem, t, id), LAMBDA c : [c EXCEPT !.status = status], "ErrNotFound"))
\* None of the following statements minds finding nobody; the double does.
CustomerUpdateStatus(t, id, status) ==
  Call(Wrap(SqlUpdateCustomerStatus(t, id, status)), MemCustomerUpdateStatus(t, id, status),
       CustomerIn(Present(sql), t, id) # {})

SqlSetCustomerActiveUntil(t, id, until, status) ==
  Silent(Change(sql, CustomerIn(Present(sql), t, id), LAMBDA c : [c EXCEPT !.until = until, !.status = status]))
MemCustomerSetActiveUntil(t, id, until, status) ==
  Silent(ChangeOne(mem, CustomerIn(mem, t, id),
                   LAMBDA c : [c EXCEPT !.until = until, !.status = status], "ErrNotFound"))
CustomerSetActiveUntil(t, id, until, status) ==
  Call(Wrap(SqlSetCustomerActiveUntil(t, id, until, status)), MemCustomerSetActiveUntil(t, id, until, status),
       CustomerIn(Present(sql), t, id) # {})

SqlSetPortalPassword(t, id) ==
  Silent(Change(sql, CustomerIn(Present(sql), t, id), LAMBDA c : [c EXCEPT !.portal = TRUE]))
MemCustomerSetPortalPassword(t, id) ==
  Silent(ChangeOne(mem, CustomerIn(mem, t, id), LAMBDA c : [c EXCEPT !.portal = TRUE], "ErrNotFound"))
CustomerSetPortalPassword(t, id) ==
  Call(Wrap(SqlSetPortalPassword(t, id)), MemCustomerSetPortalPassword(t, id),
       CustomerIn(Present(sql), t, id) # {})

SqlSoftDeleteCustomer(t, id) ==
  Silent(Change(sql, CustomerIn(Present(sql), t, id), LAMBDA c : [c EXCEPT !.deleted = TRUE]))
MemCustomerSoftDelete(t, id) == Silent(Delete(mem, CustomerIn(mem, t, id)))
CustomerSoftDelete(t, id) == Call(Wrap(SqlSoftDeleteCustomer(t, id)), MemCustomerSoftDelete(t, id), TRUE)

SqlListCustomersWithLocation(t) == Answer(sql, {c \in Owned(Present(sql), t) : c.place})
MemCustomerListWithLocation(t) == Answer(mem, {c \in Owned(mem, t) : c.place})
CustomerListWithLocation(t) ==
  Call(Wrap(SqlListCustomersWithLocation(t)), MemCustomerListWithLocation(t), TRUE)

ExpiredActive(rows) == {c \in rows : c.status = "active" /\ c.until = "past"}

SqlListExpiredActiveCustomers == Answer(sql, ExpiredActive(Present(sql)))
MemCustomerListExpiredActive == Answer(mem, ExpiredActive(mem))
CustomerListExpiredActive == Call(Wrap(SqlListExpiredActiveCustomers), MemCustomerListExpiredActive, TRUE)

CustomerCalls ==
  /\ table \in {"customers", "customers, other columns"}
  /\ \/ \E x \in CustomerRows :
          (x \in NewCustomers /\ x.id \in Fresh /\ CustomerCreate(x)) \/ CustomerUpdate(x)
     \/ CustomerListExpiredActive
     \/ \E t \in Owners :
          \/ CustomerList(t) \/ CustomerCount(t) \/ CustomerListWithLocation(t)
          \/ \E k \in Keys : CustomerGetByNo(t, k)
          \/ \E id \in RowIds :
               \/ CustomerGetByID(t, id) \/ CustomerSoftDelete(t, id)
               \/ \E s \in {"active", "isolated"} : CustomerUpdateStatus(t, id, s)
               \/ /\ table # "customers"
                  /\ \/ CustomerSetPortalPassword(t, id)
                     \/ \E s \in {"active", "isolated"} : CustomerSetActiveUntil(t, id, "past", s)

=============================================================================
