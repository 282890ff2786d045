------------------------- MODULE ServiceAccessProofs -------------------------
(***************************************************************************)
(* The safety properties of ServiceAccess, for any number of customers,    *)
(* payments and lookups.  Two inductive invariants, one for the groups of  *)
(* the customers and one for the cache, rest on type correctness.          *)
(***************************************************************************)
EXTENDS ServiceAccess, TLAPS

\* Only the scan marks customers.
PaymentsNeverMark == \A p \in Payments : at[p] # "mark"

\* The scan and a payment at the same customer tear the switch.
RivalsTear ==
  \A p \in Payments, c \in Customers : At(p, c) /\ At(Scanner, c) => c \in torn

\* Whom the scan has listed and not marked yet is active, and whom it is at is
\* off its list.
ListedAreActive ==
  \A c \in Customers :
    /\ c \in todo \/ At(Scanner, c) => status[c] = "active"
    /\ ~(c \in todo /\ At(Scanner, c))

\* Whom a payment is restoring has paid.
RestoredHavePaid ==
  \A p \in Payments, c \in Customers :
    At(p, c) => c \notin expired /\ (c \notin torn => status[c] = "active")

\* Among payments alone, the plan's row is there or somebody is about to write it.
Restoring ==
  \A c \in Customers \ torn :
    (\E p \in Payments : At(p, c)) =>
      \/ rows[c] = {"plan"}
      \/ \E p \in Payments : who[p] = c /\ at[p] = "delete"
      \/ rows[c] = {} /\ \E p \in Payments : who[p] = c /\ at[p] = "insert"

\* A scan alone at a customer leaves the isolation group behind.
Isolating ==
  \A c \in Customers \ torn : who[Scanner] = c =>
    /\ at[Scanner] = "insert" => rows[c] = {}
    /\ at[Scanner] \in {"forget", "mark"} => rows[c] = {"isolir"}

\* The inductive invariant for the groups.
GInv ==
  /\ PaymentsNeverMark
  /\ RivalsTear
  /\ ListedAreActive
  /\ RestoredHavePaid
  /\ Restoring
  /\ Isolating
  /\ ActiveIsServed
  /\ IsolatedIsCut

\* An entry has time left, an outdated one no more than the grace.
EntryInGrace ==
  \A c \in Customers :
    /\ cache[c] # {} => ttl[c] > 0
    /\ cache[c] \subseteq {rows[c]} \/ ttl[c] <= grace[c]

\* What an outdated read may still write will be gone within the grace.
ReadInGrace ==
  \A l \in Lookups :
    reading[l] # Nobody /\ left[l] > 0 /\ got[l] # rows[reading[l]]
      => CacheTTL + left[l] <= grace[reading[l]]

\* The inductive invariant for the cache.
CInv == EntryInGrace /\ ReadInGrace

-----------------------------------------------------------------------------
(* Type correctness.                                                        *)

\* What the type invariant needs to know of the sets it names.
LEMMA Ranges ==
  /\ {} \in Entries
  /\ \A g \in SUBSET Groups : {g} \in Entries
  /\ \A g \in SUBSET Groups : g \cup {"plan"} \in SUBSET Groups
  /\ \A g \in SUBSET Groups : g \cup {"isolir"} \in SUBSET Groups
  /\ {} \in SUBSET Groups /\ {"plan"} \in SUBSET Groups
  /\ Grace \in Nat /\ Grace \in 0..Grace /\ 0 \in 0..Grace
  /\ 0 \in 0..CacheTTL /\ CacheTTL \in 0..CacheTTL
  /\ 0 \in 0..RequestTimeout /\ RequestTimeout \in 0..RequestTimeout
  /\ 0 \in 0..MaxFaults
  BY AccessAssumption DEF Entries, Groups, Grace

\* One unit less stays in range.
LEMMA LessRange == ASSUME NEW m \in Nat, NEW n \in 0..m PROVE Less(n) \in 0..m
  BY DEF Less

\* The initial state is well-typed.
LEMMA InitType == Init => TypeOK
  BY Ranges DEF Init, TypeOK

\* A switcher that is under way is at a customer.
LEMMA SwitcherHasCustomer ==
  ASSUME TypeOK, NEW s \in Switchers, at[s] # "idle" PROVE who[s] \in Customers
  BY DEF TypeOK

\* A switcher that leaves, goes on or turns to a customer stays well-typed.
LEMMA SwitcherType ==
  ASSUME TypeOK, NEW s \in Switchers,
         \/ Leave(s)
         \/ at[s] # "idle" /\ Proceed(s)
         \/ \E l \in {"insert", "forget"} : at[s] # "idle" /\ Goto(s, l) /\ UNCHANGED who
         \/ \E c \in Customers : Begin(s, c)
  PROVE  /\ at' \in [Switchers -> {"idle", "delete", "insert", "forget", "mark"}]
         /\ who' \in [Switchers -> Customers \cup {Nobody}]
         /\ \A r \in Switchers : at'[r] # "idle" => who'[r] \in Customers
<1> USE DEF TypeOK, Goto
<1>1. CASE Leave(s)
  BY <1>1 DEF Leave
<1>2. CASE at[s] # "idle" /\ Proceed(s)
  BY <1>1, <1>2 DEF Proceed
<1>3. CASE \E l \in {"insert", "forget"} : at[s] # "idle" /\ Goto(s, l) /\ UNCHANGED who
  BY <1>3
<1>4. CASE \E c \in Customers : Begin(s, c)
  BY <1>4 DEF Begin
<1> QED
  BY <1>1, <1>2, <1>3, <1>4

\* Changing a customer's rows keeps rows and grace well-typed.
LEMMA ChangeType ==
  ASSUME TypeOK, NEW c \in Customers, NEW g \in SUBSET Groups, Change(c, g)
  PROVE  rows' \in [Customers -> SUBSET Groups] /\ grace' \in [Customers -> 0..Grace]
  BY Ranges DEF Change, TypeOK

\* Every step keeps the state well-typed.
LEMMA NextType == TypeOK /\ [Next]_vars => TypeOK'
<1> SUFFICES ASSUME TypeOK, [Next]_vars PROVE TypeOK'
  OBVIOUS
<1> USE AccessAssumption, Ranges DEF accessVars, switchVars, lookupVars, cacheVars
<1>1. CASE UNCHANGED vars
  BY <1>1 DEF vars, TypeOK
<1>2. CASE Tick
  <2>1. /\ cache' \in [Customers -> Entries]
        /\ ttl' \in [Customers -> 0..CacheTTL]
        /\ left' \in [Lookups -> 0..RequestTimeout]
        /\ grace' \in [Customers -> 0..Grace]
    BY <1>2, LessRange DEF Tick, TypeOK
  <2> QED
    BY <1>2, <2>1 DEF Tick, TypeOK
<1>3. CASE List
  BY <1>3 DEF List, Lists, Due, TypeOK
<1>4. ASSUME NEW c \in Customers, TakeOn(c) PROVE TypeOK'
  <2>1. Scanner \in Switchers
    BY DEF Switchers
  <2> QED
    BY <1>4, <2>1, SwitcherType DEF TakeOn, Begin, TypeOK
<1>5. ASSUME NEW s \in Switchers, Switch(s) PROVE TypeOK'
  <2>1. CASE DeleteRows(s)
    BY <2>1, SwitcherType, SwitcherHasCustomer, ChangeType DEF DeleteRows, TypeOK
  <2>2. CASE InsertRow(s)
    <3>1. who[s] \in Customers /\ rows[who[s]] \in SUBSET Groups
      BY <2>2, SwitcherHasCustomer DEF InsertRow, TypeOK
    <3>2. rows[who[s]] \cup {IF s = Scanner THEN "isolir" ELSE "plan"} \in SUBSET Groups
      BY <3>1
    <3> QED
      BY <2>2, <3>1, <3>2, SwitcherType, ChangeType DEF InsertRow, TypeOK
  <2>3. CASE Forget(s)
    BY <2>3, SwitcherType, SwitcherHasCustomer DEF Forget, TypeOK
  <2> QED
    BY <1>5, <2>1, <2>2, <2>3 DEF Switch
<1>6. CASE Mark
  <2>1. Scanner \in Switchers
    BY DEF Switchers
  <2> QED
    BY <1>6, <2>1, SwitcherType DEF Mark, TypeOK
<1>7. CASE MarkFails
  <2>1. Scanner \in Switchers
    BY DEF Switchers
  <2> QED
    BY <1>7, <2>1, SwitcherType DEF MarkFails, CutShort, Fault, TypeOK
<1>8. ASSUME NEW c \in Customers, Expire(c) PROVE TypeOK'
  BY <1>8 DEF Expire, TypeOK
<1>9. ASSUME NEW p \in Payments, NEW c \in Customers, Settle(p, c) PROVE TypeOK'
  <2>1. p \in Switchers
    BY DEF Switchers
  <2> QED
    BY <1>9, <2>1, SwitcherType DEF Settle, Begin, TypeOK
<1>10. ASSUME NEW s \in Switchers, SwitchFails(s) PROVE TypeOK'
  BY <1>10, SwitcherType, SwitcherHasCustomer DEF SwitchFails, Fault, TypeOK
<1>11. ASSUME NEW s \in Switchers, ForgetFails(s) PROVE TypeOK'
  BY <1>11, SwitcherType DEF ForgetFails, Fault, TypeOK
<1>12. ASSUME NEW s \in Switchers, Crash(s) PROVE TypeOK'
  BY <1>12, SwitcherType DEF Crash, CutShort, Fault, TypeOK
<1>13. ASSUME NEW l \in Lookups, NEW c \in Dialing, Read(l, c) PROVE TypeOK'
  BY <1>13 DEF Read, TypeOK
<1>14. ASSUME NEW l \in Lookups, Fill(l) PROVE TypeOK'
  BY <1>14 DEF Fill, Done, TypeOK
<1>15. ASSUME NEW l \in Lookups, GiveUp(l) PROVE TypeOK'
  BY <1>15 DEF GiveUp, Done, TypeOK
<1> QED
  BY <1>1, <1>2, <1>3, <1>4, <1>5, <1>6, <1>7, <1>8, <1>9, <1>10, <1>11, <1>12,
     <1>13, <1>14, <1>15 DEF Next, Scan, Switchers

\* ServiceAccess stays well-typed.
THEOREM TypeInvariant == Spec => []TypeOK
  BY InitType, NextType, PTL DEF Spec

-----------------------------------------------------------------------------
(* The groups of the customers.                                             *)

\* The group invariant holds initially.
LEMMA InitGroups == Init => GInv
  BY AccessAssumption DEF Init, GInv, PaymentsNeverMark, RivalsTear, ListedAreActive,
     RestoredHavePaid, Restoring, Isolating, ActiveIsServed, IsolatedIsCut, At, Busy,
     Switchers

\* It does not look at the cache.
LEMMA GroupsFrame == GInv /\ UNCHANGED <<accessVars, switchVars>> => GInv'
  BY DEF GInv, PaymentsNeverMark, RivalsTear, ListedAreActive, RestoredHavePaid,
     Restoring, Isolating, ActiveIsServed, IsolatedIsCut, At, Busy, accessVars, switchVars

\* Turning to a customer keeps it: TakeOn and Settle.
LEMMA TakeOnGroups == ASSUME TypeOK, GInv, NEW c \in Customers, TakeOn(c) PROVE GInv'
<1> USE AccessAssumption DEF TypeOK, TakeOn, Begin, Goto, Rivals, At, Switchers, accessVars
<1>1. PaymentsNeverMark' /\ ListedAreActive' /\ RivalsTear' /\ RestoredHavePaid'
  BY DEF GInv, PaymentsNeverMark, RivalsTear, ListedAreActive, RestoredHavePaid
<1>2. Restoring' /\ Isolating'
  BY DEF GInv, Restoring, Isolating
<1>3. ActiveIsServed' /\ IsolatedIsCut'
  BY DEF GInv, ActiveIsServed, IsolatedIsCut, Busy
<1> QED
  BY <1>1, <1>2, <1>3 DEF GInv

\* A payment that commits keeps it.
LEMMA SettleGroups ==
  ASSUME TypeOK, GInv, NEW p \in Payments, NEW c \in Customers, Settle(p, c) PROVE GInv'
<1> USE AccessAssumption DEF TypeOK, Settle, Begin, Goto, Rivals, At, Switchers, accessVars
<1>1. PaymentsNeverMark' /\ ListedAreActive' /\ RivalsTear' /\ RestoredHavePaid'
  BY DEF GInv, PaymentsNeverMark, RivalsTear, ListedAreActive, RestoredHavePaid
<1>2. Restoring' /\ Isolating'
  BY DEF GInv, Restoring, Isolating
<1>3. ActiveIsServed' /\ IsolatedIsCut'
  BY DEF GInv, ActiveIsServed, IsolatedIsCut, Busy
<1> QED
  BY <1>1, <1>2, <1>3 DEF GInv

\* The DELETE of a switch keeps it.
LEMMA DeleteGroups == ASSUME TypeOK, GInv, NEW s \in Switchers, DeleteRows(s) PROVE GInv'
<1> USE AccessAssumption DEF TypeOK, DeleteRows, Change, Goto, At, Switchers
<1>1. PaymentsNeverMark' /\ ListedAreActive' /\ RivalsTear' /\ RestoredHavePaid'
  BY DEF GInv, PaymentsNeverMark, RivalsTear, ListedAreActive, RestoredHavePaid
<1>2. Restoring' /\ Isolating'
  BY DEF GInv, Restoring, Isolating, RivalsTear
<1>3. ActiveIsServed' /\ IsolatedIsCut'
  BY DEF GInv, ActiveIsServed, IsolatedIsCut, Busy
<1> QED
  BY <1>1, <1>2, <1>3 DEF GInv

\* So does its INSERT.
LEMMA InsertGroups == ASSUME TypeOK, GInv, NEW s \in Switchers, InsertRow(s) PROVE GInv'
<1> USE AccessAssumption DEF TypeOK, InsertRow, Change, Goto, At, Switchers
<1>1. PaymentsNeverMark' /\ ListedAreActive' /\ RivalsTear' /\ RestoredHavePaid'
  BY DEF GInv, PaymentsNeverMark, RivalsTear, ListedAreActive, RestoredHavePaid
<1>2. Restoring' /\ Isolating'
  BY DEF GInv, Restoring, Isolating, RivalsTear
<1>3. ActiveIsServed' /\ IsolatedIsCut'
  BY DEF GInv, ActiveIsServed, IsolatedIsCut, Busy
<1> QED
  BY <1>1, <1>2, <1>3 DEF GInv

\* Going on after a complete switch keeps it, whether the cache was told or not.
LEMMA ProceedGroups ==
  ASSUME TypeOK, GInv, NEW s \in Switchers,
         at[s] = "forget", Proceed(s), UNCHANGED <<accessVars, todo>>
  PROVE  GInv'
<1> USE AccessAssumption DEF TypeOK, Proceed, Leave, Goto, At, Switchers, accessVars
<1>1. PaymentsNeverMark' /\ ListedAreActive' /\ RivalsTear' /\ RestoredHavePaid'
  BY DEF GInv, PaymentsNeverMark, RivalsTear, ListedAreActive, RestoredHavePaid
<1>2. Restoring' /\ Isolating'
  BY DEF GInv, Restoring, Isolating
<1>3. ActiveIsServed' /\ IsolatedIsCut'
  BY DEF GInv, ActiveIsServed, IsolatedIsCut, Busy, Restoring, RestoredHavePaid, Isolating,
     ListedAreActive
<1> QED
  BY <1>1, <1>2, <1>3 DEF GInv

\* A switch that fails tears, which keeps it.
LEMMA FailGroups == ASSUME TypeOK, GInv, NEW s \in Switchers, SwitchFails(s) PROVE GInv'
<1> USE AccessAssumption DEF TypeOK, SwitchFails, Proceed, Leave, Goto, At, Switchers
<1>1. PaymentsNeverMark' /\ ListedAreActive' /\ RivalsTear' /\ RestoredHavePaid'
  BY DEF GInv, PaymentsNeverMark, RivalsTear, ListedAreActive, RestoredHavePaid
<1>2. Restoring' /\ Isolating'
  BY DEF GInv, Restoring, Isolating
<1>3. ActiveIsServed' /\ IsolatedIsCut'
  BY DEF GInv, ActiveIsServed, IsolatedIsCut, Busy
<1> QED
  BY <1>1, <1>2, <1>3 DEF GInv

\* The mark of the scan keeps it.
LEMMA MarkGroups == ASSUME TypeOK, GInv, Mark PROVE GInv'
<1> USE AccessAssumption DEF TypeOK, Mark, Leave, Goto, At, Switchers
<1>1. PaymentsNeverMark' /\ ListedAreActive' /\ RivalsTear' /\ RestoredHavePaid'
  BY DEF GInv, PaymentsNeverMark, RivalsTear, ListedAreActive, RestoredHavePaid
<1>2. Restoring' /\ Isolating'
  BY DEF GInv, Restoring, Isolating
<1>3. ActiveIsServed' /\ IsolatedIsCut'
  BY DEF GInv, ActiveIsServed, IsolatedIsCut, Busy, Isolating
<1> QED
  BY <1>1, <1>2, <1>3 DEF GInv

\* Work that is cut short keeps it: a dead process, a failing mark.
LEMMA CutShortGroups ==
  ASSUME TypeOK, GInv, NEW s \in Switchers, CutShort(s), todo' \subseteq todo
  PROVE  GInv'
<1> USE AccessAssumption DEF TypeOK, CutShort, Leave, Goto, At, Switchers
<1>1. PaymentsNeverMark' /\ ListedAreActive' /\ RivalsTear' /\ RestoredHavePaid'
  BY DEF GInv, PaymentsNeverMark, RivalsTear, ListedAreActive, RestoredHavePaid
<1>2. Restoring' /\ Isolating'
  BY DEF GInv, Restoring, Isolating, RestoredHavePaid
<1>3. ActiveIsServed' /\ IsolatedIsCut'
  BY DEF GInv, ActiveIsServed, IsolatedIsCut, Busy, ListedAreActive, RestoredHavePaid
<1> QED
  BY <1>1, <1>2, <1>3 DEF GInv

\* Every step keeps the group invariant.
LEMMA NextGroups == TypeOK /\ GInv /\ [Next]_vars => GInv'
<1> SUFFICES ASSUME TypeOK, GInv, [Next]_vars PROVE GInv'
  OBVIOUS
<1>1. CASE UNCHANGED vars
  BY <1>1, GroupsFrame DEF vars
<1>2. CASE Tick
  BY <1>2, GroupsFrame DEF Tick
<1>3. CASE List
  BY <1>3 DEF List, Lists, Due, GInv, PaymentsNeverMark, RivalsTear, ListedAreActive,
     RestoredHavePaid, Restoring, Isolating, ActiveIsServed, IsolatedIsCut, At, Busy,
     accessVars
<1>4. ASSUME NEW c \in Customers, TakeOn(c) PROVE GInv'
  BY <1>4, TakeOnGroups
<1>5. ASSUME NEW s \in Switchers, Switch(s) PROVE GInv'
  BY <1>5, DeleteGroups, InsertGroups, ProceedGroups DEF Switch, Forget
<1>6. CASE Mark
  BY <1>6, MarkGroups
<1>7. CASE MarkFails
  BY <1>7, CutShortGroups DEF MarkFails, Switchers
<1>8. ASSUME NEW c \in Customers, Expire(c) PROVE GInv'
  BY <1>8 DEF Expire, GInv, PaymentsNeverMark, RivalsTear, ListedAreActive,
     RestoredHavePaid, Restoring, Isolating, ActiveIsServed, IsolatedIsCut, At, Busy,
     switchVars, Switchers
<1>9. ASSUME NEW p \in Payments, NEW c \in Customers, Settle(p, c) PROVE GInv'
  BY <1>9, SettleGroups
<1>10. ASSUME NEW s \in Switchers, SwitchFails(s) PROVE GInv'
  BY <1>10, FailGroups
<1>11. ASSUME NEW s \in Switchers, ForgetFails(s) PROVE GInv'
  BY <1>11, ProceedGroups DEF ForgetFails
<1>12. ASSUME NEW s \in Switchers, Crash(s) PROVE GInv'
  BY <1>12, CutShortGroups DEF Crash
<1>13. ASSUME NEW l \in Lookups, (\E c \in Dialing : Read(l, c)) \/ Fill(l) \/ GiveUp(l)
       PROVE  GInv'
  BY <1>13, GroupsFrame DEF Read, Fill, GiveUp
<1> QED
  BY <1>1, <1>2, <1>3, <1>4, <1>5, <1>6, <1>7, <1>8, <1>9, <1>10, <1>11, <1>12,
     <1>13 DEF Next, Scan, Switchers

\* Paid-up active customers have the plan's group, whatever fails elsewhere.
THEOREM ActiveServed == Spec => []ActiveIsServed
<1>1. GInv => ActiveIsServed
  BY DEF GInv
<1> QED
  BY <1>1, TypeInvariant, InitGroups, NextGroups, PTL DEF Spec

\* Customers marked isolated have the isolation group and nothing else.
THEOREM IsolatedCut == Spec => []IsolatedIsCut
<1>1. GInv => IsolatedIsCut
  BY DEF GInv
<1> QED
  BY <1>1, TypeInvariant, InitGroups, NextGroups, PTL DEF Spec

-----------------------------------------------------------------------------
(* The cache.                                                               *)

\* The cache invariant holds initially.
LEMMA InitCache == Init => CInv
  BY DEF Init, CInv, EntryInGrace, ReadInGrace

\* It does not look at the switchers.
LEMMA CacheFrame == CInv /\ UNCHANGED <<rows, cacheVars, lookupVars, grace>> => CInv'
  BY DEF CInv, EntryInGrace, ReadInGrace, cacheVars, lookupVars

\* A change of the rows allows what is under way the full grace.
LEMMA ChangeCache ==
  ASSUME TypeOK, CInv, NEW c \in Customers, NEW g \in SUBSET Groups, Change(c, g),
         UNCHANGED <<cacheVars, lookupVars>>
  PROVE  CInv'
<1> USE AccessAssumption DEF CInv, TypeOK, Change, Grace, cacheVars, lookupVars
<1>1. EntryInGrace'
  BY DEF EntryInGrace
<1>2. ReadInGrace'
  BY DEF ReadInGrace
<1> QED
  BY <1>1, <1>2

\* Every step keeps the cache invariant.
LEMMA NextCache == TypeOK /\ CInv /\ [Next]_vars => CInv'
<1> SUFFICES ASSUME TypeOK, CInv, [Next]_vars PROVE CInv'
  OBVIOUS
<1> USE AccessAssumption
<1>1. CASE UNCHANGED vars
  BY <1>1, CacheFrame DEF vars, accessVars
<1>2. CASE Tick
  BY <1>2 DEF Tick, Less, CInv, EntryInGrace, ReadInGrace, TypeOK, accessVars
<1>3. CASE List \/ Mark \/ MarkFails
  BY <1>3, CacheFrame DEF List, Mark, MarkFails, CutShort, accessVars
<1>4. ASSUME NEW c \in Customers, TakeOn(c) \/ Expire(c) PROVE CInv'
  BY <1>4, CacheFrame DEF TakeOn, Expire
<1>5. ASSUME NEW s \in Switchers, Switch(s) PROVE CInv'
  <2>1. CASE DeleteRows(s)
    BY <2>1, SwitcherHasCustomer, ChangeCache DEF DeleteRows
  <2>2. CASE InsertRow(s)
    <3>1. who[s] \in Customers /\ rows[who[s]] \in SUBSET Groups
      BY <2>2, SwitcherHasCustomer DEF InsertRow, TypeOK
    <3>2. rows[who[s]] \cup {IF s = Scanner THEN "isolir" ELSE "plan"} \in SUBSET Groups
      BY <3>1, Ranges
    <3> QED
      BY <2>2, <3>1, <3>2, ChangeCache DEF InsertRow
  <2>3. CASE Forget(s)
    BY <2>3 DEF Forget, CInv, EntryInGrace, ReadInGrace, TypeOK, accessVars, lookupVars
  <2> QED
    BY <1>5, <2>1, <2>2, <2>3 DEF Switch
<1>6. ASSUME NEW p \in Payments, NEW c \in Customers, Settle(p, c) PROVE CInv'
  BY <1>6, CacheFrame DEF Settle
<1>7. ASSUME NEW s \in Switchers, SwitchFails(s) \/ ForgetFails(s) \/ Crash(s)
      PROVE  CInv'
  BY <1>7, CacheFrame DEF SwitchFails, ForgetFails, Crash, CutShort, accessVars
<1>8. ASSUME NEW l \in Lookups, NEW c \in Dialing, Read(l, c) PROVE CInv'
  BY <1>8 DEF Read, CInv, EntryInGrace, ReadInGrace, TypeOK, accessVars, cacheVars
<1>9. ASSUME NEW l \in Lookups, Fill(l) PROVE CInv'
  BY <1>9 DEF Fill, Done, CInv, EntryInGrace, ReadInGrace, TypeOK, accessVars
<1>10. ASSUME NEW l \in Lookups, GiveUp(l) PROVE CInv'
  BY <1>10 DEF GiveUp, Done, CInv, EntryInGrace, ReadInGrace, TypeOK, accessVars, cacheVars
<1> QED
  BY <1>1, <1>2, <1>3, <1>4, <1>5, <1>6, <1>7, <1>8, <1>9, <1>10
     DEF Next, Scan, Switchers

\* A cached reply is out of date for a request and a cache life at most, whether or
\* not the invalidation comes through and however it races with a lookup.
THEOREM StaleBrief == Spec => []StaleIsBrief
<1>1. TypeOK /\ CInv => StaleIsBrief
  BY DEF TypeOK, CInv, EntryInGrace, StaleIsBrief
<1> QED
  BY <1>1, InitType, NextType, InitCache, NextCache, PTL DEF Spec

=============================================================================
