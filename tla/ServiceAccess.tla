---------------------------- MODULE ServiceAccess ----------------------------
(***************************************************************************)
(* Who is served and who is cut off: the isolation scan of cmd/scheduler   *)
(* (billingsvc.RunIsolirScan), the restore at the end of a payment         *)
(* (PayInvoice, settle), both through coasvc.switchGroup, and the cached   *)
(* user lookups of the RADIUS server (radiussvc.Lookup).                   *)
(*                                                                         *)
(* A switcher is the scan or a payment; every statement it sends outside a *)
(* transaction is a step of its own.  A lookup is one that has missed the  *)
(* cache and read the database.  Time is kept as countdowns for the        *)
(* entries of the cache and the deadlines of the lookups.                  *)
(*                                                                         *)
(* A definition whose name ends in _Bug is the one that follows it with a  *)
(* mistake in it; no specification uses it.                                *)
(***************************************************************************)
EXTENDS Naturals, FiniteSets

CONSTANTS
  Customers,
  Payments,        \* payments under way at once
  Scanner,         \* the isolation scan
  Lookups,         \* RADIUS requests under way at once
  Dialing,         \* the customers they are about
  Nobody,          \* no customer
  Limit,           \* customers one scan takes on
  CacheTTL,        \* how long a cache entry lives
  RequestTimeout,  \* how long a RADIUS request may take
  MaxFaults        \* failing statements and crashes considered

ASSUME AccessAssumption ==
  /\ Scanner \notin Payments
  /\ Nobody \notin Customers
  /\ Dialing \subseteq Customers
  /\ Limit \in Nat
  /\ CacheTTL \in Nat \ {0}
  /\ RequestTimeout \in Nat
  /\ MaxFaults \in Nat

Switchers == Payments \cup {Scanner}
Groups == {"plan", "isolir"}
Entries == {{}} \cup {{g} : g \in SUBSET Groups}

\* How long a reply may be out of date.
Grace == CacheTTL + RequestTimeout

VARIABLES
  status,     \* customers.status
  expired,    \* customers whose active_until has passed
  rows,       \* their radusergroup rows: the groups RADIUS replies with
  at,         \* where each switcher stands
  who,        \* the customer it is at
  todo,       \* what is left of the list the scan has read
  cache,      \* the groups behind the cached reply, as a set; {} without an entry
  ttl,        \* time the entry has left
  reading,    \* the customer each lookup is about
  got,        \* the groups it has read
  left,       \* time until its request is done
  grace,      \* time for which an outdated reply may still be given
  torn,       \* customers a switch was disturbed at and none was clean since
  faults

accessVars == <<status, expired, rows, torn>>
switchVars == <<at, who, todo>>
lookupVars == <<reading, got, left>>
cacheVars  == <<cache, ttl>>
vars == <<accessVars, switchVars, lookupVars, cacheVars, grace, faults>>

TypeOK ==
  /\ status \in [Customers -> {"active", "isolated"}]
  /\ expired \subseteq Customers
  /\ rows \in [Customers -> SUBSET Groups]
  /\ at \in [Switchers -> {"idle", "delete", "insert", "forget", "mark"}]
  /\ who \in [Switchers -> Customers \cup {Nobody}]
  /\ \A s \in Switchers : at[s] # "idle" => who[s] \in Customers
  /\ todo \subseteq Customers
  /\ cache \in [Customers -> Entries]
  /\ ttl \in [Customers -> 0..CacheTTL]
  /\ reading \in [Lookups -> Customers \cup {Nobody}]
  /\ got \in [Lookups -> SUBSET Groups]
  /\ left \in [Lookups -> 0..RequestTimeout]
  /\ grace \in [Customers -> 0..Grace]
  /\ torn \subseteq Customers
  /\ faults \in 0..MaxFaults

\* Provisioned customers: customersvc writes status and group in one transaction.
Init ==
  /\ status  = [c \in Customers |-> "active"]
  /\ expired = {}
  /\ rows    = [c \in Customers |-> {"plan"}]
  /\ at      = [s \in Switchers |-> "idle"]
  /\ who     = [s \in Switchers |-> Nobody]
  /\ todo    = {}
  /\ cache   = [c \in Customers |-> {}]
  /\ ttl     = [c \in Customers |-> 0]
  /\ reading = [l \in Lookups |-> Nobody]
  /\ got     = [l \in Lookups |-> {}]
  /\ left    = [l \in Lookups |-> 0]
  /\ grace   = [c \in Customers |-> 0]
  /\ torn    = {}
  /\ faults  = 0

-----------------------------------------------------------------------------
At(s, c) == at[s] # "idle" /\ who[s] = c
Busy(c)  == \E s \in Switchers : At(s, c)

\* The scan and the payments disturb each other; payments do not.
Rivals(s) == IF s = Scanner THEN Payments ELSE {Scanner}

Goto(s, l) == at' = [at EXCEPT ![s] = l]

Leave(s) ==
  /\ Goto(s, "idle")
  /\ who' = [who EXCEPT ![s] = Nobody]

Begin_Bug(s, c) ==    \* the switcher forgets whom it is at
  /\ at[s] = "idle"
  /\ Goto(s, "delete")
  /\ torn' = IF \E r \in Rivals(s) : At(r, c) THEN torn \cup {c} ELSE torn \ {c}
  /\ UNCHANGED who

\* A switcher turns to a customer.
Begin(s, c) ==
  /\ at[s] = "idle"
  /\ Goto(s, "delete")
  /\ who' = [who EXCEPT ![s] = c]
  /\ torn' = IF \E r \in Rivals(s) : At(r, c) THEN torn \cup {c} ELSE torn \ {c}

\* What follows the switch: the scan marks the customer, a payment is done.
Proceed(s) ==
  IF s = Scanner THEN Goto(s, "mark") /\ UNCHANGED who ELSE Leave(s)

Fault ==
  /\ faults < MaxFaults
  /\ faults' = faults + 1

-----------------------------------------------------------------------------
\* active_until passes.  A plan period is longer than any request or scan.
Expire(c) ==
  /\ c \notin expired \cup todo
  /\ ~Busy(c)
  /\ expired' = expired \cup {c}
  /\ UNCHANGED <<status, rows, torn, switchVars, lookupVars, cacheVars, grace, faults>>

\* The transaction of a payment commits: SetActiveUntil sets expiry and status.
\* Restore follows outside of it.
Settle(p, c) ==
  /\ Begin(p, c)
  /\ status' = [status EXCEPT ![c] = "active"]
  /\ expired' = expired \ {c}
  /\ UNCHANGED <<rows, todo, lookupVars, cacheVars, grace, faults>>

Due == {c \in expired : status[c] = "active"}

\* The lists ListExpiredActive may return: as many as the limit allows, which
\* ones when there are more is any choice.
Lists == {S \in SUBSET Due : Cardinality(S) = IF Cardinality(Due) < Limit
                                                THEN Cardinality(Due) ELSE Limit}

List_Bug ==       \* lists those whose group is the plan's
  /\ at[Scanner] = "idle" /\ todo = {}
  /\ \E S \in {T \in Lists : \A c \in T : rows[c] = {"plan"}} : S # {} /\ todo' = S
  /\ UNCHANGED <<accessVars, at, who, lookupVars, cacheVars, grace, faults>>

\* A scan reads its list ...
List ==
  /\ at[Scanner] = "idle" /\ todo = {}
  /\ \E S \in Lists : S # {} /\ todo' = S
  /\ UNCHANGED <<accessVars, at, who, lookupVars, cacheVars, grace, faults>>

TakeOn_Bug(c) ==      \* marks the customer first
  /\ c \in todo
  /\ Begin(Scanner, c)
  /\ todo' = todo \ {c}
  /\ status' = [status EXCEPT ![c] = "isolated"]
  /\ UNCHANGED <<expired, rows, lookupVars, cacheVars, grace, faults>>

\* ... and goes through it without looking at the customers again.
TakeOn(c) ==
  /\ c \in todo
  /\ Begin(Scanner, c)
  /\ todo' = todo \ {c}
  /\ UNCHANGED <<status, expired, rows, lookupVars, cacheVars, grace, faults>>

-----------------------------------------------------------------------------
(* switchGroup: SetUserGroup, which is a DELETE and an INSERT, then the      *)
(* cache entry.                                                              *)

\* The rows of a customer change.  Replies given from what was read or cached
\* before are out of date.
Change(c, groups) ==
  /\ rows' = [rows EXCEPT ![c] = groups]
  /\ grace' = IF cache[c] # {} \/ \E l \in Lookups : reading[l] = c
                THEN [grace EXCEPT ![c] = Grace] ELSE grace

DeleteRows_Bug(s) ==  \* nothing is deleted
  /\ at[s] = "delete"
  /\ Goto(s, "insert")
  /\ UNCHANGED <<accessVars, who, todo, lookupVars, cacheVars, grace, faults>>

DeleteRows(s) ==
  LET c == who[s] IN
  /\ at[s] = "delete"
  /\ Change(c, {})
  /\ Goto(s, "insert")
  /\ UNCHANGED <<status, expired, torn, who, todo, lookupVars, cacheVars, faults>>

InsertRow(s) ==
  LET c == who[s] IN
  /\ at[s] = "insert"
  /\ Change(c, rows[c] \cup {IF s = Scanner THEN "isolir" ELSE "plan"})
  /\ Goto(s, "forget")
  /\ UNCHANGED <<status, expired, torn, who, todo, lookupVars, cacheVars, faults>>

Forget(s) ==
  LET c == who[s] IN
  /\ at[s] = "forget"
  /\ cache' = [cache EXCEPT ![c] = {}]
  /\ ttl' = [ttl EXCEPT ![c] = 0]
  /\ Proceed(s)
  /\ UNCHANGED <<accessVars, todo, lookupVars, grace, faults>>

\* The DELETE or the INSERT fails.  The error is logged, and the scan marks the
\* customer all the same.
SwitchFails(s) ==
  /\ at[s] \in {"delete", "insert"}
  /\ Fault
  /\ torn' = torn \cup {who[s]}
  /\ Proceed(s)
  /\ UNCHANGED <<status, expired, rows, todo, lookupVars, cacheVars, grace>>

\* Redis is out of reach: errors of the cache are swallowed.
ForgetFails(s) ==
  /\ at[s] = "forget"
  /\ Fault
  /\ Proceed(s)
  /\ UNCHANGED <<accessVars, todo, lookupVars, cacheVars, grace>>

\* UpdateStatus writes whatever the customer has become.
Mark ==
  /\ at[Scanner] = "mark"
  /\ status' = [status EXCEPT ![who[Scanner]] = "isolated"]
  /\ Leave(Scanner)
  /\ UNCHANGED <<expired, rows, torn, todo, lookupVars, cacheVars, grace, faults>>

\* Work on a customer is cut short.  One that has expired and is still active
\* is listed again; one that has paid is not looked at any more.
CutShort(s) ==
  /\ Fault
  /\ torn' = torn \cup {c \in Customers \ expired : At(s, c)}
  /\ Leave(s)
  /\ UNCHANGED <<status, expired, rows, lookupVars, cacheVars, grace>>

\* UpdateStatus fails; the scan goes on with the next customer.
MarkFails ==
  /\ at[Scanner] = "mark"
  /\ CutShort(Scanner)
  /\ UNCHANGED todo

\* The process of a switcher dies, or the deadline of the scan passes.
Crash(s) ==
  /\ at[s] # "idle" \/ (s = Scanner /\ todo # {})
  /\ CutShort(s)
  /\ todo' = IF s = Scanner THEN {} ELSE todo

-----------------------------------------------------------------------------
(* radiussvc.Lookup.  A hit changes nothing; a miss reads the database and   *)
(* then fills the cache.                                                     *)

Read(l, c) ==
  /\ reading[l] = Nobody
  /\ cache[c] = {}
  /\ reading' = [reading EXCEPT ![l] = c]
  /\ got' = [got EXCEPT ![l] = rows[c]]
  /\ left' = [left EXCEPT ![l] = RequestTimeout]
  /\ UNCHANGED <<accessVars, switchVars, cacheVars, grace, faults>>

Done(l) ==
  /\ reading' = [reading EXCEPT ![l] = Nobody]
  /\ got' = [got EXCEPT ![l] = {}]
  /\ left' = [left EXCEPT ![l] = 0]

Fill_Bug(l) ==        \* the fill has no deadline
  LET c == reading[l] IN
  /\ c # Nobody
  /\ cache' = [cache EXCEPT ![c] = {got[l]}]
  /\ ttl' = [ttl EXCEPT ![c] = CacheTTL]
  /\ Done(l)
  /\ UNCHANGED <<accessVars, switchVars, grace, faults>>

Fill(l) ==
  LET c == reading[l] IN
  /\ c # Nobody
  /\ left[l] > 0
  /\ cache' = [cache EXCEPT ![c] = {got[l]}]
  /\ ttl' = [ttl EXCEPT ![c] = CacheTTL]
  /\ Done(l)
  /\ UNCHANGED <<accessVars, switchVars, grace, faults>>

\* The context of the request is done, or the request is dropped.
GiveUp(l) ==
  /\ reading[l] # Nobody
  /\ Done(l)
  /\ UNCHANGED <<accessVars, switchVars, cacheVars, grace, faults>>

Less(n) == IF n > 0 THEN n - 1 ELSE 0

\* Time passes; an entry whose time is up is gone.
Tick ==
  /\ ttl'   = [c \in Customers |-> Less(ttl[c])]
  /\ cache' = [c \in Customers |-> IF ttl[c] > 1 THEN cache[c] ELSE {}]
  /\ left'  = [l \in Lookups |-> Less(left[l])]
  /\ grace' = [c \in Customers |-> Less(grace[c])]
  /\ UNCHANGED <<accessVars, switchVars, reading, got, faults>>

-----------------------------------------------------------------------------
Switch(s) == DeleteRows(s) \/ InsertRow(s) \/ Forget(s)

Scan == List \/ (\E c \in Customers : TakeOn(c)) \/ Switch(Scanner) \/ Mark

Next ==
  \/ Tick \/ Scan \/ MarkFails
  \/ \E c \in Customers : Expire(c)
  \/ \E p \in Payments : (\E c \in Customers : Settle(p, c)) \/ Switch(p)
  \/ \E s \in Switchers : SwitchFails(s) \/ ForgetFails(s) \/ Crash(s)
  \/ \E l \in Lookups :
       (\E c \in Dialing : Read(l, c)) \/ Fill(l) \/ GiveUp(l)

Spec == Init /\ [][Next]_vars

(* The cron job runs the scan again and again and a scan goes on; it lists   *)
(* the longest expired first, so a customer who stays expired comes to be    *)
(* listed.                                                                   *)
Fairness ==
  /\ WF_vars(Scan)
  /\ \A c \in Customers : SF_vars(List /\ c \in todo')

FairSpec == Spec /\ Fairness

-----------------------------------------------------------------------------
\* An active customer with paid-up service has the plan's group and nothing
\* else, once nobody is at work on them, unless a switch failed or a payment and
\* the scan got into each other's way, and the next clean switch repairs even
\* that.  Payments may overlap each other at will.
ActiveIsServed ==
  \A c \in Customers :
    status[c] = "active" /\ c \notin expired \cup torn /\ ~Busy(c) => rows[c] = {"plan"}

\* A customer who is marked isolated is cut off.  The scan switches the group
\* before it marks the customer, so this survives its crash at any point.
IsolatedIsCut ==
  \A c \in Customers :
    status[c] = "isolated" /\ c \notin torn /\ ~Busy(c) => rows[c] = {"isolir"}

\* Whatever races with the invalidation, or if it is lost: a cached reply is out
\* of date for the time of a request and the life of an entry at most.
StaleIsBrief ==
  \A c \in Customers :
    grace[c] = 0 => cache[c] \subseteq {rows[c]}

\* Nobody is overlooked: a customer whose service has expired is isolated or
\* pays, although scans take on a few at a time, crash and fail to write.
ExpiredIsIsolated ==
  \A c \in Customers :
    c \in expired /\ status[c] = "active" ~> status[c] = "isolated" \/ c \notin expired

\* billingsvc: the scan "finds active customers whose service has expired and
\* isolates them".
OnlyExpiredIsolated ==
  [][\A c \in Customers :
       status[c] = "active" /\ status'[c] = "isolated" => c \in expired]_vars

=============================================================================
