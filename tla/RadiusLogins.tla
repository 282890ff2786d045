---------------------------- MODULE RadiusLogins ----------------------------
(***************************************************************************)
(* The customers of customersvc and the RADIUS logins it keeps for them:   *)
(* Create, Update and Delete, each a transaction taken statement by        *)
(* statement, and the isolation scan and payments, which set a customer's  *)
(* status in one statement of their own.                                   *)
(*                                                                         *)
(* PostgreSQL runs under READ COMMITTED: a statement sees what is          *)
(* committed, and a transaction's own writes are staged until it commits.  *)
(* An UPDATE waits for a transaction that has written the same row, an     *)
(* insertion into the unique index for one that has written a row of that  *)
(* name, a DELETE for one that has deleted rows of that name.  (Such a     *)
(* DELETE may pass over rows inserted meanwhile, which is as if it had run *)
(* first.)  A deadlock ends in an abort, as any failing statement does.    *)
(*                                                                         *)
(* A login is the radcheck and radusergroup row of one user name; it is    *)
(* told apart by the customer whose password it holds.  Which group it     *)
(* names is the subject of ServiceAccess.                                  *)
(*                                                                         *)
(* A definition whose name ends in _Bug is the one that follows it with a  *)
(* mistake in it; no specification uses it.                                *)
(***************************************************************************)
EXTENDS Naturals, FiniteSets

CONSTANTS
  Customers,    \* customers, the deleted ones included
  UserNames,    \* PPPoE user names
  NoName,       \* a customer without one
  Statuses,     \* the statuses a customer may have
  StatusNew,    \* the one of a customer created without one
  Editors,      \* requests under way at once
  Idle,         \* no request
  MaxEdits      \* requests considered

ASSUME LoginsAssumption ==
  /\ NoName \notin UserNames
  /\ StatusNew \in Statuses
  /\ MaxEdits \in Nat

Marks  == Statuses \ {StatusNew}     \* what the scan and payments set
Logins == UserNames \X Customers

\* A row of customers.  A customer is entitled with a PPPoE plan, a name and a
\* password.
Accounts == [row : {"none", "live", "deleted"}, name : UserNames \cup {NoName},
             entitled : BOOLEAN, status : Statuses]

\* A request: what it is, for whom, the user name its first SELECT has seen, the
\* row it writes, whether the request leaves the status out, where it stands, and
\* the logins its transaction has deleted and inserted.
Edits == [kind : {"create", "update", "delete"}, customer : Customers,
          seen : UserNames \cup {NoName}, new : Accounts, keep : BOOLEAN,
          at : {"write", "clear", "provision", "commit"},
          deleted : SUBSET Logins, inserted : SUBSET Logins]

VARIABLES
  account,   \* the customers table
  logins,    \* radcheck and radusergroup
  edit,      \* the request each editor is at
  edits,     \* requests begun
  meant,     \* the status each customer was last given on purpose
  overtaken, \* customers whose status changed while an edit that keeps it was under way
  stale      \* names an edit has worked on from a row that was no longer true

loginVars == <<account, logins, edit, edits, meant, overtaken, stale>>

NoAccount == [row |-> "none", name |-> NoName, entitled |-> FALSE, status |-> StatusNew]

LoginInit ==
  /\ account = [c \in Customers |-> NoAccount]
  /\ logins = {}
  /\ edit = [w \in Editors |-> Idle]
  /\ edits = 0
  /\ meant = [c \in Customers |-> StatusNew]
  /\ overtaken = {}
  /\ stale = {}

LoginTypeOK ==
  /\ account \in [Customers -> Accounts]
  /\ logins \subseteq Logins
  /\ edit \in [Editors -> Edits \cup {Idle}]
  /\ edits \in 0..MaxEdits
  /\ meant \in [Customers -> Statuses]
  /\ overtaken \subseteq Customers
  /\ stale \subseteq UserNames \cup {NoName}

-----------------------------------------------------------------------------
(* Locks.                                                                   *)

Wrote(w) == edit[w] # Idle /\ edit[w].at # "write"

RowFree(c) == \A w \in Editors : Wrote(w) => edit[w].customer # c

NameFree(n) ==
  \A w \in Editors : Wrote(w) => n \notin {edit[w].new.name, account[edit[w].customer].name}

LoginsFree(w, n) ==
  \A v \in Editors \ {w} : edit[v] # Idle => \A l \in edit[v].deleted : l[1] # n

LoginsOf(n) == {l \in logins : l[1] = n}

Taken(c, n) ==
  /\ n # NoName
  /\ \E d \in Customers \ {c} : account[d].row = "live" /\ account[d].name = n

-----------------------------------------------------------------------------
(* Requests.                                                                *)

Begin(w, e) ==
  /\ edit[w] = Idle
  /\ edits < MaxEdits
  /\ edits' = edits + 1
  /\ edit' = [edit EXCEPT ![w] = e]
  /\ UNCHANGED <<account, logins, meant, overtaken, stale>>

Edit(kind, c, seen, new, keep) ==
  [kind |-> kind, customer |-> c, seen |-> seen, new |-> new, keep |-> keep,
   at |-> "write", deleted |-> {}, inserted |-> {}]

\* Create, up to its INSERT.  A request without a status means StatusNew.
CreateCustomer(w, c, n, entitled, status) ==
  /\ account[c].row = "none"
  /\ \A v \in Editors : edit[v] # Idle => edit[v].customer # c
  /\ entitled => n # NoName
  /\ Begin(w, Edit("create", c, NoName,
        [row |-> "live", name |-> n, entitled |-> entitled, status |-> status], FALSE))

UpdateCustomerStatus_Bug(w, c, n, entitled, status, keep) == \* an omitted status is the default
  /\ account[c].row = "live"
  /\ entitled => n # NoName
  /\ keep => status = StatusNew
  /\ Begin(w, Edit("update", c, account[c].name,
        [row |-> "live", name |-> n, entitled |-> entitled, status |-> status], keep))

\* Update, up to its first statement: GetByID takes no lock.  A request without a
\* status will write the one that is read here.
UpdateCustomer(w, c, n, entitled, status, keep) ==
  /\ account[c].row = "live"
  /\ entitled => n # NoName
  /\ keep => status = account[c].status
  /\ Begin(w, Edit("update", c, account[c].name,
        [row |-> "live", name |-> n, entitled |-> entitled, status |-> status], keep))

DeleteCustomer(w, c) ==
  /\ account[c].row = "live"
  /\ Begin(w, Edit("delete", c, account[c].name, account[c], FALSE))

\* What comes after the customer's row is written.
AfterWrite(e) ==
  IF e.kind = "delete" THEN IF e.seen # NoName THEN "clear" ELSE "commit"
  ELSE IF e.seen \notin {NoName, e.new.name} THEN "clear"
  ELSE IF e.new.name # NoName THEN "provision"
  ELSE "commit"

Advance(w, e, at) ==
  /\ edit' = [edit EXCEPT ![w] = [e EXCEPT !.at = at]]
  /\ UNCHANGED <<account, logins, edits, meant, overtaken, stale>>

\* Rollback, and the end of the request.
Abort(w) ==
  /\ edit[w] # Idle
  /\ edit' = [edit EXCEPT ![w] = Idle]
  /\ UNCHANGED <<account, logins, edits, meant, overtaken, stale>>

InsertRow_Bug(w) ==     \* no unique index on the user name
  LET e == edit[w] IN
  /\ e # Idle /\ e.at = "write" /\ e.kind = "create"
  /\ Advance(w, e, AfterWrite(e))

\* INSERT INTO customers.
InsertRow(w) ==
  LET e == edit[w] IN
  /\ e # Idle /\ e.at = "write" /\ e.kind = "create"
  /\ NameFree(e.new.name) \/ e.new.name = NoName
  /\ ~Taken(e.customer, e.new.name)
  /\ Advance(w, e, AfterWrite(e))

\* UPDATE customers: finds nothing, and the request fails, if the customer has
\* been deleted; fails on a name that is taken.  Both are left to Abort.
UpdateRow(w) ==
  LET e == edit[w] IN
  /\ e # Idle /\ e.at = "write" /\ e.kind = "update"
  /\ RowFree(e.customer)
  /\ account[e.customer].row = "live"
  /\ NameFree(e.new.name) \/ e.new.name = NoName
  /\ ~Taken(e.customer, e.new.name)
  /\ Advance(w, e, AfterWrite(e))

\* SoftDelete sets deleted_at and nothing else, and does not mind if it is set.
SoftDelete(w) ==
  LET e == edit[w] IN
  /\ e # Idle /\ e.at = "write" /\ e.kind = "delete"
  /\ RowFree(e.customer)
  /\ Advance(w, [e EXCEPT !.new = [account[e.customer] EXCEPT !.row = "deleted"]], AfterWrite(e))

ClearUser_Bug(w) ==     \* clears the name the row has now
  LET e == edit[w] IN
  /\ e # Idle /\ e.at = "clear"
  /\ LoginsFree(w, e.new.name)
  /\ Advance(w, [e EXCEPT !.deleted = LoginsOf(e.new.name)],
             IF e.kind = "update" /\ e.new.name # NoName THEN "provision" ELSE "commit")

\* ClearUser of the name that was read at the beginning.
ClearUser(w) ==
  LET e == edit[w] IN
  /\ e # Idle /\ e.at = "clear"
  /\ LoginsFree(w, e.seen)
  /\ Advance(w, [e EXCEPT !.deleted = LoginsOf(e.seen)],
             IF e.kind = "update" /\ e.new.name # NoName THEN "provision" ELSE "commit")

\* The rest of provisionRadius: out with what the name has, and in with the
\* customer's password and group, if there is a plan for them.
Provision(w) ==
  LET e == edit[w] IN
  /\ e # Idle /\ e.at = "provision"
  /\ LoginsFree(w, e.new.name)
  /\ Advance(w, [e EXCEPT !.deleted = @ \cup LoginsOf(e.new.name),
                          !.inserted = IF e.new.entitled THEN {<<e.new.name, e.customer>>} ELSE {}],
             "commit")

\* Edits that will write back a status they have read of customer c.
Keeping(c) == {w \in Editors : /\ edit[w] # Idle /\ edit[w].at = "write"
                               /\ edit[w].keep /\ edit[w].customer = c}

CommitEdit(w) ==
  LET e == edit[w]
      c == e.customer
      old == account[c] IN
  /\ e # Idle /\ e.at = "commit"
  /\ account' = [account EXCEPT ![c] = e.new]
  /\ logins' = (logins \ e.deleted) \cup e.inserted
  /\ edit' = [edit EXCEPT ![w] = Idle]
  /\ meant' = IF e.keep \/ e.kind = "delete" THEN meant ELSE [meant EXCEPT ![c] = e.new.status]
  /\ overtaken' = IF Keeping(c) = {} THEN overtaken ELSE overtaken \cup {c}
  /\ stale' = IF e.kind = "create" \/ (old.row = "live" /\ old.name = e.seen)
                THEN stale ELSE stale \cup {e.seen, old.name}
  /\ UNCHANGED edits

\* UpdateStatus of the isolation scan and SetActiveUntil of a payment.
SetStatus(c, status) ==
  /\ account[c].row = "live"
  /\ RowFree(c)
  /\ account[c].status # status
  /\ account' = [account EXCEPT ![c].status = status]
  /\ meant' = [meant EXCEPT ![c] = status]
  /\ overtaken' = IF Keeping(c) = {} THEN overtaken ELSE overtaken \cup {c}
  /\ UNCHANGED <<logins, edit, edits, stale>>

-----------------------------------------------------------------------------
BeginEdit(w) ==
  \E c \in Customers :
    \/ DeleteCustomer(w, c)
    \/ \E n \in UserNames \cup {NoName}, entitled \in BOOLEAN, status \in Statuses :
         \/ CreateCustomer(w, c, n, entitled, status)
         \/ \E keep \in BOOLEAN : UpdateCustomer(w, c, n, entitled, status, keep)

EditStatement(w) ==
  InsertRow(w) \/ UpdateRow(w) \/ SoftDelete(w) \/ ClearUser(w) \/ Provision(w)

LoginNext ==
  \/ \E w \in Editors : BeginEdit(w) \/ EditStatement(w) \/ CommitEdit(w) \/ Abort(w)
  \/ \E c \in Customers, status \in Marks : SetStatus(c, status)

LoginSpec == LoginInit /\ [][LoginNext]_loginVars

-----------------------------------------------------------------------------
\* The customer who may dial in under a name.
Holders(n) == {c \in Customers : /\ account[c].row = "live"
                                 /\ account[c].name = n
                                 /\ account[c].entitled}

\* A name no edit has worked on from an outdated row has the login of the
\* customer who is entitled to it, and no other: through renames, names that
\* pass from one customer to the next, and transactions that fail half-way.
LoginsMatch ==
  \A n \in UserNames \ stale : LoginsOf(n) = {<<n, c>> : c \in Holders(n)}

\* Whatever the races, a name has one password: never two customers' logins.
OneLoginPerName ==
  \A n \in UserNames : Cardinality(LoginsOf(n)) <= 1

\* A customer's status is the one an edit, the scan or a payment gave it last,
\* unless that happened while an edit that leaves the status alone was under way
\* between its SELECT and its UPDATE.
StatusIsMeant ==
  \A c \in Customers \ overtaken :
    account[c].row = "live" => account[c].status = meant[c]

=============================================================================
