-------------------------- MODULE RadiusLoginsProofs --------------------------
(***************************************************************************)
(* The safety properties of RadiusLogins, for any number of customers,     *)
(* user names and requests.  They rest on the row locks and the unique     *)
(* index on the user name: requests that have written are about different  *)
(* customers and different names.                                          *)
(***************************************************************************)
EXTENDS RadiusLogins, FiniteSetTheorems, TLAPS

\* What a request is by its kind and by where it stands.
Shape(e) ==
  /\ e.kind = "create" => e.seen = NoName /\ ~e.keep
  /\ e.kind = "delete" => /\ ~e.keep /\ e.inserted = {} /\ e.at # "provision"
                          /\ e.at # "write" => e.new.row = "deleted"
  /\ e.kind # "delete" => /\ e.new.row = "live"
                          /\ e.new.entitled => e.new.name # NoName
  /\ e.at \in {"write", "clear"} => e.deleted = {}
  /\ e.at # "commit" => e.inserted = {}
  /\ e.at = "clear" => e.seen # NoName /\ (e.kind = "delete" \/ e.seen # e.new.name)
  /\ \A l \in e.deleted : l[1] = e.seen \/ (e.kind # "delete" /\ l[1] = e.new.name)
  /\ e.at = "commit" /\ e.kind # "delete" =>
       e.inserted = IF e.new.entitled THEN {<<e.new.name, e.customer>>} ELSE {}

EditShape == \A w \in Editors : edit[w] # Idle => Shape(edit[w])

\* A customer who is being created has no row yet, and nobody else's attention.
CreateAlone ==
  \A w \in Editors : edit[w] # Idle /\ edit[w].kind = "create" =>
    /\ account[edit[w].customer].row = "none"
    /\ \A v \in Editors \ {w} : edit[v] # Idle => edit[v].customer # edit[w].customer

\* Others have a row; one that an update has written is not deleted.
RowThere ==
  \A w \in Editors : edit[w] # Idle /\ edit[w].kind # "create" =>
    /\ account[edit[w].customer].row # "none"
    /\ edit[w].kind = "update" /\ edit[w].at # "write" => account[edit[w].customer].row = "live"

\* The lock on the customer's row.
RowLocked ==
  \A v, w \in Editors : Wrote(v) /\ Wrote(w) /\ edit[v].customer = edit[w].customer => v = w

\* The unique index: among the names that are being written,
NamesApart ==
  \A v, w \in Editors :
    /\ Wrote(v) /\ edit[v].kind # "delete" /\ edit[v].new.name # NoName
    /\ Wrote(w) /\ edit[w].kind # "delete" /\ edit[w].new.name = edit[v].new.name
    => v = w

\* between those and the names that are there,
NamesReserved ==
  \A w \in Editors : Wrote(w) /\ edit[w].kind # "delete" => ~Taken(edit[w].customer, edit[w].new.name)

\* and among those.
NamesUnique == \A c \in Customers : account[c].row = "live" => ~Taken(c, account[c].name)

\* What a request has cleared is not filled again before it commits.
Covered ==
  \A w \in Editors : Wrote(w) =>
    LET e == edit[w] IN
    /\ e.at = "commit" /\ e.kind # "delete" /\ e.new.name # NoName =>
         LoginsOf(e.new.name) \subseteq e.deleted
    /\ /\ e.at \in {"provision", "commit"}
       /\ e.seen # NoName
       /\ e.kind = "delete" \/ e.seen # e.new.name
       /\ account[e.customer].row = "live" /\ account[e.customer].name = e.seen
       => LoginsOf(e.seen) \subseteq e.deleted

\* A status that will be written back is the one that is there.
KeptStatus ==
  \A w \in Editors : edit[w] # Idle /\ edit[w].keep =>
    LET c == edit[w].customer IN
    c \notin overtaken /\ account[c].row = "live" => edit[w].new.status = account[c].status

\* A name has one login.
LoginUnique == \A l, m \in logins : l[1] = m[1] => l = m

\* The inductive invariant.
LInv ==
  /\ LoginTypeOK
  /\ EditShape
  /\ CreateAlone
  /\ RowThere
  /\ RowLocked
  /\ NamesApart
  /\ NamesReserved
  /\ NamesUnique
  /\ Covered
  /\ KeptStatus
  /\ LoginUnique
  /\ StatusIsMeant
  /\ LoginsMatch

-----------------------------------------------------------------------------
\* It holds initially.
LEMMA LoginsInit == LoginInit => LInv
<1> SUFFICES ASSUME LoginInit PROVE LInv
  OBVIOUS
<1> USE LoginsAssumption DEF LoginInit
<1>1. LoginTypeOK
  BY DEF LoginTypeOK, NoAccount, Accounts
<1>2. EditShape /\ CreateAlone /\ RowThere /\ RowLocked /\ NamesApart /\ NamesReserved /\ Covered
      /\ KeptStatus
  BY DEF EditShape, CreateAlone, RowThere, RowLocked, NamesApart, NamesReserved, Covered,
         KeptStatus, Wrote
<1>3. NamesUnique /\ LoginUnique /\ StatusIsMeant
  BY DEF NamesUnique, LoginUnique, StatusIsMeant, NoAccount
<1>4. LoginsMatch
  BY DEF LoginsMatch, LoginsOf, Holders, NoAccount
<1> QED
  BY <1>1, <1>2, <1>3, <1>4 DEF LInv

\* What a request that is under way is.
LEMMA EditTypes ==
  ASSUME LoginTypeOK, NEW w \in Editors, edit[w] # Idle
  PROVE  /\ edit[w] \in Edits
         /\ edit[w].customer \in Customers
         /\ edit[w].new \in Accounts
         /\ edit[w].seen \in UserNames \cup {NoName}
         /\ edit[w].new.name \in UserNames \cup {NoName}
         /\ edit[w].kind \in {"create", "update", "delete"}
         /\ edit[w].at \in {"write", "clear", "provision", "commit"}
         /\ edit[w].deleted \subseteq Logins /\ edit[w].inserted \subseteq Logins
  BY DEF LoginTypeOK, Edits, Accounts

\* A step of one request that commits nothing leaves what the tables say.
LEMMA TablesFrame ==
  ASSUME LInv, UNCHANGED <<account, logins, meant, overtaken, stale>>
  PROVE  NamesUnique' /\ LoginUnique' /\ StatusIsMeant' /\ LoginsMatch'
  BY DEF LInv, NamesUnique, LoginUnique, StatusIsMeant, LoginsMatch, Taken, LoginsOf, Holders

\* The beginning of a request keeps the invariant.
LEMMA BeginKeeps == ASSUME LInv, NEW w \in Editors, BeginEdit(w) PROVE LInv'
<1>1. PICK e : /\ Begin(w, e)
               /\ e \in Edits
               /\ e.at = "write" /\ e.deleted = {} /\ e.inserted = {}
               /\ e.kind = "create" =>
                    /\ e.seen = NoName /\ ~e.keep /\ account[e.customer].row = "none"
                    /\ \A v \in Editors : edit[v] # Idle => edit[v].customer # e.customer
               /\ e.kind = "delete" => ~e.keep
               /\ e.kind # "create" => account[e.customer].row = "live"
               /\ e.kind # "delete" =>
                    e.new.row = "live" /\ (e.new.entitled => e.new.name # NoName)
               /\ e.keep => e.new.status = account[e.customer].status
  <2>1. ASSUME NEW c \in Customers, DeleteCustomer(w, c)
        PROVE  \E e : /\ Begin(w, e) /\ e \in Edits
                      /\ e.at = "write" /\ e.deleted = {} /\ e.inserted = {}
                      /\ e.kind = "delete" /\ ~e.keep /\ account[e.customer].row = "live"
    <3> DEFINE e == Edit("delete", c, account[c].name, account[c], FALSE)
    <3>1. account[c] \in Accounts /\ account[c].name \in UserNames \cup {NoName}
      BY DEF LInv, LoginTypeOK, Accounts
    <3>2. e \in Edits
      BY <3>1 DEF Edit, Edits
    <3> QED
      BY <2>1, <3>2 DEF DeleteCustomer, Edit
  <2>2. ASSUME NEW c \in Customers, NEW n \in UserNames \cup {NoName}, NEW entitled \in BOOLEAN,
               NEW status \in Statuses, CreateCustomer(w, c, n, entitled, status)
        PROVE  \E e : /\ Begin(w, e) /\ e \in Edits
                      /\ e.at = "write" /\ e.deleted = {} /\ e.inserted = {}
                      /\ e.kind = "create" /\ e.seen = NoName /\ ~e.keep
                      /\ account[e.customer].row = "none"
                      /\ \A v \in Editors : edit[v] # Idle => edit[v].customer # e.customer
                      /\ e.new.row = "live" /\ (e.new.entitled => e.new.name # NoName)
    <3> DEFINE a == [row |-> "live", name |-> n, entitled |-> entitled, status |-> status]
               e == Edit("create", c, NoName, a, FALSE)
    <3>1. a \in Accounts
      BY DEF Accounts
    <3>2. e \in Edits
      BY <3>1 DEF Edit, Edits
    <3> QED
      BY <2>2, <3>2 DEF CreateCustomer, Edit
  <2>3. ASSUME NEW c \in Customers, NEW n \in UserNames \cup {NoName}, NEW entitled \in BOOLEAN,
               NEW status \in Statuses, NEW keep \in BOOLEAN,
               UpdateCustomer(w, c, n, entitled, status, keep)
        PROVE  \E e : /\ Begin(w, e) /\ e \in Edits
                      /\ e.at = "write" /\ e.deleted = {} /\ e.inserted = {}
                      /\ e.kind = "update" /\ account[e.customer].row = "live"
                      /\ e.new.row = "live" /\ (e.new.entitled => e.new.name # NoName)
                      /\ e.keep => e.new.status = account[e.customer].status
    <3> DEFINE a == [row |-> "live", name |-> n, entitled |-> entitled, status |-> status]
               e == Edit("update", c, account[c].name, a, keep)
    <3>1. a \in Accounts /\ account[c].name \in UserNames \cup {NoName}
      BY DEF Accounts, LInv, LoginTypeOK
    <3>2. e \in Edits
      BY <3>1 DEF Edit, Edits
    <3> QED
      BY <2>3, <3>2 DEF UpdateCustomer, Edit
  <2>4. \/ \E c \in Customers : DeleteCustomer(w, c)
        \/ \E c \in Customers, n \in UserNames \cup {NoName}, entitled \in BOOLEAN,
              status \in Statuses : CreateCustomer(w, c, n, entitled, status)
        \/ \E c \in Customers, n \in UserNames \cup {NoName}, entitled \in BOOLEAN,
              status \in Statuses, keep \in BOOLEAN :
             UpdateCustomer(w, c, n, entitled, status, keep)
    BY DEF BeginEdit
  <2>5. CASE \E c \in Customers : DeleteCustomer(w, c)
    BY <2>1, <2>5
  <2>6. CASE \E c \in Customers, n \in UserNames \cup {NoName}, entitled \in BOOLEAN,
                status \in Statuses : CreateCustomer(w, c, n, entitled, status)
    BY <2>2, <2>6
  <2>7. CASE \E c \in Customers, n \in UserNames \cup {NoName}, entitled \in BOOLEAN,
                status \in Statuses, keep \in BOOLEAN :
               UpdateCustomer(w, c, n, entitled, status, keep)
    BY <2>3, <2>7
  <2> QED
    BY <2>4, <2>5, <2>6, <2>7
<1>2. /\ UNCHANGED <<account, logins, meant, overtaken, stale>>
      /\ edit' = [edit EXCEPT ![w] = e] /\ edit[w] = Idle
      /\ edit'[w] = e /\ \A v \in Editors \ {w} : edit'[v] = edit[v]
  BY <1>1 DEF Begin, LInv, LoginTypeOK
<1>3. LoginTypeOK'
  BY <1>1, <1>2, LoginsAssumption DEF Begin, LInv, LoginTypeOK
<1>4. EditShape'
  <2>1. Shape(e)
    BY <1>1 DEF Shape, Edits
  <2> QED
    BY <1>2, <2>1 DEF LInv, EditShape
<1>5. CreateAlone' /\ RowThere' /\ KeptStatus'
  BY <1>1, <1>2 DEF LInv, CreateAlone, RowThere, KeptStatus
<1>6. \A v \in Editors : Wrote(v)' => Wrote(v) /\ edit'[v] = edit[v]
  BY <1>1, <1>2 DEF Wrote
<1>7. RowLocked' /\ NamesApart'
  BY <1>6 DEF LInv, RowLocked, NamesApart
<1>8. NamesReserved' /\ Covered'
  BY <1>2, <1>6 DEF LInv, NamesReserved, Covered, Taken, LoginsOf
<1> QED
  BY <1>2, <1>3, <1>4, <1>5, <1>7, <1>8, TablesFrame DEF LInv

\* So does a rollback.
LEMMA AbortKeeps == ASSUME LInv, NEW w \in Editors, Abort(w) PROVE LInv'
<1>1. /\ UNCHANGED <<account, logins, meant, overtaken, stale>>
      /\ edit'[w] = Idle /\ \A v \in Editors \ {w} : edit'[v] = edit[v]
  BY DEF Abort, LInv, LoginTypeOK
<1>2. LoginTypeOK'
  <2>1. edit' \in [Editors -> Edits \cup {Idle}]
    BY DEF Abort, LInv, LoginTypeOK
  <2> QED
    BY <2>1 DEF Abort, LInv, LoginTypeOK
<1>a. \A v \in Editors : edit'[v] # Idle => edit[v] # Idle /\ edit'[v] = edit[v]
  BY <1>1
<1>b. EditShape'
  BY <1>a DEF LInv, EditShape
<1>c. CreateAlone' /\ RowThere'
  BY <1>1, <1>a DEF LInv, CreateAlone, RowThere
<1>d. KeptStatus'
  BY <1>1, <1>a DEF LInv, KeptStatus
<1>3. EditShape' /\ CreateAlone' /\ RowThere' /\ KeptStatus'
  BY <1>b, <1>c, <1>d
<1>4. \A v \in Editors : Wrote(v)' => Wrote(v) /\ edit'[v] = edit[v]
  BY <1>1 DEF Wrote
<1>5. RowLocked' /\ NamesApart'
  BY <1>4 DEF LInv, RowLocked, NamesApart
<1>6. NamesReserved' /\ Covered'
  BY <1>1, <1>4 DEF LInv, NamesReserved, Covered, Taken, LoginsOf
<1> QED
  BY <1>1, <1>2, <1>3, <1>5, <1>6, TablesFrame DEF LInv

\* Where a request goes on once the row is written.
LEMMA AfterWriteFacts ==
  ASSUME NEW e \in Edits
  PROVE  /\ AfterWrite(e) \in {"clear", "provision", "commit"}
         /\ AfterWrite(e) = "clear" => e.seen # NoName /\ (e.kind = "delete" \/ e.seen # e.new.name)
         /\ AfterWrite(e) = "provision" =>
              e.kind # "delete" /\ e.new.name # NoName /\ e.seen \in {NoName, e.new.name}
         /\ AfterWrite(e) = "commit" => e.seen = NoName /\ (e.kind = "delete" \/ e.new.name = NoName)
  BY DEF AfterWrite

\* Writing the customer's row keeps the invariant.
LEMMA WriteKeeps ==
  ASSUME LInv, NEW w \in Editors, InsertRow(w) \/ UpdateRow(w) \/ SoftDelete(w) PROVE LInv'
<1> PICK e : e = edit[w]
  OBVIOUS
<1>1. /\ e # Idle /\ e.at = "write" /\ e \in Edits /\ e.customer \in Customers
      /\ e.kind \in {"create", "update", "delete"} /\ e.new \in Accounts
      /\ account[e.customer] \in Accounts
      /\ e.deleted = {} /\ e.inserted = {}
  BY EditTypes DEF InsertRow, UpdateRow, SoftDelete, LInv, LoginTypeOK, EditShape, Shape
<1> PICK n : n = IF e.kind = "delete" THEN [account[e.customer] EXCEPT !.row = "deleted"] ELSE e.new
  OBVIOUS
<1>2. /\ UNCHANGED <<account, logins, edits, meant, overtaken, stale>>
      /\ edit' = [edit EXCEPT ![w] = [e EXCEPT !.new = n, !.at = AfterWrite(e)]]
  <2>1. CASE SoftDelete(w)
    BY <2>1 DEF SoftDelete, Advance
  <2>2. CASE InsertRow(w) \/ UpdateRow(w)
    <3>1. n = e.new /\ Advance(w, e, AfterWrite(e))
      BY <2>2 DEF InsertRow, UpdateRow
    <3>2. [e EXCEPT !.at = AfterWrite(e)] = [e EXCEPT !.new = e.new, !.at = AfterWrite(e)]
      BY <1>1 DEF Edits
    <3> QED
      BY <3>1, <3>2 DEF Advance
  <2> QED
    BY <2>1, <2>2
<1> PICK f : f = [e EXCEPT !.new = n, !.at = AfterWrite(e)]
  OBVIOUS
<1>3. n \in Accounts /\ (e.kind = "delete" => n.row = "deleted") /\ (e.kind # "delete" => n = e.new)
  BY <1>1 DEF Accounts
<1>4. /\ f \in Edits
      /\ f.kind = e.kind /\ f.customer = e.customer /\ f.seen = e.seen /\ f.new = n
      /\ f.keep = e.keep /\ f.at = AfterWrite(e) /\ f.deleted = {} /\ f.inserted = {}
  BY <1>1, <1>3, AfterWriteFacts DEF Edits
<1>5. edit'[w] = f /\ \A v \in Editors \ {w} : edit'[v] = edit[v]
  BY <1>2 DEF LInv, LoginTypeOK
<1>6. LoginTypeOK'
  <2>1. edit' \in [Editors -> Edits \cup {Idle}]
    BY <1>2, <1>4 DEF LInv, LoginTypeOK
  <2> QED
    BY <1>2, <2>1 DEF LInv, LoginTypeOK
<1>7. EditShape'
  <2>1. /\ e.kind = "create" => e.seen = NoName /\ ~e.keep
        /\ e.kind = "delete" => ~e.keep
        /\ e.kind # "delete" => e.new.row = "live" /\ (e.new.entitled => e.new.name # NoName)
    BY <1>1 DEF LInv, EditShape, Shape
  <2>2. /\ f.at \in {"clear", "provision", "commit"}
        /\ f.at = "clear" => f.seen # NoName /\ (f.kind = "delete" \/ f.seen # f.new.name)
        /\ f.at = "provision" => f.kind # "delete"
        /\ f.at = "commit" /\ f.kind # "delete" => ~f.new.entitled
    BY <1>1, <1>3, <1>4, <2>1, AfterWriteFacts
  <2>3. Shape(f)
    BY <1>3, <1>4, <2>1, <2>2 DEF Shape
  <2> QED
    BY <1>5, <2>3 DEF LInv, EditShape
<1>8. CreateAlone' /\ RowThere'
  BY <1>1, <1>2, <1>4, <1>5 DEF LInv, CreateAlone, RowThere, UpdateRow, InsertRow, SoftDelete
<1>9. KeptStatus'
  BY <1>1, <1>2, <1>3, <1>4, <1>5 DEF LInv, KeptStatus, EditShape, Shape
<1>10. \A v \in Editors \ {w} : Wrote(v)' <=> Wrote(v)
  BY <1>5 DEF Wrote
<1>11. \A v \in Editors \ {w} : Wrote(v) => edit[v].customer # e.customer
  BY <1>1 DEF LInv, CreateAlone, UpdateRow, InsertRow, SoftDelete, RowFree, Wrote
<1>12. RowLocked'
  <2> SUFFICES ASSUME NEW u \in Editors, NEW v \in Editors, u # v, Wrote(u)', Wrote(v)'
               PROVE  edit'[u].customer # edit'[v].customer
    BY DEF RowLocked
  <2>a. /\ edit'[w].customer = e.customer
        /\ \A x \in Editors \ {w} : Wrote(x)' => edit'[x].customer # e.customer
    BY <1>4, <1>5, <1>10, <1>11
  <2>1. CASE u = w
    BY <2>a, <2>1
  <2>2. CASE v = w
    BY <2>a, <2>2
  <2>3. CASE u # w /\ v # w
    BY <1>5, <1>10, <2>3 DEF LInv, RowLocked
  <2> QED
    BY <2>1, <2>2, <2>3
<1>13. e.kind # "delete" /\ e.new.name # NoName =>
         /\ ~Taken(e.customer, e.new.name)
         /\ \A v \in Editors \ {w} : Wrote(v) => edit[v].new.name # e.new.name
  BY <1>1 DEF InsertRow, UpdateRow, SoftDelete, NameFree
<1>14. NamesApart'
  <2> SUFFICES ASSUME NEW u \in Editors, NEW v \in Editors, u # v,
                      Wrote(u)', edit'[u].kind # "delete", edit'[u].new.name # NoName,
                      Wrote(v)', edit'[v].kind # "delete", edit'[v].new.name = edit'[u].new.name
               PROVE  FALSE
    BY DEF NamesApart
  <2>a. /\ edit'[w].kind = e.kind /\ (e.kind # "delete" => edit'[w].new.name = e.new.name)
        /\ \A x \in Editors \ {w} : Wrote(x)' => Wrote(x) /\ edit'[x] = edit[x]
    BY <1>3, <1>4, <1>5, <1>10
  <2>1. CASE u = w
    BY <1>13, <2>a, <2>1
  <2>2. CASE v = w
    BY <1>13, <2>a, <2>2
  <2>3. CASE u # w /\ v # w
    BY <1>5, <1>10, <2>3 DEF LInv, NamesApart
  <2> QED
    BY <2>1, <2>2, <2>3
<1>15. NamesReserved'
  <2> SUFFICES ASSUME NEW v \in Editors, Wrote(v)', edit'[v].kind # "delete"
               PROVE  ~Taken(edit[v].customer, edit[v].new.name)'
    BY DEF NamesReserved
  <2>1. CASE v = w
    BY <1>2, <1>3, <1>4, <1>5, <1>13, <2>1 DEF Taken
  <2>2. CASE v # w
    BY <1>2, <1>5, <1>10, <2>2 DEF LInv, NamesReserved, Taken
  <2> QED
    BY <2>1, <2>2
<1>16. Covered'
  <2>1. /\ f.at = "provision" => f.kind # "delete" /\ f.seen \in {NoName, f.new.name}
        /\ f.at = "commit" => f.seen = NoName /\ (f.kind = "delete" \/ f.new.name = NoName)
    BY <1>1, <1>3, <1>4, AfterWriteFacts
  <2>2. \A m : LoginsOf(m)' = LoginsOf(m)
    BY <1>2 DEF LoginsOf
  <2> SUFFICES ASSUME NEW v \in Editors, Wrote(v)'
               PROVE  LET d == edit'[v] IN
                      /\ d.at = "commit" /\ d.kind # "delete" /\ d.new.name # NoName =>
                           LoginsOf(d.new.name) \subseteq d.deleted
                      /\ /\ d.at \in {"provision", "commit"}
                         /\ d.seen # NoName
                         /\ d.kind = "delete" \/ d.seen # d.new.name
                         /\ account[d.customer].row = "live" /\ account[d.customer].name = d.seen
                         => LoginsOf(d.seen) \subseteq d.deleted
    BY <1>2, <2>2 DEF Covered
  <2>3. CASE v = w
    BY <1>5, <2>1, <2>3
  <2>4. CASE v # w
    BY <1>5, <1>10, <2>4 DEF LInv, Covered
  <2> QED
    BY <2>3, <2>4
<1> QED
  BY <1>2, <1>6, <1>7, <1>8, <1>9, <1>12, <1>14, <1>15, <1>16, TablesFrame DEF LInv

\* Clearing and provisioning a name keep it.
LEMMA LoginStatementKeeps ==
  ASSUME LInv, NEW w \in Editors, ClearUser(w) \/ Provision(w) PROVE LInv'
<1> PICK e : e = edit[w]
  OBVIOUS
<1> PICK f : f = edit'[w]
  OBVIOUS
<1>1. /\ e # Idle /\ e \in Edits /\ e.customer \in Customers
      /\ e.kind \in {"create", "update", "delete"} /\ e.new \in Accounts
      /\ e.seen \in UserNames \cup {NoName} /\ e.new.name \in UserNames \cup {NoName}
      /\ e.at \in {"clear", "provision"} /\ e.inserted = {}
      /\ e.at = "clear" => e.deleted = {} /\ e.seen # NoName /\ e.kind # "create"
      /\ e.at = "provision" => e.kind # "delete"
  BY EditTypes DEF ClearUser, Provision, LInv, EditShape, Shape
<1>2. /\ UNCHANGED <<account, logins, edits, meant, overtaken, stale>>
      /\ \A v \in Editors \ {w} : edit'[v] = edit[v]
      /\ edit' = [edit EXCEPT ![w] = f]
  BY DEF ClearUser, Provision, Advance, LInv, LoginTypeOK
<1>3. /\ f.kind = e.kind /\ f.customer = e.customer /\ f.seen = e.seen /\ f.new = e.new
      /\ f.keep = e.keep
      /\ \/ /\ e.at = "clear" /\ f.deleted = LoginsOf(e.seen) /\ f.inserted = {}
            /\ f.at = IF e.kind = "update" /\ e.new.name # NoName THEN "provision" ELSE "commit"
         \/ /\ e.at = "provision" /\ f.at = "commit"
            /\ f.deleted = e.deleted \cup LoginsOf(e.new.name)
            /\ f.inserted = IF e.new.entitled THEN {<<e.new.name, e.customer>>} ELSE {}
  <2>1. CASE ClearUser(w)
    <3>1. f = [[e EXCEPT !.deleted = LoginsOf(e.seen)]
                EXCEPT !.at = IF e.kind = "update" /\ e.new.name # NoName THEN "provision" ELSE "commit"]
      BY <2>1 DEF ClearUser, Advance, LInv, LoginTypeOK
    <3> QED
      BY <1>1, <2>1, <3>1 DEF ClearUser, Edits
  <2>2. CASE Provision(w)
    <3>1. f = [[e EXCEPT !.deleted = @ \cup LoginsOf(e.new.name),
                         !.inserted = IF e.new.entitled THEN {<<e.new.name, e.customer>>} ELSE {}]
                EXCEPT !.at = "commit"]
      BY <2>2 DEF Provision, Advance, LInv, LoginTypeOK
    <3> QED
      BY <1>1, <2>2, <3>1 DEF Provision, Edits
  <2> QED
    BY <2>1, <2>2
<1>4. f \in Edits
  <2>1. \A n : LoginsOf(n) \subseteq Logins
    BY DEF LoginsOf, LInv, LoginTypeOK
  <2>2. e.kind # "delete" => (e.new.entitled => e.new.name # NoName)
    BY <1>1 DEF LInv, EditShape, Shape
  <2>3. e.at = "provision" => e.deleted \subseteq Logins
    BY <1>1, EditTypes DEF LInv
  <2>4. f.deleted \subseteq Logins /\ f.inserted \subseteq Logins
    BY <1>1, <1>3, <2>1, <2>2, <2>3 DEF Logins
  <2>5. CASE ClearUser(w)
    BY <1>1, <1>3, <2>4, <2>5 DEF ClearUser, Advance, Edits, LInv, LoginTypeOK
  <2>6. CASE Provision(w)
    BY <1>1, <1>3, <2>4, <2>6 DEF Provision, Advance, Edits, LInv, LoginTypeOK
  <2> QED
    BY <2>5, <2>6
<1>5. LoginTypeOK'
  <2>1. edit' \in [Editors -> Edits \cup {Idle}]
    BY <1>2, <1>4 DEF LInv, LoginTypeOK
  <2> QED
    BY <1>2, <2>1 DEF LInv, LoginTypeOK
<1>6. EditShape'
  <2>1. /\ e.kind = "create" => e.seen = NoName /\ ~e.keep
        /\ e.kind = "delete" => ~e.keep /\ e.new.row = "deleted"
        /\ e.kind # "delete" => e.new.row = "live" /\ (e.new.entitled => e.new.name # NoName)
        /\ \A l \in e.deleted : l[1] = e.seen \/ (e.kind # "delete" /\ l[1] = e.new.name)
    <3>1. Shape(e) /\ e.at # "write"
      BY <1>1 DEF LInv, EditShape
    <3> QED
      BY <3>1 DEF Shape
  <2>2. \A l \in f.deleted : l[1] = f.seen \/ (f.kind # "delete" /\ l[1] = f.new.name)
    BY <1>1, <1>3, <2>1 DEF LoginsOf
  <2>3. f.at \in {"provision", "commit"} /\ (f.kind = "delete" => f.at = "commit" /\ f.inserted = {})
    BY <1>1, <1>3
  <2>4. /\ f.at # "commit" => f.inserted = {}
        /\ f.at = "commit" /\ f.kind # "delete" =>
             f.inserted = IF f.new.entitled THEN {<<f.new.name, f.customer>>} ELSE {}
    BY <1>1, <1>3, <2>1
  <2>5. Shape(f)
    BY <1>3, <2>1, <2>2, <2>3, <2>4 DEF Shape
  <2> QED
    BY <1>2, <2>5 DEF LInv, EditShape
<1>7. CreateAlone' /\ RowThere' /\ KeptStatus'
  BY <1>1, <1>2, <1>3 DEF LInv, CreateAlone, RowThere, KeptStatus
<1>8. \A v \in Editors : Wrote(v)' => Wrote(v)
  BY <1>1, <1>2 DEF Wrote
<1>9. \A v \in Editors : Wrote(v)' =>
         edit'[v].customer = edit[v].customer /\ edit'[v].kind = edit[v].kind
         /\ edit'[v].new = edit[v].new
  BY <1>2, <1>3
<1>10. RowLocked' /\ NamesApart'
  BY <1>8, <1>9 DEF LInv, RowLocked, NamesApart
<1>11. NamesReserved'
  BY <1>2, <1>8, <1>9 DEF LInv, NamesReserved, Taken
<1>12. Covered'
  <2> SUFFICES ASSUME NEW v \in Editors, Wrote(v)'
               PROVE  LET d == edit'[v] IN
                      /\ d.at = "commit" /\ d.kind # "delete" /\ d.new.name # NoName =>
                           LoginsOf(d.new.name) \subseteq d.deleted
                      /\ /\ d.at \in {"provision", "commit"}
                         /\ d.seen # NoName
                         /\ d.kind = "delete" \/ d.seen # d.new.name
                         /\ account[d.customer].row = "live" /\ account[d.customer].name = d.seen
                         => LoginsOf(d.seen) \subseteq d.deleted
    BY <1>2 DEF Covered, LoginsOf
  <2>1. CASE v # w
    BY <1>2, <1>8, <2>1 DEF LInv, Covered
  <2>2. CASE v = w /\ e.at = "clear"
    BY <1>1, <1>3, <2>2
  <2>3. CASE v = w /\ e.at = "provision"
    <3>1. Wrote(w)
      BY <1>8, <2>3
    <3>2. /\ e.seen # NoName
          /\ e.kind = "delete" \/ e.seen # e.new.name
          /\ account[e.customer].row = "live" /\ account[e.customer].name = e.seen
          => LoginsOf(e.seen) \subseteq e.deleted
      BY <2>3, <3>1 DEF LInv, Covered
    <3> QED
      BY <1>3, <2>3, <3>2
  <2> QED
    BY <1>1, <2>1, <2>2, <2>3
<1> QED
  BY <1>2, <1>5, <1>6, <1>7, <1>10, <1>11, <1>12, TablesFrame DEF LInv

\* Setting a status keeps it: whoever will write back the one before is overtaken.
LEMMA StatusKeeps ==
  ASSUME LInv, NEW c \in Customers, NEW status \in Marks, SetStatus(c, status) PROVE LInv'
<1>0. status \in Statuses
  BY DEF Marks
<1>1. /\ account[c].row = "live" /\ RowFree(c)
      /\ account' = [account EXCEPT ![c].status = status]
      /\ meant' = [meant EXCEPT ![c] = status]
      /\ overtaken' = IF Keeping(c) = {} THEN overtaken ELSE overtaken \cup {c}
      /\ UNCHANGED <<logins, edit, edits, stale>>
  BY DEF SetStatus
<1>2. /\ account[c] \in Accounts
      /\ account'[c].row = account[c].row /\ account'[c].name = account[c].name
      /\ account'[c].entitled = account[c].entitled /\ account'[c].status = status
      /\ account'[c] \in Accounts
      /\ \A d \in Customers \ {c} : account'[d] = account[d]
  <2>1. account[c] \in Accounts
    BY DEF LInv, LoginTypeOK
  <2>2. account'[c] = [account[c] EXCEPT !.status = status]
    BY <1>1 DEF LInv, LoginTypeOK
  <2>3. \A d \in Customers \ {c} : account'[d] = account[d]
    BY <1>1 DEF LInv, LoginTypeOK
  <2> QED
    BY <1>0, <2>1, <2>2, <2>3 DEF Accounts
<1>3. \A d \in Customers : /\ account'[d].row = account[d].row /\ account'[d].name = account[d].name
                           /\ account'[d].entitled = account[d].entitled
  BY <1>2
<1>4. LoginTypeOK'
  <2>1. account' \in [Customers -> Accounts]
    BY <1>1, <1>2 DEF LInv, LoginTypeOK
  <2> QED
    BY <1>0, <1>1, <2>1 DEF LInv, LoginTypeOK
<1>5. \A w \in Editors : edit[w] # Idle => edit[w].customer \in Customers
  BY EditTypes DEF LInv
<1>6. EditShape' /\ RowLocked' /\ NamesApart'
  BY <1>1 DEF LInv, EditShape, RowLocked, NamesApart, Wrote
<1>7. CreateAlone' /\ RowThere'
  BY <1>1, <1>3, <1>5 DEF LInv, CreateAlone, RowThere
<1>8. NamesReserved' /\ NamesUnique'
  BY <1>1, <1>3 DEF LInv, NamesReserved, NamesUnique, Taken, Wrote
<1>9. Covered'
  BY <1>1, <1>3, <1>5 DEF LInv, Covered, LoginsOf, Wrote
<1>10. LoginUnique' /\ LoginsMatch'
  <2>1. \A n : Holders(n)' = Holders(n)
    BY <1>3 DEF Holders
  <2> QED
    BY <1>1, <2>1 DEF LInv, LoginUnique, LoginsMatch, LoginsOf
<1>11. StatusIsMeant'
  BY <1>1, <1>2 DEF LInv, StatusIsMeant, LoginTypeOK
<1>12. KeptStatus'
  <2> SUFFICES ASSUME NEW w \in Editors, edit[w] # Idle, edit[w].keep,
                      edit[w].customer \notin overtaken', account'[edit[w].customer].row = "live"
               PROVE  edit[w].new.status = account'[edit[w].customer].status
    BY <1>1 DEF KeptStatus
  <2>1. CASE edit[w].customer # c
    <3>1. edit[w].customer \notin overtaken
      BY <1>1
    <3> QED
      BY <1>2, <1>5, <2>1, <3>1 DEF LInv, KeptStatus
  <2>2. CASE edit[w].customer = c
    <3>1. w \in Keeping(c)
      BY <1>1, <2>2 DEF RowFree, Wrote, Keeping
    <3> QED
      BY <1>1, <2>2, <3>1
  <2> QED
    BY <2>1, <2>2
<1> QED
  BY <1>4, <1>6, <1>7, <1>8, <1>9, <1>10, <1>11, <1>12 DEF LInv

-----------------------------------------------------------------------------
(* The commit of a request.                                                 *)

\* What it does to the tables.
Committed(w, e) ==
  /\ e = edit[w] /\ e # Idle /\ e.at = "commit" /\ e \in Edits
  /\ e.customer \in Customers /\ e.new \in Accounts
  /\ e.kind \in {"create", "update", "delete"}
  /\ e.kind = "create" => e.seen = NoName
  /\ e.kind = "delete" => ~e.keep /\ e.inserted = {} /\ e.new.row = "deleted"
  /\ e.kind # "delete" => /\ e.new.row = "live"
                          /\ e.new.entitled => e.new.name # NoName
                          /\ e.inserted = IF e.new.entitled
                               THEN {<<e.new.name, e.customer>>} ELSE {}
  /\ e.keep => e.kind = "update"
  /\ \A l \in e.deleted : l[1] = e.seen \/ (e.kind # "delete" /\ l[1] = e.new.name)
  /\ e.inserted \subseteq {<<e.new.name, e.customer>>}
  /\ account' = [account EXCEPT ![e.customer] = e.new]
  /\ account'[e.customer] = e.new
  /\ \A d \in Customers \ {e.customer} : account'[d] = account[d]
  /\ logins' = (logins \ e.deleted) \cup e.inserted
  /\ edit'[w] = Idle /\ \A v \in Editors \ {w} : edit'[v] = edit[v]
  /\ overtaken \subseteq overtaken' /\ stale \subseteq stale'
  /\ Wrote(w)
  /\ \A v \in Editors \ {w} : Wrote(v) => edit[v].customer # e.customer
  /\ \A v \in Editors : edit'[v] # Idle => v # w /\ edit[v] # Idle /\ edit'[v] = edit[v]

LEMMA CommitFacts ==
  ASSUME LInv, NEW w \in Editors, CommitEdit(w), NEW e, e = edit[w] PROVE Committed(w, e)
<1>1. /\ e # Idle /\ e.at = "commit"
      /\ account' = [account EXCEPT ![e.customer] = e.new]
      /\ logins' = (logins \ e.deleted) \cup e.inserted
      /\ edit' = [edit EXCEPT ![w] = Idle]
      /\ overtaken \subseteq overtaken' /\ stale \subseteq stale'
  BY DEF CommitEdit
<1>2. /\ e \in Edits /\ e.customer \in Customers /\ e.new \in Accounts
      /\ e.kind \in {"create", "update", "delete"} /\ Shape(e)
  BY <1>1, EditTypes DEF LInv, EditShape
<1>3. /\ account'[e.customer] = e.new
      /\ \A d \in Customers \ {e.customer} : account'[d] = account[d]
      /\ edit'[w] = Idle /\ \A v \in Editors \ {w} : edit'[v] = edit[v]
  BY <1>1, <1>2 DEF LInv, LoginTypeOK
<1>4. /\ e.kind = "create" => e.seen = NoName
      /\ e.kind = "delete" => ~e.keep /\ e.inserted = {} /\ e.new.row = "deleted"
      /\ e.kind # "delete" => /\ e.new.row = "live"
                              /\ e.new.entitled => e.new.name # NoName
                              /\ e.inserted = IF e.new.entitled
                                   THEN {<<e.new.name, e.customer>>} ELSE {}
      /\ e.keep => e.kind = "update"
      /\ \A l \in e.deleted : l[1] = e.seen \/ (e.kind # "delete" /\ l[1] = e.new.name)
      /\ e.inserted \subseteq {<<e.new.name, e.customer>>}
  BY <1>1, <1>2 DEF Shape
<1>5. Wrote(w)
  BY <1>1 DEF Wrote
<1>6. \A v \in Editors \ {w} : Wrote(v) => edit[v].customer # e.customer
  BY <1>5 DEF LInv, RowLocked
<1> QED
  BY <1>1, <1>2, <1>3, <1>4, <1>5, <1>6 DEF Committed

\* The requests that go on, and the names.
LEMMA CommitOthers ==
  ASSUME LInv, NEW w \in Editors, CommitEdit(w)
  PROVE  /\ LoginTypeOK' /\ EditShape' /\ CreateAlone' /\ RowThere' /\ RowLocked' /\ NamesApart'
         /\ NamesReserved' /\ NamesUnique'
<1> PICK e : e = edit[w]
  OBVIOUS
<1>f. Committed(w, e)
  BY CommitFacts
<1> USE <1>f DEF Committed
<1>1. LoginTypeOK'
  <2>1. account' \in [Customers -> Accounts]
    BY DEF LInv, LoginTypeOK
  <2>2. e.inserted \subseteq Logins
    BY EditTypes DEF LInv
  <2>3. logins' \subseteq Logins
    BY <2>2 DEF LInv, LoginTypeOK
  <2>4. edit' \in [Editors -> Edits \cup {Idle}]
    BY DEF CommitEdit, LInv, LoginTypeOK
  <2>5. meant' \in [Customers -> Statuses]
    BY DEF CommitEdit, LInv, LoginTypeOK, Accounts
  <2>6. overtaken' \subseteq Customers /\ edits' \in 0..MaxEdits
    <3>1. edits' = edits /\ (overtaken' = overtaken \/ overtaken' = overtaken \cup {e.customer})
      BY DEF CommitEdit
    <3> QED
      BY <3>1 DEF LInv, LoginTypeOK
  <2>7. stale' \subseteq UserNames \cup {NoName}
    <3>1. e.seen \in UserNames \cup {NoName} /\ account[e.customer].name \in UserNames \cup {NoName}
      BY EditTypes DEF LInv, LoginTypeOK, Accounts
    <3>2. stale' = stale \/ stale' = stale \cup {e.seen, account[e.customer].name}
      BY DEF CommitEdit
    <3> QED
      BY <3>1, <3>2 DEF LInv, LoginTypeOK
  <2> QED
    BY <2>1, <2>3, <2>4, <2>5, <2>6, <2>7 DEF LoginTypeOK
<1>2. EditShape'
  BY DEF LInv, EditShape
<1>3. \A v \in Editors : Wrote(v)' => v # w /\ Wrote(v) /\ edit'[v] = edit[v]
  BY DEF Wrote
<1>4. RowLocked' /\ NamesApart'
  BY <1>3 DEF LInv, RowLocked, NamesApart
<1>5. e.new.row # "none"
  OBVIOUS
<1>6. CreateAlone'
  <2> SUFFICES ASSUME NEW v \in Editors, v # w, edit[v] # Idle, edit[v].kind = "create"
               PROVE  /\ account'[edit[v].customer].row = "none"
                      /\ \A u \in Editors \ {v} : edit'[u] # Idle => edit'[u].customer # edit[v].customer
    BY DEF CreateAlone
  <2>1. edit[v].customer # e.customer /\ edit[v].customer \in Customers
    BY EditTypes DEF LInv, CreateAlone
  <2> QED
    BY <2>1 DEF LInv, CreateAlone
<1>7. RowThere'
  <2> SUFFICES ASSUME NEW v \in Editors, v # w, edit[v] # Idle, edit[v].kind # "create"
               PROVE  /\ account'[edit[v].customer].row # "none"
                      /\ edit[v].kind = "update" /\ edit[v].at # "write"
                           => account'[edit[v].customer].row = "live"
    BY DEF RowThere
  <2>1. edit[v].customer \in Customers
    BY EditTypes DEF LInv
  <2>2. CASE edit[v].customer = e.customer
    BY <1>5, <2>2 DEF Wrote
  <2>3. CASE edit[v].customer # e.customer
    BY <2>1, <2>3 DEF LInv, RowThere
  <2> QED
    BY <2>2, <2>3
<1>8. \A v \in Editors : Wrote(v)' /\ edit'[v].kind # "delete" =>
         ~Taken(edit[v].customer, edit[v].new.name)'
  <2> SUFFICES ASSUME NEW v \in Editors, v # w, Wrote(v), edit[v].kind # "delete",
                      edit[v].new.name # NoName,
                      NEW d \in Customers \ {edit[v].customer}, account'[d].row = "live"
               PROVE  account'[d].name # edit[v].new.name
    BY <1>3 DEF Taken
  <2>1. CASE d = e.customer
    <3>1. e.kind # "delete"
      BY <2>1
    <3> QED
      BY <2>1, <3>1 DEF LInv, NamesApart
  <2>2. CASE d # e.customer
    BY <2>2 DEF LInv, NamesReserved, Taken
  <2> QED
    BY <2>1, <2>2
<1>9. NamesReserved'
  BY <1>3, <1>8 DEF NamesReserved
<1>10. NamesUnique'
  <2> SUFFICES ASSUME NEW c \in Customers, NEW d \in Customers, c # d,
                      account'[c].row = "live", account'[d].row = "live",
                      account'[c].name # NoName, account'[c].name = account'[d].name
               PROVE  FALSE
    BY DEF NamesUnique, Taken
  <2>1. ~(e.kind # "delete" /\ Taken(e.customer, e.new.name))
    BY DEF LInv, NamesReserved
  <2>2. CASE c = e.customer \/ d = e.customer
    BY <2>1, <2>2 DEF Taken
  <2>3. CASE c # e.customer /\ d # e.customer
    BY <2>3 DEF LInv, NamesUnique, Taken
  <2> QED
    BY <2>2, <2>3
<1> QED
  BY <1>1, <1>2, <1>4, <1>6, <1>7, <1>9, <1>10

\* The names that have been cleared, and the statuses.
LEMMA CommitCovers ==
  ASSUME LInv, NEW w \in Editors, CommitEdit(w) PROVE Covered' /\ KeptStatus' /\ StatusIsMeant'
<1> PICK e : e = edit[w]
  OBVIOUS
<1>f. Committed(w, e)
  BY CommitFacts
<1> USE <1>f DEF Committed
<1>1. Covered'
  <2> SUFFICES ASSUME NEW v \in Editors, v # w, Wrote(v)
               PROVE  LET d == edit[v] IN
                      /\ d.at = "commit" /\ d.kind # "delete" /\ d.new.name # NoName =>
                           LoginsOf(d.new.name)' \subseteq d.deleted
                      /\ /\ d.at \in {"provision", "commit"}
                         /\ d.seen # NoName
                         /\ d.kind = "delete" \/ d.seen # d.new.name
                         /\ account'[d.customer].row = "live" /\ account'[d.customer].name = d.seen
                         => LoginsOf(d.seen)' \subseteq d.deleted
    <3>1. \A v \in Editors : Wrote(v)' => v # w /\ Wrote(v) /\ edit'[v] = edit[v]
      BY DEF Wrote
    <3> QED
      BY <3>1 DEF Covered, LoginsOf
  <2>1. \A n : n # e.new.name \/ e.inserted = {} => LoginsOf(n)' \subseteq LoginsOf(n)
    BY DEF LoginsOf
  <2>2. e.inserted # {} => e.kind # "delete" /\ e.new.name # NoName
    OBVIOUS
  <2>3. edit[v].customer # e.customer /\ edit[v].customer \in Customers
    BY EditTypes DEF LInv, Wrote
  <2>4. account'[edit[v].customer] = account[edit[v].customer]
    BY <2>3
  <2>5. ASSUME edit[v].at = "commit", edit[v].kind # "delete", edit[v].new.name # NoName
        PROVE  LoginsOf(edit[v].new.name)' \subseteq edit[v].deleted
    <3>1. e.inserted # {} => edit[v].new.name # e.new.name
      BY <2>2, <2>5 DEF LInv, NamesApart
    <3>2. LoginsOf(edit[v].new.name) \subseteq edit[v].deleted
      BY <2>5 DEF LInv, Covered
    <3> QED
      BY <2>1, <3>1, <3>2
  <2>6. ASSUME /\ edit[v].at \in {"provision", "commit"}
               /\ edit[v].seen # NoName
               /\ edit[v].kind = "delete" \/ edit[v].seen # edit[v].new.name
               /\ account'[edit[v].customer].row = "live"
               /\ account'[edit[v].customer].name = edit[v].seen
        PROVE  LoginsOf(edit[v].seen)' \subseteq edit[v].deleted
    <3>1. LoginsOf(edit[v].seen) \subseteq edit[v].deleted
      BY <2>4, <2>6 DEF LInv, Covered
    <3>2. e.inserted # {} => ~Taken(e.customer, e.new.name)
      BY <2>2 DEF LInv, NamesReserved
    <3>3. e.inserted # {} => edit[v].seen # e.new.name
      BY <2>3, <2>4, <2>6, <3>2 DEF Taken
    <3> QED
      BY <2>1, <3>1, <3>3
  <2> QED
    BY <2>5, <2>6
<1>2. Keeping(e.customer) # {} => e.customer \in overtaken'
  BY DEF CommitEdit
<1>3. KeptStatus'
  <2> SUFFICES ASSUME NEW v \in Editors, v # w, edit[v] # Idle, edit[v].keep,
                      edit[v].customer \notin overtaken', account'[edit[v].customer].row = "live"
               PROVE  edit[v].new.status = account'[edit[v].customer].status
    BY DEF KeptStatus
  <2>1. CASE edit[v].customer = e.customer
    <3>1. v \in Keeping(e.customer)
      BY <2>1 DEF Keeping, Wrote
    <3> QED
      BY <1>2, <2>1, <3>1
  <2>2. CASE edit[v].customer # e.customer
    <3>1. edit[v].customer \in Customers /\ edit[v].customer \notin overtaken
      BY EditTypes DEF LInv
    <3> QED
      BY <2>2, <3>1 DEF LInv, KeptStatus
  <2> QED
    BY <2>1, <2>2
<1>4. StatusIsMeant'
  <2> SUFFICES ASSUME NEW c \in Customers \ overtaken', account'[c].row = "live"
               PROVE  account'[c].status = meant'[c]
    BY DEF StatusIsMeant
  <2>1. meant' = IF e.keep \/ e.kind = "delete" THEN meant
                   ELSE [meant EXCEPT ![e.customer] = e.new.status]
    BY DEF CommitEdit
  <2>2. CASE c # e.customer
    BY <2>1, <2>2 DEF LInv, StatusIsMeant, LoginTypeOK
  <2>3. CASE c = e.customer /\ ~e.keep
    BY <2>1, <2>3 DEF LInv, LoginTypeOK
  <2>4. CASE c = e.customer /\ e.keep
    <3>1. e.kind = "update"
      BY <2>4
    <3>2. account[c].row = "live"
      BY <2>4, <3>1 DEF LInv, RowThere
    <3> QED
      BY <2>1, <2>4, <3>2 DEF LInv, KeptStatus, StatusIsMeant
  <2> QED
    BY <2>2, <2>3, <2>4
<1> QED
  BY <1>1, <1>3, <1>4

\* The logins.
LEMMA CommitLogins ==
  ASSUME LInv, NEW w \in Editors, CommitEdit(w) PROVE LoginUnique' /\ LoginsMatch'
<1> PICK e : e = edit[w]
  OBVIOUS
<1> PICK c \in Customers : c = e.customer
  BY CommitFacts DEF Committed
<1>f. Committed(w, e)
  BY CommitFacts
<1> USE <1>f DEF Committed
<1>1. e.kind # "delete" /\ e.new.name # NoName => LoginsOf(e.new.name) \subseteq e.deleted
  BY DEF LInv, Covered
<1>2. LoginUnique'
  <2> SUFFICES ASSUME NEW l \in logins', NEW m \in logins', l[1] = m[1] PROVE l = m
    BY DEF LoginUnique
  <2>1. CASE l \in e.inserted /\ m \in e.inserted
    BY <2>1
  <2>2. CASE l \notin e.inserted /\ m \notin e.inserted
    BY <2>2 DEF LInv, LoginUnique
  <2>3. CASE ~(l \in e.inserted <=> m \in e.inserted)
    <3>1. e.kind # "delete" /\ e.new.name # NoName
      BY <2>3
    <3>2. \A x \in e.inserted : x[1] = e.new.name
      OBVIOUS
    <3>3. \A x \in logins' : x[1] = e.new.name => x \in e.inserted
      BY <1>1, <3>1 DEF LoginsOf
    <3> QED
      BY <2>3, <3>2, <3>3
  <2> QED
    BY <2>1, <2>2, <2>3
<1>3. LoginsMatch'
  <2> SUFFICES ASSUME NEW n \in UserNames \ stale'
               PROVE  LoginsOf(n)' = {<<n, d>> : d \in Holders(n)'}
    BY DEF LoginsMatch
  <2>1. LoginsOf(n) = {<<n, d>> : d \in Holders(n)}
    BY DEF LInv, LoginsMatch
  <2>2. n # NoName
    BY LoginsAssumption
  <2>3. \A d \in Customers \ {c} : d \in Holders(n)' <=> d \in Holders(n)
    BY DEF Holders
  <2>4. c \in Holders(n)' <=> e.new.row = "live" /\ e.new.name = n /\ e.new.entitled
    BY DEF Holders
  <2>5. CASE e.kind # "delete" /\ e.new.name = n
    <3>1. LoginsOf(n)' = e.inserted
      BY <1>1, <2>2, <2>5 DEF LoginsOf
    <3>2. e.inserted = IF e.new.entitled THEN {<<n, c>>} ELSE {}
      BY <2>5
    <3>3. \A d \in Customers \ {c} : d \notin Holders(n)
      BY <2>2, <2>5 DEF LInv, NamesReserved, Taken, Holders
    <3>4. Holders(n)' = IF e.new.entitled THEN {c} ELSE {}
      <4>1. e.new.row = "live"
        BY <2>5
      <4>2. Holders(n)' \subseteq Customers
        BY DEF Holders
      <4> QED
        BY <2>3, <2>4, <2>5, <3>3, <4>1, <4>2
    <3> QED
      BY <3>1, <3>2, <3>4
  <2>6. CASE ~(e.kind # "delete" /\ e.new.name = n)
    <3>1. LoginsOf(n)' = LoginsOf(n) \ e.deleted
      BY <2>6 DEF LoginsOf
    <3>2. c \notin Holders(n)'
      BY <2>4, <2>6
    <3>3. CASE e.kind = "create"
      <4>1. account[c].row = "none"
        BY <3>3 DEF LInv, CreateAlone
      <4>2. c \notin Holders(n)
        BY <4>1 DEF Holders
      <4>3. Holders(n)' = Holders(n)
        BY <2>3, <3>2, <4>2 DEF Holders
      <4>4. LoginsOf(n) \cap e.deleted = {}
        BY <2>2, <2>6, <3>3 DEF LoginsOf
      <4> QED
        BY <2>1, <3>1, <4>3, <4>4
    <3>4. CASE e.kind # "create" /\ account[c].row = "live" /\ account[c].name = e.seen /\ e.seen = n
      <4>1. LoginsOf(n) \subseteq e.deleted
        BY <2>2, <2>6, <3>4 DEF LInv, Covered
      <4>2. \A d \in Customers \ {c} : d \notin Holders(n)
        BY <2>2, <3>4 DEF LInv, NamesUnique, Taken, Holders
      <4>3. Holders(n)' = {}
        BY <2>3, <3>2, <4>2 DEF Holders
      <4> QED
        BY <3>1, <4>1, <4>3
    <3>5. CASE e.kind # "create" /\ e.seen # n /\ account[c].name # n
      <4>1. LoginsOf(n) \cap e.deleted = {}
        BY <2>6, <3>5 DEF LoginsOf
      <4>2. c \notin Holders(n)
        BY <3>5 DEF Holders
      <4>3. Holders(n)' = Holders(n)
        BY <2>3, <3>2, <4>2 DEF Holders
      <4> QED
        BY <2>1, <3>1, <4>1, <4>3
    <3>6. e.kind # "create" =>
            \/ account[c].row = "live" /\ account[c].name = e.seen
            \/ e.seen # n /\ account[c].name # n
      BY DEF CommitEdit
    <3> QED
      BY <3>3, <3>4, <3>5, <3>6
  <2> QED
    BY <2>5, <2>6
<1> QED
  BY <1>2, <1>3

\* Every step keeps the invariant.
LEMMA LoginsNext == LInv /\ [LoginNext]_loginVars => LInv'
<1> SUFFICES ASSUME LInv, [LoginNext]_loginVars PROVE LInv'
  OBVIOUS
<1>1. CASE UNCHANGED loginVars
  BY <1>1 DEF loginVars, LInv, LoginTypeOK, EditShape, CreateAlone, RowThere, RowLocked,
     NamesApart, NamesReserved, NamesUnique, Covered, KeptStatus, LoginUnique, StatusIsMeant,
     LoginsMatch, Wrote, Taken, LoginsOf, Holders
<1>2. ASSUME NEW w \in Editors, CommitEdit(w) PROVE LInv'
  BY <1>2, CommitOthers, CommitCovers, CommitLogins DEF LInv
<1> QED
  BY <1>1, <1>2, BeginKeeps, AbortKeeps, WriteKeeps, LoginStatementKeeps, StatusKeeps
     DEF LoginNext, EditStatement

\* The invariant holds throughout.
LEMMA LoginsInvariant == LoginSpec => []LInv
  BY LoginsInit, LoginsNext, PTL DEF LoginSpec

-----------------------------------------------------------------------------
\* RadiusLogins stays well-typed.
THEOREM LoginsTypeInvariant == LoginSpec => []LoginTypeOK
<1>1. LInv => LoginTypeOK
  BY DEF LInv
<1> QED
  BY <1>1, LoginsInvariant, PTL

\* Outside the names an edit has worked on from an outdated row, radcheck has the
\* login of the customer who is entitled to the name, and no other.
THEOREM LoginsAreTheCustomers == LoginSpec => []LoginsMatch
<1>1. LInv => LoginsMatch
  BY DEF LInv
<1> QED
  BY <1>1, LoginsInvariant, PTL

\* What the invariant says of the logins of a name, counted.
LEMMA LoginsCounted == LInv => OneLoginPerName
<1> SUFFICES ASSUME LInv, NEW n \in UserNames PROVE Cardinality(LoginsOf(n)) <= 1
  BY DEF OneLoginPerName
<1>1. \A l, m \in LoginsOf(n) : l = m
  BY DEF LInv, LoginUnique, LoginsOf
<1>2. CASE LoginsOf(n) = {}
  BY <1>2, FS_EmptySet
<1>3. CASE LoginsOf(n) # {}
  <2>1. PICK l \in LoginsOf(n) : LoginsOf(n) = {l}
    BY <1>1, <1>3
  <2>2. Cardinality({l}) = 1
    BY FS_Singleton
  <2> QED
    BY <2>1, <2>2
<1> QED
  BY <1>2, <1>3

\* A user name never has two customers' passwords, whatever requests overlap.
THEOREM NamesHaveOneLogin == LoginSpec => []OneLoginPerName
  BY LoginsCounted, LoginsInvariant, PTL

\* A customer's status is the one they were last given, unless that was between
\* the SELECT and the UPDATE of an edit that leaves the status alone.
THEOREM StatusesAreMeant == LoginSpec => []StatusIsMeant
<1>1. LInv => StatusIsMeant
  BY DEF LInv
<1> QED
  BY <1>1, LoginsInvariant, PTL

=============================================================================
