------------------------------- MODULE Stores -------------------------------
(***************************************************************************)
(* The two implementations of the repository ports: internal/repo on top    *)
(* of the generated statements of internal/repo/sqlc, which production      *)
(* runs, and internal/repo/memrepo, the in-memory double every test of a    *)
(* service runs instead.  A call is made to both, and what they answer and  *)
(* what they keep is compared.                                              *)
(*                                                                          *)
(* Each repository method has three definitions: the statement (Sql...),    *)
(* the double's method (Mem...), and the call, which names the domain       *)
(* errors the adapter makes of the driver's, and the cases in which the     *)
(* two agree.  A behaviour calls the methods on one table, in any order; a  *)
(* call on which the two are known to differ ends it and leaves the tables. *)
(*                                                                          *)
(* A list is compared as a set: its order, limit and offset are left out.   *)
(* So are timestamps, references to rows of other tables, the ids an upsert *)
(* gives, and the folding of case that citext columns do.  A row's columns  *)
(* are those the methods tell apart.                                        *)
(***************************************************************************)
EXTENDS Naturals, FiniteSets

CONSTANTS
  RowIds,     \* ids of rows
  Owners,     \* tenants
  Keys,       \* names, codes and references
  Nothing     \* NULL, or the empty string

\* Ids are ordered, for the oldest of several rows is asked for; NULL is none of the values
\* a column has otherwise.
ASSUME StoresAssumption == RowIds \subseteq Nat /\ Nothing \notin Keys \cup {"pending"}

VARIABLES
  table,      \* the table under consideration
  sql,        \* its rows in PostgreSQL
  mem,        \* and in the double
  alike,      \* the last call was answered alike, and did the same to the rows
  parted      \* the last call is one on which the two are known to differ

storeVars == <<table, sql, mem, alike, parted>>

-----------------------------------------------------------------------------
(* What a method does: the rows it leaves, its error, and its answer.       *)

Answer(rows, value) == [rows |-> rows, error |-> "", value |-> value]
Refusal(rows, error) == [rows |-> rows, error |-> error, value |-> {}]

One(rows, found, error) == IF found = {} THEN Refusal(rows, error) ELSE Answer(rows, found)

Insert(rows, row) == Answer(rows \cup {row}, {row})

Change(rows, found, By(_)) ==
  LET new == {By(r) : r \in found} IN Answer((rows \ found) \cup new, new)

ChangeOne(rows, found, By(_), error) ==
  IF found = {} THEN Refusal(rows, error) ELSE Change(rows, found, By)

Delete(rows, found) == Answer(rows \ found, found)

\* A method that returns something else than the rows, or its error only.
Returning(res, value) == [rows |-> res.rows, error |-> res.error, value |-> value]
Silent(res) == Returning(res, {})

-----------------------------------------------------------------------------
\* The rows deleted_at leaves in sight.
Present(rows) == {r \in rows : ~r.deleted}

\* What the double holds if it does what the database does.
View(rows) == {r \in rows : "deleted" \in DOMAIN r => ~r.deleted}

ById(rows, id) == {r \in rows : r.id = id}
Owned(rows, t) == {r \in rows : r.tenant = t}
Fresh == {i \in RowIds : ById(sql, i) = {}}

NoRows == "no_rows"         \* pgx.ErrNoRows
Unique == "unique"          \* a unique violation
Reference == "reference"    \* a foreign key violation

\* INSERT, under a unique index.
InsertUnless(clash, row) == IF clash THEN Refusal(sql, Unique) ELSE Insert(sql, row)

\* The adapter: the driver's errors that a field of names gives a domain error for,
\* the rest wrapped.
Adapt(res, names) ==
  [rows  |-> res.rows,
   error |-> IF res.error = "" THEN ""
             ELSE IF res.error \in DOMAIN names THEN names[res.error] ELSE "wrapped",
   value |-> res.value]

Wrap(res) == Adapt(res, [e \in {} |-> ""])

Call(s, m, agrees) ==
  /\ alike' = (s.error = m.error /\ s.value = m.value /\ m.rows = View(s.rows))
  /\ parted' = ~agrees
  /\ sql' = IF agrees THEN s.rows ELSE sql
  /\ mem' = IF agrees THEN m.rows ELSE mem
  /\ UNCHANGED table

StoreInit(tables) ==
  /\ table \in tables
  /\ sql = {}
  /\ mem = {}
  /\ alike = TRUE
  /\ parted = FALSE

\* What passes on the double passes on PostgreSQL, except for the calls that are
\* known to differ; and on those the two do differ.
DoubleAgrees == alike <=> ~parted

=============================================================================
