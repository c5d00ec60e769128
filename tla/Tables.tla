------------------------------- MODULE Tables -------------------------------
(***************************************************************************)
(* The data table of one spider: SpiderDataManager (core/data_manager.py), *)
(* the runs that save their items through one (core/runner.py) and the     *)
(* requests that read them (api/routes.py).  Each run and each request has *)
(* a manager of its own, with the fields and the deduplication key the     *)
(* spider had when it was made, and makes the table itself.                *)
(*                                                                         *)
(* Each statement is a step: statements that change the schema are not     *)
(* part of a transaction in either dialect.                                *)
(***************************************************************************)
EXTENDS Integers, FiniteSets, FiniteSetsExt

CONSTANTS
    Columns,       \* columns a declaration may name
    Declarations,  \* what the class of the spider may declare, see Declaration
    Dialects,      \* of "sqlite" and "mysql", those to check
    FieldsInRow,   \* whether the row of the spider has the attribute fields
    Runs,          \* runners of this spider
    Readers,       \* requests that read the table
    Users,
    Values,        \* values of a column, among them Null
    MaxRows,       \* bound: items saved
    MaxReloads,    \* bound: times the declaration changes
    Null, Nobody

\* A class may declare fields, some with a type that _validate_column_type
\* refuses (all with parentheses, and so the type of a field that has none), and
\* a deduplication key (or {}), of which nobody checks that it is of fields.  The
\* standard columns are left out: one in a key is like a field all declare.
Declaration == [fields : SUBSET Columns, refused : SUBSET Columns, dedup : SUBSET Columns]

ASSUME TablesAssumption ==
    /\ \A d \in Declarations : d \in Declaration /\ d.refused \subseteq d.fields
    /\ Dialects \subseteq {"sqlite", "mysql"} /\ FieldsInRow \in BOOLEAN
    /\ MaxRows \in Nat /\ MaxReloads \in Nat
    /\ Null \in Values /\ Nobody \notin Users /\ Runs \cap Readers = {}

VARIABLES
    dialect,
    declared,    \* what the class declares now
    table,       \* the table, if it exists: columns, unique index, rows
    mgr,         \* the manager of each run and request
    user,        \* whose run it is
    init,        \* runs that have set _dm_initialized
    items,       \* the table "items" that all spiders share
    \* History.
    saves,       \* items the runs were given
    reloads,     \* changes of the declaration
    overlapped,  \* managers whose ensure_table met a change by another
    baseless,    \* an ensure_table failed without a reason
    lost         \* items whose saving failed: by run, and how

vars == <<dialect, declared, table, mgr, user, init, items,
          saves, reloads, overlapped, baseless, lost>>

Procs == Runs \cup Readers

\* A value for each column of Columns; a spider leaves a field out as Null.
Item == [Columns -> Values]

\* The user stands for the task, too.
Row == [user : Users, item : Item, no : 1..MaxRows]

NoTable == [exists |-> FALSE, cols |-> {}, index |-> {}, rows |-> {}]

\* Where a manager is: not made; before one of the statements of
\* ensure_table; ready; or, for a run, given up.
At == {"none", "look", "create", "inspect", "alter", "index", "ready", "failed"}

NoManager == [at |-> "none", decl |-> [fields |-> {}, refused |-> {}, dedup |-> {}],
              missing |-> {}]

Goes(p, at) == mgr' = [mgr EXCEPT ![p].at = at]

Ensuring(p) == mgr[p].at \in {"look", "create", "inspect", "alter", "index"}

Same(x, y, key) == \A c \in key : x[c] # Null /\ x[c] = y[c]

Duplicates(key) ==
    \E r, s \in table.rows : r.no # s.no /\ key # {} /\ Same(r.item, s.item, key)

-----------------------------------------------------------------------------
(* ensure_table.                                                           *)

\* A manager begins, for the user.
Make(p, u) ==
    /\ mgr' = [mgr EXCEPT ![p] = [at |-> "look", decl |-> declared, missing |-> {}]]
    /\ user' = [user EXCEPT ![p] = u]
    /\ overlapped' = overlapped \ {p}

\* The schema changes under the others that are ensuring it.
Changes(p, t) ==
    /\ table' = t
    /\ overlapped' = overlapped \cup {q \in Procs \ {p} : Ensuring(q)}

\* Why ensure_table of p may fail: it met a change, the declaration is refused or
\* names a key that is no column, or rows violate the key.
HasReason(p) ==
    LET decl == mgr[p].decl
    IN  \/ p \in overlapped
        \/ decl.refused # {} \/ ~(decl.dedup \subseteq table.cols)
        \/ Duplicates(decl.dedup)

\* Mutant of Raises: a request keeps the manager that failed.
RaisesForGood(p) ==
    /\ Goes(p, "failed")
    /\ baseless' = (baseless \/ ~HasReason(p))
    /\ lost' = IF p \in Runs THEN [lost EXCEPT ![p].ensuring = @ + 1] ELSE lost
    /\ UNCHANGED <<table, overlapped>>

\* The statement of p raises.  A request answers 500; a run loses the item it
\* has in hand, and has no manager from then on.
Raises(p) ==
    /\ Goes(p, IF p \in Runs THEN "failed" ELSE "none")
    /\ baseless' = (baseless \/ ~HasReason(p))
    /\ lost' = IF p \in Runs THEN [lost EXCEPT ![p].ensuring = @ + 1] ELSE lost
    /\ UNCHANGED <<table, overlapped>>

Others == <<dialect, declared, user, init, items, saves, reloads>>

Look(p) ==
    /\ mgr[p].at = "look"
    /\ Goes(p, IF table.exists THEN "inspect" ELSE "create")
    /\ UNCHANGED <<Others, table, overlapped, baseless, lost>>

\* Mutant of Create: the index of the deduplication key is left to later calls.
CreateOnly(p) ==
    /\ mgr[p].at = "create"
    /\ \/ /\ ~table.exists /\ mgr[p].decl.refused = {}
          /\ Changes(p, [NoTable EXCEPT !.exists = TRUE, !.cols = mgr[p].decl.fields])
          /\ Goes(p, "ready")
          /\ UNCHANGED <<baseless, lost>>
       \/ (table.exists \/ mgr[p].decl.refused # {}) /\ Raises(p)
    /\ UNCHANGED Others

\* CREATE TABLE with the standard columns and the fields, if no type is refused.
Create(p) ==
    /\ mgr[p].at = "create"
    /\ \/ /\ ~table.exists /\ mgr[p].decl.refused = {}
          /\ Changes(p, [NoTable EXCEPT !.exists = TRUE, !.cols = mgr[p].decl.fields])
          /\ Goes(p, "index")
          /\ UNCHANGED <<baseless, lost>>
       \/ (table.exists \/ mgr[p].decl.refused # {}) /\ Raises(p)
    /\ UNCHANGED Others

\* Mutant of Inspect: the columns there are already are added, too.
InspectNothing(p) ==
    /\ mgr[p].at = "inspect"
    /\ mgr' = [mgr EXCEPT ![p].at = "alter", ![p].missing = mgr[p].decl.fields]
    /\ UNCHANGED <<Others, table, overlapped, baseless, lost>>

\* The missing columns.
Inspect(p) ==
    /\ mgr[p].at = "inspect"
    /\ mgr' = [mgr EXCEPT ![p].at = "alter", ![p].missing = mgr[p].decl.fields \ table.cols]
    /\ UNCHANGED <<Others, table, overlapped, baseless, lost>>

\* ALTER TABLE for one after the other; the types of all fields are checked on
\* the way, also of those that are there.
Alter(p) ==
    /\ mgr[p].at = "alter"
    /\ \/ /\ mgr[p].missing = {} /\ mgr[p].decl.refused = {}
          /\ Goes(p, "index") /\ UNCHANGED <<table, overlapped, baseless, lost>>
       \/ mgr[p].decl.refused # {} /\ Raises(p)
       \/ \E c \in mgr[p].missing \ mgr[p].decl.refused :
             \/ /\ c \notin table.cols
                /\ Changes(p, [table EXCEPT !.cols = @ \cup {c}])
                /\ mgr' = [mgr EXCEPT ![p].missing = @ \ {c}]
                /\ UNCHANGED <<baseless, lost>>
             \/ c \in table.cols /\ Raises(p)
    /\ UNCHANGED Others

\* CREATE UNIQUE INDEX for the deduplication key, under a name that says
\* nothing of its columns; it fails if they are not there or the rows violate it.
\* MySQL's errors are all passed over.
Index(p) ==
    LET key   == mgr[p].decl.dedup
        fails == ~(key \subseteq table.cols) \/ Duplicates(key)
    IN  /\ mgr[p].at = "index"
        /\ \/ /\ key = {} \/ table.index # {} \/ (fails /\ dialect = "mysql")
              /\ Goes(p, "ready") /\ UNCHANGED <<table, overlapped, baseless, lost>>
           \/ /\ key # {} /\ table.index = {} /\ ~fails
              /\ Changes(p, [table EXCEPT !.index = key])
              /\ Goes(p, "ready") /\ UNCHANGED <<baseless, lost>>
           \/ /\ key # {} /\ table.index = {} /\ fails /\ dialect = "sqlite"
              /\ Raises(p)
        /\ UNCHANGED Others

-----------------------------------------------------------------------------
(* Runs.                                                                   *)

\* Mutant of FirstItem: _dm_initialized is set once the manager is ready.
FirstItemUnmarked(r, u) ==
    /\ r \notin init /\ mgr[r].at \in {"none", "failed"} /\ saves < MaxRows
    /\ Make(r, u)
    /\ UNCHANGED <<dialect, declared, table, init, items, saves, reloads, baseless, lost>>

\* _get_or_init_data_manager, for the first item of a run, which is in hand
\* meanwhile; the flag is set before the work.
FirstItem(r, u) ==
    /\ r \notin init /\ saves < MaxRows
    /\ init' = init \cup {r}
    /\ IF FieldsInRow /\ declared.fields # {} THEN Make(r, u)
       ELSE user' = [user EXCEPT ![r] = u] /\ UNCHANGED <<mgr, overlapped>>
    /\ UNCHANGED <<dialect, declared, table, items, saves, reloads, baseless, lost>>

\* The row of the spider cannot be read: the item is lost, and the run has no
\* manager from then on.
FirstItemFails(r, u) ==
    /\ r \notin init /\ saves < MaxRows
    /\ init' = init \cup {r} /\ user' = [user EXCEPT ![r] = u]
    /\ Goes(r, "failed") /\ lost' = [lost EXCEPT ![r].ensuring = @ + 1]
    /\ UNCHANGED <<dialect, declared, table, items, saves, reloads, overlapped, baseless>>

\* An item of a run without a manager goes to "items".
SaveToItems(r) ==
    /\ r \in init /\ mgr[r].at \in {"none", "failed"} /\ saves < MaxRows
    /\ saves' = saves + 1
    /\ items' = items \cup {[run |-> r, decl |-> declared]}
    /\ UNCHANGED <<dialect, declared, table, mgr, user, init, reloads, overlapped, baseless, lost>>

\* The columns of an item the manager knows.
Known(r, item) == [c \in Columns |-> IF c \in mgr[r].decl.fields THEN item[c] ELSE Null]

\* The row with the item's values of a unique index.
Conflicts(item, index) == {q \in table.rows : index # {} /\ Same(q.item, item, index)}

\* Whether the statement can be executed: an upsert of SQLite needs an index
\* of just that key, and a plain insert fails on a conflict.
Executes(r, item) ==
    LET key == mgr[r].decl.dedup
    IN  /\ {c \in Columns : item[c] # Null} \subseteq table.cols
        /\ IF key = {} THEN Conflicts(item, table.index) = {}
           ELSE dialect = "sqlite" => table.index = key

\* _upsert rewrites what the item has but its key, user and task among it.
Upserted(q, r, item) ==
    [q EXCEPT !.user = user[r],
              !.item = [c \in Columns |-> IF item[c] = Null \/ c \in mgr[r].decl.dedup
                                         THEN q.item[c] ELSE item[c]]]

\* save_item: a failure is logged and the item is gone.
Save(r, item) ==
    LET known == Known(r, item)
        old   == Conflicts(known, table.index)
        next  == Cardinality(table.rows) + 1
    IN  /\ IF ~Executes(r, known)
           THEN lost' = [lost EXCEPT ![r].saving = @ + 1] /\ UNCHANGED table
           ELSE /\ table' = [table EXCEPT !.rows =
                       IF old = {}
                       THEN @ \cup {[user |-> user[r], item |-> known, no |-> next]}
                       ELSE (@ \ old) \cup {Upserted(q, r, known) : q \in old}]
                /\ UNCHANGED lost

\* The manager is ready for the item that it was made for, or the next one.
SaveItem(r, item) ==
    /\ r \in Runs /\ mgr[r].at = "ready" /\ saves < MaxRows
    /\ saves' = saves + 1
    /\ Save(r, item)
    /\ UNCHANGED <<dialect, declared, mgr, user, init, items, reloads, overlapped, baseless>>

-----------------------------------------------------------------------------
(* Requests, and changes of the spider.                                    *)

\* get_spider_data and export_spider_data make the table if need be; what
\* they read of it changes nothing.
Read(c) ==
    /\ mgr[c].at = "none"
    /\ Make(c, Nobody)
    /\ UNCHANGED <<dialect, declared, table, init, items, saves, reloads, baseless, lost>>

Finish(c) ==
    /\ c \in Readers /\ mgr[c].at = "ready"
    /\ Goes(c, "none")
    /\ UNCHANGED <<Others, table, overlapped, baseless, lost>>

\* The spider's file is loaded anew with another declaration.
Reload(d) ==
    /\ reloads < MaxReloads /\ d # declared
    /\ declared' = d /\ reloads' = reloads + 1
    /\ UNCHANGED <<dialect, table, mgr, user, init, items, saves, overlapped, baseless, lost>>

Init ==
    /\ dialect \in Dialects /\ declared \in Declarations
    /\ table = NoTable
    /\ mgr = [p \in Procs |-> NoManager] /\ user = [p \in Procs |-> Nobody]
    /\ init = {} /\ items = {} /\ saves = 0 /\ reloads = 0
    /\ overlapped = {} /\ baseless = FALSE
    /\ lost = [r \in Runs |-> [ensuring |-> 0, saving |-> 0]]

EnsureStep(p) == Look(p) \/ Create(p) \/ Inspect(p) \/ Alter(p) \/ Index(p)

Next ==
    \/ \E p \in Procs : EnsureStep(p)
    \/ \E r \in Runs :
          \/ \E u \in Users : FirstItem(r, u) \/ FirstItemFails(r, u)
          \/ \E item \in Item : SaveItem(r, item)
          \/ SaveToItems(r)
    \/ \E c \in Readers : Read(c) \/ Finish(c)
    \/ \E d \in Declarations : Reload(d)

Spec == Init /\ [][Next]_vars

-----------------------------------------------------------------------------
(* Properties.                                                             *)

\* Every variable has its type; a row has no value where the table has no
\* column, and only runs go on after a failure.
TypeOK ==
    /\ dialect \in Dialects /\ declared \in Declarations
    /\ table.exists \in BOOLEAN /\ table.cols \subseteq Columns /\ table.index \subseteq table.cols
    /\ \A q \in table.rows : q \in Row /\ \A c \in Columns \ table.cols : q.item[c] = Null
    /\ \A p \in Procs : mgr[p].at \in At /\ mgr[p].missing \subseteq mgr[p].decl.fields
    /\ \A c \in Readers : mgr[c].at # "failed"
    /\ user \in [Procs -> Users \cup {Nobody}] /\ init \subseteq Runs
    /\ saves \in 0..MaxRows /\ reloads \in 0..MaxReloads
    /\ overlapped \subseteq Procs /\ baseless \in BOOLEAN

\* ensure_table can be called at any time and any number of times, by runs and
\* requests and after any change of the fields: the tables it meets are no reason
\* to fail, unless another caller changed one meanwhile or rows violate the key.
\* It does fail of itself for a declaration with a refused type, which
\* VARCHAR(512), the default, is, or with a key that is no column.
EnsureIsIdempotent == ~baseless

\* A run whose table is ready loses no item, whoever else makes and fills the
\* table, as long as the spider keeps its declaration.
SavesUnlessRedeclared == reloads = 0 => \A r \in Runs : lost[r].saving = 0

\* A failing ensure_table, or a failing look for the row of the spider, costs a
\* run its first item and no other.
LosesFirstOnly == \A r \in Runs : lost[r].ensuring <= 1
=============================================================================
