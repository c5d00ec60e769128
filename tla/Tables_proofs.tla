--------------------------- MODULE Tables_proofs ---------------------------
(***************************************************************************)
(* Theorems about Tables for every set of runs, requests, columns, values  *)
(* and declarations, both dialects and every bound.                        *)
(***************************************************************************)
EXTENDS Tables, TLAPS, FiniteSetTheorems, FunctionTheorems

-----------------------------------------------------------------------------
(* Invariants.                                                             *)

Manager == [at : At, decl : Declaration, missing : SUBSET Columns]

Table == [exists : BOOLEAN, cols : SUBSET Columns, index : SUBSET Columns, rows : SUBSET Row]

\* The variables as functions and records.
VarsType ==
    /\ dialect \in Dialects /\ declared \in Declarations
    /\ table \in Table /\ mgr \in [Procs -> Manager] /\ user \in [Procs -> Users \cup {Nobody}]
    /\ init \subseteq Runs /\ saves \in 0..MaxRows /\ reloads \in 0..MaxReloads
    /\ overlapped \subseteq Procs /\ baseless \in BOOLEAN
    /\ lost \in [Runs -> [ensuring : Nat, saving : Nat]]

\* Every item a run was given has made at most one row, and no row has a value
\* where there is no column.
RowsFit ==
    /\ IsFiniteSet(table.rows) /\ Cardinality(table.rows) <= saves
    /\ \A q \in table.rows : \A c \in Columns \ table.cols : q.item[c] = Null
    /\ table.index \subseteq table.cols
    /\ ~table.exists => table = NoTable

\* The columns of a manager's declaration are in the table as far as its
\* ensure_table has got.
ColumnsAsEnsured ==
    \A p \in Procs :
        /\ mgr[p].missing \subseteq mgr[p].decl.fields
        /\ mgr[p].at \in {"inspect", "alter", "index", "ready"} => table.exists
        /\ mgr[p].at = "alter" => mgr[p].decl.fields \ mgr[p].missing \subseteq table.cols
        /\ mgr[p].at \in {"index", "ready"} => mgr[p].decl.fields \subseteq table.cols

\* A run has a manager once it has had its first item, and fails once.
OneManager ==
    /\ \A r \in Runs :
          /\ mgr[r].at # "none" => r \in init
          /\ r \in init => user[r] \in Users
          /\ lost[r].ensuring <= 1
          /\ mgr[r].at # "failed" => lost[r].ensuring = 0
    /\ \A c \in Readers : mgr[c].at # "failed"

\* What a manager found, unless another has changed it.
FoundHolds ==
    \A p \in Procs \ overlapped :
        /\ mgr[p].at = "create" => ~table.exists
        /\ mgr[p].at = "alter" => mgr[p].missing \cap table.cols = {}

\* Under one declaration, the index is the one it asks for, and is there when a
\* manager of it is ready.
OneIndex ==
    reloads = 0 =>
        /\ table.index \in {{}, declared.dedup}
        /\ \A p \in Procs :
              mgr[p].at \notin {"none", "failed"} =>
                  /\ mgr[p].decl = declared
                  /\ mgr[p].at = "ready" /\ declared.dedup # {} /\ dialect = "sqlite" =>
                        table.index = declared.dedup
        /\ \A r \in Runs : lost[r].saving = 0

TypeInv == VarsType /\ RowsFit /\ ColumnsAsEnsured /\ OneManager

EnsureInv == FoundHolds /\ ~baseless

-----------------------------------------------------------------------------
(* The steps of ensure_table.                                              *)

\* The table has what it had, and maybe more columns or an index.
Widened ==
    /\ table' \in Table
    /\ table.cols \subseteq table'.cols /\ table'.rows = table.rows
    /\ table'.index \subseteq table'.cols
    /\ ~table'.exists => table' = table

\* A manager that goes on keeps its declaration.
LEMMA GoesOn ==
    ASSUME VarsType, NEW p \in Procs, NEW at \in At, Goes(p, at)
    PROVE  /\ mgr' \in [Procs -> Manager]
           /\ mgr'[p].at = at /\ mgr'[p].decl = mgr[p].decl /\ mgr'[p].missing = mgr[p].missing
           /\ \A q \in Procs \ {p} : mgr'[q] = mgr[q]
<1>1. mgr[p] \in Manager
  BY DEF VarsType
<1>2. [mgr[p] EXCEPT !.at = at] \in Manager
  BY <1>1 DEF Manager
<1> QED
  BY <1>1, <1>2 DEF Goes, VarsType, Manager

\* A statement that raises changes neither the table nor another manager.
LEMMA RaiseEffect ==
    ASSUME VarsType, NEW p \in Procs, Raises(p)
    PROVE  /\ UNCHANGED <<table, overlapped>> /\ baseless' \in BOOLEAN
           /\ mgr' \in [Procs -> Manager]
           /\ mgr'[p].at = (IF p \in Runs THEN "failed" ELSE "none")
           /\ mgr'[p].decl = mgr[p].decl /\ mgr'[p].missing = mgr[p].missing
           /\ \A q \in Procs \ {p} : mgr'[q] = mgr[q]
           /\ lost' \in [Runs -> [ensuring : Nat, saving : Nat]]
           /\ \A r \in Runs : /\ lost'[r].saving = lost[r].saving
                              /\ lost'[r].ensuring = lost[r].ensuring + (IF r = p THEN 1 ELSE 0)
<1>1. (IF p \in Runs THEN "failed" ELSE "none") \in At
  BY DEF At
<1>2. Goes(p, IF p \in Runs THEN "failed" ELSE "none")
  BY DEF Raises
<1>3. /\ lost' \in [Runs -> [ensuring : Nat, saving : Nat]]
      /\ \A r \in Runs : /\ lost'[r].saving = lost[r].saving
                         /\ lost'[r].ensuring = lost[r].ensuring + (IF r = p THEN 1 ELSE 0)
  <2>1. \A r \in Runs : lost[r] \in [ensuring : Nat, saving : Nat]
    BY DEF VarsType
  <2> QED
    BY <2>1 DEF Raises, VarsType
<1>4. UNCHANGED <<table, overlapped>> /\ baseless' \in BOOLEAN
  BY DEF Raises, VarsType
<1> QED
  BY <1>1, <1>2, <1>3, <1>4, GoesOn

\* What an ensure_table does to the table: nothing, or it widens it under the
\* eyes of the others.
LEMMA EnsureEffect ==
    ASSUME TypeInv, NEW p \in Procs, EnsureStep(p)
    PROVE  /\ Widened
           /\ UNCHANGED Others
           /\ table' # table => Changes(p, table')
           /\ table' = table => UNCHANGED overlapped
           /\ table'.exists = (table.exists \/ table' # table)
<1> USE DEF Others
<1>0. /\ table \in Table /\ table.index \subseteq table.cols /\ (~table.exists => table = NoTable)
      /\ mgr[p] \in Manager
  BY DEF TypeInv, VarsType, RowsFit
<1>1. CASE Look(p)
  BY <1>0, <1>1 DEF Look, Widened, Table
<1>2. CASE Inspect(p)
  BY <1>0, <1>2 DEF Inspect, Widened, Table
<1>3. ASSUME Raises(p), UNCHANGED Others
      PROVE  Widened /\ UNCHANGED <<Others, table, overlapped>>
  BY <1>0, <1>3 DEF Raises, Widened, Table
<1>4. CASE Create(p)
  <2>1. CASE Raises(p)
    BY <1>0, <1>3, <1>4, <2>1 DEF Create, Table
  <2>2. CASE ~table.exists /\ ~Raises(p)
    <3> DEFINE t == [NoTable EXCEPT !.exists = TRUE, !.cols = mgr[p].decl.fields]
    <3>1. Changes(p, t) /\ UNCHANGED Others
      BY <1>4, <2>2 DEF Create
    <3>2. /\ t \in Table /\ t.exists /\ t.rows = {} /\ t.index = {}
          /\ table.cols = {} /\ table.rows = {} /\ ~table.exists
      <4>1. mgr[p].decl.fields \in SUBSET Columns
        BY <1>0 DEF Manager, Declaration
      <4>2. NoTable \in Table /\ NoTable.cols = {} /\ NoTable.rows = {} /\ NoTable.index = {}
        BY DEF NoTable, Table
      <4> QED
        BY <1>0, <2>2, <4>1, <4>2 DEF Table
    <3>3. table' = t /\ t # table
      BY <3>1, <3>2 DEF Changes
    <3> QED
      BY <3>1, <3>2, <3>3 DEF Widened
  <2> QED
    BY <1>4, <2>1, <2>2 DEF Create
<1>5. CASE Alter(p)
  <2>1. CASE UNCHANGED <<table, overlapped>>
    BY <1>0, <1>5, <2>1 DEF Alter, Widened, Table
  <2>2. ASSUME NEW c \in mgr[p].missing, c \notin table.cols, Changes(p, [table EXCEPT !.cols = @ \cup {c}])
        PROVE  Widened /\ UNCHANGED Others /\ table' # table /\ Changes(p, table') /\ table'.exists = TRUE
    <3> DEFINE t == [table EXCEPT !.cols = table.cols \cup {c}]
    <3>1. c \in Columns /\ table.exists
      BY <1>0, <1>5 DEF Manager, Alter, TypeInv, ColumnsAsEnsured
    <3>2. t \in Table /\ t.cols = table.cols \cup {c} /\ t.rows = table.rows /\ t.index = table.index
          /\ t.exists = TRUE /\ t # table
      BY <1>0, <2>2, <3>1 DEF Table
    <3>3. table' = t
      BY <2>2 DEF Changes
    <3> QED
      BY <1>0, <1>5, <2>2, <3>2, <3>3 DEF Widened, Alter, Changes
  <2>3. table.exists
    BY <1>5 DEF Alter, TypeInv, ColumnsAsEnsured
  <2> QED
    BY <1>3, <1>5, <2>1, <2>2, <2>3 DEF Alter
<1>6. CASE Index(p)
  <2> DEFINE key == mgr[p].decl.dedup
             t   == [table EXCEPT !.index = key]
  <2>1. CASE UNCHANGED <<table, overlapped>>
    BY <1>0, <1>6, <2>1 DEF Index, Widened, Table
  <2>2. ASSUME key # {}, table.index = {}, key \subseteq table.cols, Changes(p, t)
        PROVE  Widened /\ table' # table /\ Changes(p, table') /\ table'.exists = TRUE
    <3>1. table.exists
      BY <1>6 DEF Index, TypeInv, ColumnsAsEnsured
    <3>2. /\ t \in Table /\ t.cols = table.cols /\ t.rows = table.rows /\ t.index = key
          /\ t.exists = TRUE /\ t # table
      BY <1>0, <2>2, <3>1 DEF Table
    <3>3. table' = t
      BY <2>2 DEF Changes
    <3> QED
      BY <1>0, <2>2, <3>1, <3>2, <3>3 DEF Widened, Changes
  <2>3. table.exists
    BY <1>6 DEF Index, TypeInv, ColumnsAsEnsured
  <2> QED
    BY <1>3, <1>6, <2>1, <2>2, <2>3 DEF Index
<1> QED
  BY <1>1, <1>2, <1>4, <1>5, <1>6 DEF EnsureStep

\* A manager has gone on, knowing the table as it is, or has failed.
Moved(p) ==
    /\ mgr' \in [Procs -> Manager]
    /\ \A q \in Procs \ {p} : mgr'[q] = mgr[q]
    /\ mgr'[p].decl = mgr[p].decl /\ mgr'[p].missing \subseteq mgr'[p].decl.fields
    /\ \/ UNCHANGED <<lost, baseless>> /\ mgr'[p].at \notin {"none", "failed"}
       \/ Raises(p)
    /\ mgr'[p].at = "create" => ~table'.exists
    /\ mgr'[p].at \in {"inspect", "alter", "index", "ready"} => table'.exists
    /\ mgr'[p].at = "alter" => mgr'[p].decl.fields \ mgr'[p].missing \subseteq table'.cols
    /\ mgr'[p].at \in {"index", "ready"} => mgr'[p].decl.fields \subseteq table'.cols
    /\ mgr'[p].at = "alter" =>
          \/ mgr'[p].missing \cap table'.cols = {}
          \/ mgr[p].at = "alter" /\ mgr[p].missing \cap table.cols # {}

\* What ensure_table does to the manager.
LEMMA EnsureMoves ==
    ASSUME TypeInv, NEW p \in Procs, EnsureStep(p)
    PROVE  Moved(p) /\ mgr[p].at \notin {"none", "ready", "failed"}
<1> USE DEF Moved
<1>0. /\ table \in Table /\ mgr[p] \in Manager /\ mgr \in [Procs -> Manager]
      /\ mgr[p].missing \subseteq mgr[p].decl.fields
      /\ mgr[p].at \in {"inspect", "alter", "index", "ready"} => table.exists
      /\ mgr[p].at = "alter" => mgr[p].decl.fields \ mgr[p].missing \subseteq table.cols
      /\ mgr[p].at \in {"index", "ready"} => mgr[p].decl.fields \subseteq table.cols
  BY DEF TypeInv, VarsType, ColumnsAsEnsured
<1>8. mgr[p].at \notin {"none", "ready", "failed"}
  BY DEF EnsureStep, Look, Create, Inspect, Alter, Index
<1>1. CASE Raises(p)
  <2>1. /\ table' = table /\ mgr' \in [Procs -> Manager] /\ mgr'[p].at \in {"failed", "none"}
        /\ mgr'[p].decl = mgr[p].decl /\ mgr'[p].missing = mgr[p].missing
        /\ \A q \in Procs \ {p} : mgr'[q] = mgr[q]
    BY <1>1, RaiseEffect DEF TypeInv
  <2> QED
    BY <1>0, <1>1, <1>8, <2>1
<1>2. CASE Look(p)
  <2>1. Goes(p, IF table.exists THEN "inspect" ELSE "create") /\ UNCHANGED <<table, lost, baseless>>
        /\ mgr[p].at = "look"
    BY <1>2 DEF Look
  <2>2. (IF table.exists THEN "inspect" ELSE "create") \in At
    BY DEF At
  <2> QED
    BY <1>0, <2>1, <2>2, GoesOn DEF TypeInv, Table
<1>3. CASE Create(p) /\ ~Raises(p)
  <2>1. /\ mgr[p].at = "create" /\ Goes(p, "index") /\ UNCHANGED <<lost, baseless>>
        /\ table' = [NoTable EXCEPT !.exists = TRUE, !.cols = mgr[p].decl.fields]
    BY <1>3 DEF Create, Changes
  <2> QED
    BY <1>0, <2>1, GoesOn DEF TypeInv, NoTable, At
<1>4. CASE Inspect(p)
  <2> DEFINE m == [mgr[p] EXCEPT !.at = "alter", !.missing = mgr[p].decl.fields \ table.cols]
  <2>1. m \in Manager
    BY <1>0 DEF Manager, Declaration, At
  <2>2. mgr' = [mgr EXCEPT ![p] = m] /\ UNCHANGED <<table, lost, baseless>> /\ mgr[p].at = "inspect"
    BY <1>0, <1>4 DEF Inspect
  <2>3. m.at = "alter" /\ m.decl = mgr[p].decl /\ m.missing = mgr[p].decl.fields \ table.cols
    BY <1>0 DEF Manager
  <2> QED
    BY <1>0, <2>1, <2>2, <2>3
<1>5. CASE Alter(p) /\ ~Raises(p)
  <2>1. CASE mgr[p].missing = {} /\ Goes(p, "index") /\ UNCHANGED <<table, lost, baseless>>
    BY <1>0, <1>5, <2>1, GoesOn DEF TypeInv, At, Alter
  <2>2. ASSUME NEW c \in mgr[p].missing, table' = [table EXCEPT !.cols = @ \cup {c}],
               mgr' = [mgr EXCEPT ![p].missing = @ \ {c}], UNCHANGED <<lost, baseless>>
        PROVE  Moved(p)
    <3> DEFINE m == [mgr[p] EXCEPT !.missing = mgr[p].missing \ {c}]
    <3>1. /\ m \in Manager /\ m.at = mgr[p].at /\ m.decl = mgr[p].decl /\ m.missing = mgr[p].missing \ {c}
      BY <1>0 DEF Manager
    <3>2. mgr' = [mgr EXCEPT ![p] = m] /\ mgr[p].at = "alter"
      BY <1>0, <1>5, <2>2 DEF Alter
    <3>3. table'.cols = table.cols \cup {c} /\ table'.exists = table.exists
      BY <1>0, <2>2 DEF Table
    <3> QED
      BY <1>0, <2>2, <3>1, <3>2, <3>3
  <2> QED
    BY <1>5, <2>1, <2>2 DEF Alter, Changes
<1>6. CASE Index(p) /\ ~Raises(p)
  <2>1. /\ mgr[p].at = "index" /\ Goes(p, "ready") /\ UNCHANGED <<lost, baseless>>
        /\ table' = table \/ table' = [table EXCEPT !.index = mgr[p].decl.dedup]
    BY <1>6 DEF Index, Changes
  <2> QED
    BY <1>0, <2>1, GoesOn DEF TypeInv, Table, At
<1> QED
  BY <1>1, <1>2, <1>3, <1>4, <1>5, <1>6, <1>8 DEF EnsureStep

\* A wider table has the same rows, and no value without a column.
LEMMA WidenKeepsRows ==
    ASSUME RowsFit, Widened, UNCHANGED saves
    PROVE  RowsFit'
  BY DEF RowsFit, Widened

\* ensure_table keeps all types, and what the types rest on.
LEMMA EnsureKeepsType ==
    ASSUME TypeInv, NEW p \in Procs, EnsureStep(p)
    PROVE  TypeInv'
<1>1. Widened /\ UNCHANGED Others /\ overlapped' \in SUBSET Procs
  <2>1. overlapped \subseteq Procs
    BY DEF TypeInv, VarsType
  <2> QED
    BY <2>1, EnsureEffect DEF Changes
<1>2. Moved(p) /\ mgr[p].at \notin {"none", "ready", "failed"}
  BY EnsureMoves
<1>3.
      /\ baseless' \in BOOLEAN /\ lost' \in [Runs -> [ensuring : Nat, saving : Nat]]
      /\ \/ lost' = lost /\ mgr'[p].at \notin {"none", "failed"}
         \/ /\ mgr'[p].at = IF p \in Runs THEN "failed" ELSE "none"
            /\ \A r \in Runs : lost'[r].ensuring = lost[r].ensuring + (IF r = p THEN 1 ELSE 0)
  <2>1. CASE UNCHANGED <<lost, baseless>> /\ mgr'[p].at \notin {"none", "failed"}
    BY <2>1 DEF TypeInv, VarsType
  <2>2. CASE Raises(p)
    BY <2>2, RaiseEffect DEF TypeInv
  <2> QED
    BY <1>2, <2>1, <2>2 DEF Moved
<1>4. VarsType'
  BY <1>1, <1>2, <1>3 DEF TypeInv, VarsType, Others, Widened, Moved
<1>5. RowsFit'
  BY <1>1, WidenKeepsRows DEF TypeInv, Others
<1>6. ColumnsAsEnsured'
  <2>1. \A q \in Procs : mgr'[q].decl = mgr[q].decl
    BY <1>2 DEF Moved
  <2>2. table.exists => table'.exists
    BY <1>1, EnsureEffect
  <2>3. \A q \in Procs \ {p} : mgr'[q] = mgr[q]
    BY <1>2 DEF Moved
  <2> QED
    BY <1>1, <1>2, <2>1, <2>2, <2>3 DEF TypeInv, ColumnsAsEnsured, Moved, Widened
<1>7. OneManager'
  <2>1. \A q \in Procs \ {p} : mgr'[q] = mgr[q]
    BY <1>2 DEF Moved
  <2>2. UNCHANGED <<user, init>>
    BY <1>1 DEF Others
  <2>3. \A r \in Runs : /\ r = p => lost'[r].ensuring <= 1
                        /\ r = p /\ mgr'[r].at # "failed" => lost'[r].ensuring = 0
                        /\ r # p => lost'[r].ensuring = lost[r].ensuring
    BY <1>2, <1>3 DEF TypeInv, OneManager, VarsType
  <2>4. p \in Readers => mgr'[p].at # "failed"
    BY <1>3, TablesAssumption DEF TablesAssumption
  <2>5. ASSUME NEW r \in Runs
        PROVE  /\ mgr'[r].at # "none" => r \in init'
               /\ r \in init' => user'[r] \in Users
               /\ lost'[r].ensuring <= 1
               /\ mgr'[r].at # "failed" => lost'[r].ensuring = 0
    <3>1. CASE r = p
      BY <1>2, <2>2, <2>3, <3>1 DEF TypeInv, OneManager
    <3>2. CASE r # p
      <4>1. mgr'[r] = mgr[r]
        BY <2>1, <3>2 DEF Procs
      <4> QED
        BY <2>2, <2>3, <3>2, <4>1 DEF TypeInv, OneManager
    <3> QED
      BY <3>1, <3>2
  <2>6. ASSUME NEW c \in Readers
        PROVE  mgr'[c].at # "failed"
    BY <2>1, <2>4 DEF TypeInv, OneManager, Procs
  <2> QED
    BY <2>5, <2>6 DEF OneManager
<1> QED
  BY <1>4, <1>5, <1>6, <1>7 DEF TypeInv

-----------------------------------------------------------------------------
(* The other steps.                                                        *)

\* A new manager has the declaration of the class, and knows nothing yet.
LEMMA MakeEffect ==
    ASSUME VarsType, NEW p \in Procs, NEW u \in Users \cup {Nobody}, Make(p, u)
    PROVE  /\ mgr' \in [Procs -> Manager] /\ user' \in [Procs -> Users \cup {Nobody}]
           /\ overlapped' = overlapped \ {p}
           /\ mgr'[p].at = "look" /\ mgr'[p].decl = declared /\ mgr'[p].missing = {}
           /\ user'[p] = u
           /\ \A q \in Procs \ {p} : mgr'[q] = mgr[q] /\ user'[q] = user[q]
<1> DEFINE m == [at |-> "look", decl |-> declared, missing |-> {}]
<1>1. declared \in Declaration
  BY TablesAssumption DEF TablesAssumption, VarsType
<1>2. m \in Manager
  BY <1>1 DEF Manager, At
<1> QED
  BY <1>1, <1>2 DEF Make, VarsType

\* The value of a saved item, and the rows it leaves.
LEMMA SaveEffect ==
    ASSUME TypeInv, NEW r \in Runs, NEW item \in Item, SaveItem(r, item)
    PROVE  /\ table' \in Table /\ table'.exists = table.exists
           /\ table'.cols = table.cols /\ table'.index = table.index
           /\ IsFiniteSet(table'.rows) /\ Cardinality(table'.rows) <= saves'
           /\ \A q \in table'.rows : \A c \in Columns \ table'.cols : q.item[c] = Null
<1> DEFINE known == Known(r, item)
           old   == Conflicts(known, table.index)
           n     == Cardinality(table.rows) + 1
           new   == [user |-> user[r], item |-> known, no |-> n]
<1>1. /\ table \in Table /\ table.index \subseteq table.cols /\ saves \in 0..MaxRows /\ saves < MaxRows
      /\ saves' = saves + 1 /\ mgr[r] \in Manager /\ mgr[r].at = "ready" /\ MaxRows \in Nat
      /\ IsFiniteSet(table.rows) /\ Cardinality(table.rows) <= saves
      /\ \A q \in table.rows : \A c \in Columns \ table.cols : q.item[c] = Null
      /\ user[r] \in Users
  BY TablesAssumption
  DEF SaveItem, TypeInv, VarsType, RowsFit, OneManager, Procs, TablesAssumption
<1>2. Cardinality(table.rows) \in Nat
  BY <1>1, FS_CardinalityType
<1>3. known \in Item
  BY <1>1, TablesAssumption DEF Known, Item, TablesAssumption
<1>4. CASE UNCHANGED table
  BY <1>1, <1>2, <1>4
<1>5. CASE /\ Executes(r, known)
           /\ table' = [table EXCEPT !.rows =
                  IF old = {} THEN @ \cup {new}
                  ELSE (@ \ old) \cup {Upserted(q, r, known) : q \in old}]
  <2>1. \A c \in Columns \ table.cols : known[c] = Null
    BY <1>5 DEF Executes
  <2>2. CASE old = {}
    <3>1. table'.rows = table.rows \cup {new}
      BY <1>1, <1>5, <2>2 DEF Table
    <3>2. new \in Row
      BY <1>1, <1>2, <1>3 DEF Row
    <3>3. table' \in Table /\ table'.exists = table.exists /\ table'.cols = table.cols /\ table'.index = table.index
      BY <1>1, <1>5, <2>2, <3>2 DEF Table
    <3>4. IsFiniteSet(table'.rows) /\ Cardinality(table'.rows) <= Cardinality(table.rows) + 1
      <4> HIDE DEF new
      <4>1. /\ IsFiniteSet(table.rows \cup {new})
            /\ Cardinality(table.rows \cup {new})
               = IF new \in table.rows THEN Cardinality(table.rows) ELSE Cardinality(table.rows) + 1
        BY <1>1, FS_AddElement
      <4> QED
        BY <1>2, <3>1, <4>1
    <3>5. Cardinality(table'.rows) \in Nat
      BY <3>4, FS_CardinalityType
    <3>6. \A c \in Columns \ table.cols : new.item[c] = Null
      BY <2>1
    <3> HIDE DEF new
    <3> QED
      BY <1>1, <1>2, <2>1, <3>1, <3>3, <3>4, <3>5, <3>6
  <2>3. CASE old # {}
    <3> DEFINE rows == table'.rows
               f    == [q \in table.rows |-> IF q \in old THEN Upserted(q, r, known) ELSE q]
    <3>1. /\ rows = (table.rows \ old) \cup {Upserted(q, r, known) : q \in old}
          /\ old \subseteq table.rows
      BY <1>1, <1>5, <2>3 DEF Table, Conflicts
    <3>2. ASSUME NEW q \in table.rows
          PROVE  /\ Upserted(q, r, known) \in Row
                 /\ \A c \in Columns \ table.cols : Upserted(q, r, known).item[c] = Null
      <4>1. q \in Row /\ \A c \in Columns \ table.cols : q.item[c] = Null
        BY <1>1 DEF Table
      <4> DEFINE v == [c \in Columns |-> IF known[c] = Null \/ c \in mgr[r].decl.dedup
                                         THEN q.item[c] ELSE known[c]]
      <4>2. v \in Item /\ \A c \in Columns \ table.cols : v[c] = Null
        BY <1>3, <2>1, <4>1 DEF Item, Row
      <4>3. Upserted(q, r, known) = [q EXCEPT !.user = user[r], !.item = v]
        BY DEF Upserted
      <4> HIDE DEF v
      <4> QED
        BY <1>1, <4>1, <4>2, <4>3 DEF Row
    <3>3. table' \in Table /\ table'.exists = table.exists /\ table'.cols = table.cols /\ table'.index = table.index
      <4>1. rows \subseteq Row
        BY <1>1, <3>1, <3>2 DEF Table
      <4>2. \E new_rows : table' = [table EXCEPT !.rows = new_rows]
        BY <1>5, <2>3
      <4> QED
        BY <1>1, <4>1, <4>2 DEF Table
    <3>4. f \in Surjection(table.rows, rows)
      <4> HIDE DEF old, known
      <4>1. \A q \in table.rows : f[q] \in rows
        BY <3>1
      <4>2. \A x \in rows : \E q \in table.rows : f[q] = x
        BY <3>1
      <4> QED
        BY <4>1, <4>2 DEF Surjection
    <3>5. IsFiniteSet(rows) /\ Cardinality(rows) <= Cardinality(table.rows)
      <4> HIDE DEF rows, f
      <4> QED
        BY <1>1, <3>4, FS_Surjection
    <3>6. Cardinality(rows) \in Nat
      BY <3>5, FS_CardinalityType
    <3>7. \A q \in rows : \A c \in Columns \ table.cols : q.item[c] = Null
      <4> HIDE DEF old, known
      <4> QED
        BY <1>1, <3>1, <3>2
    <3> HIDE DEF rows
    <3>8. rows = table'.rows
      BY DEF rows
    <3> QED
      BY <1>1, <1>2, <3>3, <3>5, <3>6, <3>7, <3>8
  <2> QED
    BY <2>2, <2>3
<1> QED
  BY <1>4, <1>5 DEF SaveItem, Save

\* An item that is saved keeps all types, and what they rest on.
LEMMA SaveKeepsType ==
    ASSUME TypeInv, NEW r \in Runs, NEW item \in Item, SaveItem(r, item)
    PROVE  TypeInv'
<1>1. /\ UNCHANGED <<dialect, declared, mgr, user, init, items, reloads, overlapped, baseless>>
      /\ saves < MaxRows /\ saves' = saves + 1
  BY DEF SaveItem
<1>2. saves' \in 0..MaxRows
  BY <1>1, TablesAssumption DEF TablesAssumption, TypeInv, VarsType
<1>3. lost' = lost \/ lost' = [lost EXCEPT ![r].saving = @ + 1]
  BY DEF SaveItem, Save
<1>4. /\ lost' \in [Runs -> [ensuring : Nat, saving : Nat]]
      /\ \A x \in Runs : lost'[x].ensuring = lost[x].ensuring
  <2>1. lost[r] \in [ensuring : Nat, saving : Nat]
    BY DEF TypeInv, VarsType
  <2> QED
    BY <1>3, <2>1 DEF TypeInv, VarsType
<1>5. VarsType'
  BY <1>1, <1>2, <1>4, SaveEffect DEF TypeInv, VarsType
<1>6. table.exists
  BY DEF SaveItem, TypeInv, ColumnsAsEnsured, Procs
<1>7. RowsFit'
  BY <1>6, SaveEffect DEF TypeInv, RowsFit
<1>8. ColumnsAsEnsured'
  BY <1>1, SaveEffect DEF TypeInv, ColumnsAsEnsured
<1>9. OneManager'
  BY <1>1, <1>4 DEF TypeInv, OneManager
<1> QED
  BY <1>5, <1>7, <1>8, <1>9 DEF TypeInv

\* A manager is made only where there is none, for a run that has had its first
\* item.
LEMMA MakeKeepsType ==
    ASSUME TypeInv, NEW p \in Procs,
           \/ p \in Readers /\ Read(p)
           \/ p \in Runs /\ \E u \in Users : FirstItem(p, u)
    PROVE  TypeInv'
<1>1. /\ UNCHANGED <<dialect, declared, table, items, saves, reloads, baseless, lost>>
      /\ mgr[p].at = "none" \/ (p \in Runs /\ p \notin init)
      /\ init' = IF p \in Runs THEN init \cup {p} ELSE init
      /\ Runs \cap Readers = {}
  BY TablesAssumption DEF Read, FirstItem, TablesAssumption
<1>2. mgr[p].at = "none"
  BY <1>1 DEF TypeInv, OneManager
<1>3. PICK u \in Users \cup {Nobody} :
         /\ p \in Runs => u \in Users
         /\ \/ Make(p, u)
            \/ p \in Runs /\ user' = [user EXCEPT ![p] = u] /\ UNCHANGED <<mgr, overlapped>>
  BY <1>1 DEF Read, FirstItem
<1>4. /\ mgr' \in [Procs -> Manager] /\ user' \in [Procs -> Users \cup {Nobody}]
      /\ overlapped' \subseteq Procs
      /\ user'[p] = u /\ \A q \in Procs \ {p} : mgr'[q] = mgr[q] /\ user'[q] = user[q]
      /\ mgr'[p] = mgr[p] \/ /\ mgr'[p].at = "look" /\ mgr'[p].missing = {}
                             /\ mgr'[p].decl = declared
  <2>1. CASE Make(p, u)
    BY <2>1, MakeEffect DEF TypeInv, VarsType
  <2>2. CASE p \in Runs /\ user' = [user EXCEPT ![p] = u] /\ UNCHANGED <<mgr, overlapped>>
    BY <2>2 DEF TypeInv, VarsType
  <2> QED
    BY <1>3, <2>1, <2>2
<1>5. VarsType'
  BY <1>1, <1>4 DEF TypeInv, VarsType
<1>6. RowsFit'
  BY <1>1 DEF TypeInv, RowsFit
<1>7. ColumnsAsEnsured'
  BY <1>1, <1>4 DEF TypeInv, ColumnsAsEnsured
<1>8. OneManager'
  <2>1. ASSUME NEW r \in Runs
        PROVE  /\ mgr'[r].at # "none" => r \in init'
               /\ r \in init' => user'[r] \in Users
               /\ lost'[r].ensuring <= 1
               /\ mgr'[r].at # "failed" => lost'[r].ensuring = 0
    <3>1. CASE r = p
      BY <1>1, <1>2, <1>3, <1>4, <3>1 DEF TypeInv, OneManager
    <3>2. CASE r # p
      <4>1. mgr'[r] = mgr[r] /\ user'[r] = user[r] /\ (r \in init' <=> r \in init)
        BY <1>1, <1>4, <3>2 DEF Procs
      <4> QED
        BY <1>1, <4>1 DEF TypeInv, OneManager
    <3> QED
      BY <3>1, <3>2
  <2>2. ASSUME NEW c \in Readers
        PROVE  mgr'[c].at # "failed"
    BY <1>4 DEF TypeInv, OneManager, Procs
  <2> QED
    BY <2>1, <2>2 DEF OneManager
<1> QED
  BY <1>5, <1>6, <1>7, <1>8 DEF TypeInv

\* A run whose row cannot be read has failed with its first item.
LEMMA FailureKeepsType ==
    ASSUME TypeInv, NEW r \in Runs, NEW u \in Users, FirstItemFails(r, u)
    PROVE  TypeInv'
<1>1. /\ UNCHANGED <<dialect, declared, table, items, saves, reloads, overlapped, baseless>>
      /\ r \notin init /\ init' = init \cup {r} /\ user' = [user EXCEPT ![r] = u] /\ r \in Procs
      /\ lost' = [lost EXCEPT ![r].ensuring = @ + 1]
  BY DEF FirstItemFails, Procs
<1>2. /\ mgr' \in [Procs -> Manager]
      /\ mgr'[r].at = "failed" /\ mgr'[r].decl = mgr[r].decl /\ mgr'[r].missing = mgr[r].missing
      /\ \A q \in Procs \ {r} : mgr'[q] = mgr[q]
  BY <1>1, GoesOn DEF FirstItemFails, TypeInv, At
<1>3. mgr[r].at = "none" /\ lost[r].ensuring = 0
  BY <1>1 DEF TypeInv, OneManager
<1>4. /\ lost' \in [Runs -> [ensuring : Nat, saving : Nat]]
      /\ lost'[r].ensuring = 1 /\ \A q \in Runs \ {r} : lost'[q] = lost[q]
  <2>1. lost[r] \in [ensuring : Nat, saving : Nat]
    BY DEF TypeInv, VarsType
  <2> QED
    BY <1>1, <1>3, <2>1 DEF TypeInv, VarsType
<1>5. VarsType' /\ RowsFit'
  BY <1>1, <1>2, <1>4 DEF TypeInv, VarsType, RowsFit
<1>6. ColumnsAsEnsured'
  BY <1>1, <1>2 DEF TypeInv, ColumnsAsEnsured
<1>7. OneManager'
  <2>1. ASSUME NEW q \in Runs
        PROVE  /\ mgr'[q].at # "none" => q \in init'
               /\ q \in init' => user'[q] \in Users
               /\ lost'[q].ensuring <= 1
               /\ mgr'[q].at # "failed" => lost'[q].ensuring = 0
    BY <1>1, <1>2, <1>4 DEF TypeInv, VarsType, OneManager, Procs
  <2>2. ASSUME NEW c \in Readers
        PROVE  mgr'[c].at # "failed"
    BY <1>2, TablesAssumption DEF TypeInv, OneManager, Procs, TablesAssumption
  <2> QED
    BY <2>1, <2>2 DEF OneManager
<1> QED
  BY <1>5, <1>6, <1>7 DEF TypeInv

\* Neither the end of a request nor an item for "items" nor a new declaration
\* touches the table.
LEMMA OtherKeepsType ==
    ASSUME TypeInv,
           \/ \E r \in Runs : SaveToItems(r)
           \/ \E c \in Readers : Finish(c)
           \/ \E d \in Declarations : Reload(d)
    PROVE  TypeInv'
<1>1. ASSUME NEW r \in Runs, SaveToItems(r)
      PROVE  TypeInv'
  <2>1. /\ UNCHANGED <<dialect, declared, table, mgr, user, init, reloads, overlapped, baseless, lost>>
        /\ saves' = saves + 1 /\ saves < MaxRows
    BY <1>1 DEF SaveToItems
  <2>2. saves' \in 0..MaxRows /\ saves \in Nat
    BY <2>1, TablesAssumption DEF TablesAssumption, TypeInv, VarsType
  <2>3. RowsFit'
    <3>1. Cardinality(table.rows) \in Nat
      BY FS_CardinalityType DEF TypeInv, RowsFit
    <3> QED
      BY <2>1, <2>2, <3>1 DEF TypeInv, RowsFit
  <2> QED
    BY <2>1, <2>2, <2>3 DEF TypeInv, VarsType, ColumnsAsEnsured, OneManager
<1>2. ASSUME NEW c \in Readers, Finish(c)
      PROVE  TypeInv'
  <2>1. /\ c \in Procs /\ c \notin Runs /\ Goes(c, "none") /\ "none" \in At
        /\ UNCHANGED <<Others, table, overlapped, baseless, lost>>
    BY <1>2, TablesAssumption DEF Finish, Procs, TablesAssumption, At
  <2>2. /\ mgr' \in [Procs -> Manager]
        /\ mgr'[c].at = "none" /\ mgr'[c].decl = mgr[c].decl /\ mgr'[c].missing = mgr[c].missing
        /\ \A q \in Procs \ {c} : mgr'[q] = mgr[q]
    BY <2>1, GoesOn DEF TypeInv
  <2>3. VarsType' /\ RowsFit'
    BY <2>1, <2>2 DEF Others, TypeInv, VarsType, RowsFit
  <2>4. ColumnsAsEnsured'
    BY <2>1, <2>2 DEF TypeInv, ColumnsAsEnsured
  <2>5. OneManager'
    BY <2>1, <2>2 DEF Others, TypeInv, OneManager, Procs
  <2> QED
    BY <2>3, <2>4, <2>5 DEF TypeInv
<1>3. ASSUME NEW d \in Declarations, Reload(d)
      PROVE  TypeInv'
  <2>1. reloads' \in 0..MaxReloads
    BY <1>3, TablesAssumption DEF Reload, TypeInv, VarsType, TablesAssumption
  <2> QED
    BY <1>3, <2>1 DEF Reload, TypeInv, VarsType, RowsFit, ColumnsAsEnsured, OneManager
<1> QED
  BY <1>1, <1>2, <1>3

\* The invariant that the types need.
LEMMA TypesInvariant == Spec => []TypeInv
<1>1. Init => TypeInv
  <2> SUFFICES ASSUME Init PROVE TypeInv
    OBVIOUS
  <2>1. NoTable \in Table /\ IsFiniteSet(NoTable.rows) /\ Cardinality(NoTable.rows) = 0
        /\ NoTable.rows = {} /\ NoTable.index = {}
    BY FS_EmptySet DEF NoTable, Table
  <2>2. NoManager \in Manager /\ NoManager.at = "none" /\ NoManager.missing = {}
    BY DEF NoManager, Manager, At, Declaration
  <2>3. MaxRows \in Nat /\ MaxReloads \in Nat
    BY TablesAssumption DEF TablesAssumption
  <2>4. VarsType
    <3>1. mgr \in [Procs -> Manager] /\ table \in Table
      BY <2>1, <2>2 DEF Init
    <3>2. lost \in [Runs -> [ensuring : Nat, saving : Nat]]
      BY DEF Init
    <3>3. saves \in 0..MaxRows /\ reloads \in 0..MaxReloads
      BY <2>3 DEF Init
    <3> QED
      BY <3>1, <3>2, <3>3 DEF Init, VarsType
  <2>5. RowsFit /\ ColumnsAsEnsured
    BY <2>1, <2>2 DEF Init, RowsFit, ColumnsAsEnsured
  <2>6. OneManager
    BY <2>2 DEF Init, OneManager, Procs
  <2> QED
    BY <2>4, <2>5, <2>6 DEF TypeInv
<1>2. TypeInv /\ [Next]_vars => TypeInv'
  <2> SUFFICES ASSUME TypeInv, [Next]_vars PROVE TypeInv'
    OBVIOUS
  <2>1. CASE UNCHANGED vars
    BY <2>1 DEF vars, TypeInv, VarsType, RowsFit, ColumnsAsEnsured, OneManager
  <2>2. Runs \subseteq Procs /\ Readers \subseteq Procs
    BY DEF Procs
  <2> QED
    BY <2>1, <2>2, EnsureKeepsType, SaveKeepsType, MakeKeepsType, FailureKeepsType, OtherKeepsType DEF Next
<1> QED
  BY <1>1, <1>2, PTL DEF Spec

\* Every variable always has its type, in particular no row has a value for
\* which the table has no column (ensure_table, save_item), for any number of
\* runs, requests, columns and items.
THEOREM TablesTypeCorrect == Spec => []TypeOK
<1>1. TypeInv => TypeOK
  <2> SUFFICES ASSUME TypeInv PROVE TypeOK
    OBVIOUS
  <2>1. \A p \in Procs : mgr[p].at \in At /\ mgr[p].missing \subseteq mgr[p].decl.fields
    BY DEF TypeInv, VarsType, ColumnsAsEnsured, Manager
  <2>2. /\ table.exists \in BOOLEAN /\ table.cols \subseteq Columns /\ table.index \subseteq table.cols
        /\ \A q \in table.rows : q \in Row /\ \A c \in Columns \ table.cols : q.item[c] = Null
    BY DEF TypeInv, VarsType, RowsFit, Table
  <2> QED
    BY <2>1, <2>2 DEF TypeInv, VarsType, OneManager, TypeOK
<1> QED
  BY <1>1, TypesInvariant, PTL

\* An ensure_table that fails, or a row of the spider that cannot be read, costs a
\* run its first item and no other: the flag
\* that is set before the work (runner._get_or_init_data_manager) makes it the
\* only one.
THEOREM FirstItemOnly == Spec => []LosesFirstOnly
<1>1. TypeInv => LosesFirstOnly
  BY DEF TypeInv, OneManager, LosesFirstOnly
<1> QED
  BY <1>1, TypesInvariant, PTL

-----------------------------------------------------------------------------
(* ensure_table can be repeated.                                           *)

\* A step that changes neither the table nor a manager that is at work, but
\* those it makes or ends.
LEMMA StillFound ==
    ASSUME EnsureInv, UNCHANGED <<table, baseless>>,
           \A p \in Procs :
              \/ mgr'[p].at \notin {"create", "alter"}
              \/ mgr'[p] = mgr[p] /\ (p \in overlapped => p \in overlapped')
    PROVE  EnsureInv'
  BY DEF EnsureInv, FoundHolds

\* An ensure_table fails for a reason, and whoever has looked at the table
\* learns of its changes.
LEMMA EnsureKeepsFound ==
    ASSUME TypeInv, EnsureInv, NEW p \in Procs, EnsureStep(p)
    PROVE  EnsureInv'
<1>1. /\ Moved(p) /\ Widened
      /\ table' = table => overlapped' = overlapped
      /\ table' # table => /\ table'.exists
                           /\ overlapped' = overlapped \cup {q \in Procs \ {p} : Ensuring(q)}
  BY EnsureMoves, EnsureEffect DEF Changes
<1>2. FoundHolds'
  <2>1. ASSUME NEW q \in Procs \ overlapped', q # p
        PROVE  /\ mgr'[q].at = "create" => ~table'.exists
               /\ mgr'[q].at = "alter" => mgr'[q].missing \cap table'.cols = {}
    <3>1. mgr'[q] = mgr[q]
      BY <1>1, <2>1 DEF Moved
    <3>2. CASE table' = table
      BY <1>1, <2>1, <3>1, <3>2 DEF EnsureInv, FoundHolds
    <3>3. CASE table' # table
      BY <1>1, <2>1, <3>1, <3>3 DEF Ensuring
    <3> QED
      BY <3>2, <3>3
  <2>2. ASSUME p \notin overlapped'
        PROVE  /\ mgr'[p].at = "create" => ~table'.exists
               /\ mgr'[p].at = "alter" => mgr'[p].missing \cap table'.cols = {}
    <3>1. p \notin overlapped
      BY <1>1, <2>2
    <3> QED
      BY <1>1, <3>1 DEF Moved, EnsureInv, FoundHolds
  <2> QED
    BY <2>1, <2>2 DEF FoundHolds
<1>3. ~baseless'
  <2>1. CASE Raises(p)
    <3>1. HasReason(p)
      <4>1. ~Look(p) /\ ~Inspect(p)
        <5>1. mgr'[p].at \in {"failed", "none"}
          BY <2>1, RaiseEffect DEF TypeInv
        <5>2. Look(p) => mgr'[p].at \in {"inspect", "create"}
          BY GoesOn DEF Look, TypeInv, At
        <5>3. Inspect(p) => mgr'[p].at = "alter"
          BY DEF Inspect, TypeInv, VarsType, Manager
        <5> QED
          BY <5>1, <5>2, <5>3
      <4>2. ~Goes(p, "index") /\ ~Goes(p, "ready")
        <5>1. mgr'[p].at \in {"failed", "none"}
          BY <2>1, RaiseEffect DEF TypeInv
        <5> QED
          BY <5>1, GoesOn DEF TypeInv, At
      <4>3. CASE Create(p)
        BY <4>2, <4>3 DEF Create, EnsureInv, FoundHolds, HasReason
      <4>4. CASE Alter(p) /\ mgr[p].decl.refused = {}
        <5>1. PICK c \in mgr[p].missing : c \in table.cols \/ mgr' = [mgr EXCEPT ![p].missing = @ \ {c}]
          BY <4>2, <4>4 DEF Alter
        <5>2. c \in table.cols
          <6>1. mgr' = [mgr EXCEPT ![p].missing = @ \ {c}] => mgr'[p].at = mgr[p].at
            BY DEF TypeInv, VarsType, Manager
          <6>2. mgr[p].at = "alter" /\ mgr'[p].at \in {"failed", "none"}
            BY <2>1, <4>4, RaiseEffect DEF TypeInv, Alter
          <6> QED
            BY <5>1, <6>1, <6>2
        <5> QED
          BY <4>4, <5>1, <5>2 DEF Alter, EnsureInv, FoundHolds, HasReason
      <4>5. CASE Index(p)
        BY <4>2, <4>5 DEF Index, HasReason
      <4> QED
        BY <4>1, <4>3, <4>4, <4>5 DEF EnsureStep, HasReason
    <3> QED
      BY <2>1, <3>1 DEF Raises, EnsureInv
  <2>2. CASE UNCHANGED baseless
    BY <2>2 DEF EnsureInv
  <2> QED
    BY <1>1, <2>1, <2>2 DEF Moved
<1> QED
  BY <1>2, <1>3 DEF EnsureInv

\* What a manager has found still holds, unless it met a change.
LEMMA FoundInvariant == Spec => [](TypeInv /\ EnsureInv)
<1>1. Init => EnsureInv
  BY DEF Init, EnsureInv, FoundHolds, NoManager
<1>2. TypeInv /\ EnsureInv /\ [Next]_vars => EnsureInv'
  <2> SUFFICES ASSUME TypeInv, EnsureInv, [Next]_vars PROVE EnsureInv'
    OBVIOUS
  <2>1. CASE UNCHANGED vars
    BY <2>1, StillFound DEF vars
  <2>2. ASSUME NEW p \in Procs, EnsureStep(p)
        PROVE  EnsureInv'
    BY <2>2, EnsureKeepsFound
  <2>3. ASSUME NEW r \in Runs, NEW item \in Item, SaveItem(r, item)
        PROVE  EnsureInv'
    <3>1. /\ UNCHANGED <<mgr, overlapped, baseless>>
          /\ table'.exists = table.exists /\ table'.cols = table.cols
      BY <2>3, SaveEffect DEF SaveItem
    <3> QED
      BY <3>1 DEF EnsureInv, FoundHolds
  <2>4. ASSUME NEW p \in Procs, NEW u \in Users \cup {Nobody}, Make(p, u), UNCHANGED <<table, baseless>>
        PROVE  EnsureInv'
    <3>1. /\ mgr'[p].at = "look" /\ \A q \in Procs \ {p} : mgr'[q] = mgr[q]
          /\ overlapped' = overlapped \ {p}
      BY <2>4, MakeEffect DEF TypeInv
    <3> QED
      BY <2>4, <3>1, StillFound
  <2>5. ASSUME NEW r \in Runs, NEW u \in Users, FirstItem(r, u)
        PROVE  EnsureInv'
    <3>1. CASE UNCHANGED <<mgr, overlapped>>
      BY <2>5, <3>1, StillFound DEF FirstItem
    <3>2. CASE Make(r, u)
      BY <2>4, <2>5, <3>2 DEF FirstItem, Procs
    <3> QED
      BY <2>5, <3>1, <3>2 DEF FirstItem
  <2>6. ASSUME NEW c \in Readers, Read(c)
        PROVE  EnsureInv'
    BY <2>4, <2>6 DEF Read, Procs
  <2>7. ASSUME NEW c \in Readers, Finish(c)
        PROVE  EnsureInv'
    <3>1. /\ UNCHANGED <<table, overlapped, baseless>>
          /\ mgr'[c].at = "none" /\ \A q \in Procs \ {c} : mgr'[q] = mgr[q]
      BY <2>7, GoesOn DEF Finish, TypeInv, Procs, At
    <3> QED
      BY <3>1, StillFound
  <2>8. ASSUME UNCHANGED <<mgr, table, overlapped, baseless>>
        PROVE  EnsureInv'
    BY <2>8, StillFound
  <2>9. ASSUME NEW r \in Runs, NEW u \in Users, FirstItemFails(r, u)
        PROVE  EnsureInv'
    <3>1. /\ UNCHANGED <<table, overlapped, baseless>>
          /\ mgr'[r].at = "failed" /\ \A q \in Procs \ {r} : mgr'[q] = mgr[q]
      BY <2>9, GoesOn DEF FirstItemFails, TypeInv, Procs, At
    <3> QED
      BY <3>1, StillFound
  <2> QED
    BY <2>1, <2>2, <2>3, <2>5, <2>6, <2>7, <2>8, <2>9 DEF Next, SaveToItems, Reload
<1> QED
  BY <1>1, <1>2, TypesInvariant, PTL DEF Spec

\* ensure_table (data_manager.py) fails only when another caller has changed the
\* table meanwhile, rows violate the deduplication key, or the declaration itself
\* has a type that is refused or a key that is no column: however many runs and
\* requests call it, however often and after whatever declarations.
THEOREM EnsureRepeats == Spec => []EnsureIsIdempotent
<1>1. EnsureInv => EnsureIsIdempotent
  BY DEF EnsureInv, EnsureIsIdempotent
<1> QED
  BY <1>1, FoundInvariant, PTL

-----------------------------------------------------------------------------
(* No item is lost under one declaration.                                  *)

\* Whoever makes the table under one declaration gives it the index that this
\* asks for, and no one is ready before.
LEMMA EnsureKeepsIndex ==
    ASSUME TypeInv, OneIndex, NEW p \in Procs, EnsureStep(p)
    PROVE  OneIndex'
<1> SUFFICES ASSUME reloads = 0 PROVE OneIndex'
  BY EnsureEffect DEF OneIndex, Others
<1>1. Moved(p) /\ mgr[p].at \notin {"none", "ready", "failed"} /\ UNCHANGED Others
  BY EnsureMoves, EnsureEffect
<1>2. /\ mgr[p].decl = declared /\ table.index \in {{}, declared.dedup}
      /\ table \in Table /\ (~table.exists => table = NoTable)
  BY <1>1 DEF OneIndex, TypeInv, VarsType, RowsFit
<1>3. \A r \in Runs : lost'[r].saving = 0
  <2>1. \A r \in Runs : lost[r].saving = 0
    BY DEF OneIndex
  <2> QED
    BY <1>1, <2>1, RaiseEffect DEF Moved, TypeInv
<1>4. /\ table'.index \in {{}, declared.dedup}
      /\ table.index # {} => table'.index = table.index
      /\ mgr'[p].at = "ready" /\ declared.dedup # {} /\ dialect = "sqlite" => table'.index = declared.dedup
  <2>1. CASE Look(p) \/ Inspect(p)
    <3>1. table' = table
      BY <2>1 DEF Look, Inspect
    <3>2. mgr'[p].at # "ready"
      <4>1. Look(p) => mgr'[p].at \in {"inspect", "create"}
        BY GoesOn DEF Look, TypeInv, At
      <4>2. Inspect(p) => mgr'[p].at = "alter"
        BY DEF Inspect, TypeInv, VarsType, Manager
      <4> QED
        BY <2>1, <4>1, <4>2
    <3> QED
      BY <1>2, <3>1, <3>2
  <2>2. CASE Raises(p)
    BY <1>2, <2>2, RaiseEffect DEF TypeInv
  <2>3. CASE Create(p) /\ ~Raises(p)
    <3>1. /\ ~table.exists /\ Goes(p, "index")
          /\ table' = [NoTable EXCEPT !.exists = TRUE, !.cols = mgr[p].decl.fields]
      BY <2>3 DEF Create, Changes
    <3>2. mgr'[p].at = "index" /\ table.index = {} /\ table'.index = {}
      BY <1>2, <3>1, GoesOn DEF TypeInv, At, NoTable
    <3> QED
      BY <3>2
  <2>4. CASE Alter(p) /\ ~Raises(p)
    <3>1. table' = table \/ \E c : table' = [table EXCEPT !.cols = @ \cup {c}]
      BY <2>4 DEF Alter, Changes
    <3>2. table'.index = table.index
      BY <1>2, <3>1 DEF Table
    <3>3. Goes(p, "index") => mgr'[p].at = "index"
      BY GoesOn DEF TypeInv, At
    <3>4. \A c : mgr' = [mgr EXCEPT ![p].missing = @ \ {c}] => mgr'[p].at = mgr[p].at
      BY DEF TypeInv, VarsType, Manager
    <3>5. mgr'[p].at # "ready"
      BY <2>4, <3>3, <3>4 DEF Alter
    <3> QED
      BY <1>2, <3>2, <3>5
  <2>5. CASE Index(p) /\ ~Raises(p)
    <3>1. CASE UNCHANGED table
      BY <1>2, <2>5, <3>1 DEF Index, Changes, Table
    <3>2. CASE table.index = {} /\ table' = [table EXCEPT !.index = declared.dedup]
      BY <1>2, <3>2 DEF Table
    <3> QED
      BY <1>2, <2>5, <3>1, <3>2 DEF Index, Changes
  <2> QED
    BY <2>1, <2>2, <2>3, <2>4, <2>5 DEF EnsureStep
<1>5. ASSUME NEW q \in Procs, mgr'[q].at \notin {"none", "failed"}
      PROVE  /\ mgr'[q].decl = declared
             /\ mgr'[q].at = "ready" /\ declared.dedup # {} /\ dialect = "sqlite" =>
                   table'.index = declared.dedup
  <2>1. CASE q = p
    BY <1>1, <1>2, <1>4, <2>1 DEF Moved
  <2>2. CASE q # p
    BY <1>1, <1>4, <1>5, <2>2 DEF Moved, OneIndex
  <2> QED
    BY <2>1, <2>2
<1> QED
  BY <1>1, <1>3, <1>4, <1>5 DEF OneIndex, Others

\* A run that is ready can save whatever it is given.
LEMMA SaveKeepsIndex ==
    ASSUME TypeInv, OneIndex, NEW r \in Runs, NEW item \in Item, SaveItem(r, item)
    PROVE  OneIndex'
<1> SUFFICES ASSUME reloads = 0 PROVE OneIndex'
  BY DEF SaveItem, OneIndex
<1>1. /\ UNCHANGED <<dialect, declared, mgr, reloads>> /\ table'.index = table.index
      /\ mgr[r].at = "ready" /\ mgr[r] \in Manager /\ Save(r, item)
  BY SaveEffect DEF SaveItem, TypeInv, VarsType, Procs
<1>2. /\ mgr[r].decl = declared /\ table.index \in {{}, declared.dedup}
      /\ declared.dedup # {} /\ dialect = "sqlite" => table.index = declared.dedup
      /\ mgr[r].decl.fields \subseteq table.cols
  BY <1>1 DEF OneIndex, TypeInv, ColumnsAsEnsured, Procs
<1> DEFINE known == Known(r, item)
<1>3. Executes(r, known)
  <2>1. {c \in Columns : known[c] # Null} \subseteq table.cols
    BY <1>2 DEF Known
  <2>2. declared.dedup = {} => Conflicts(known, table.index) = {}
    BY <1>2 DEF Conflicts
  <2> QED
    BY <1>2, <2>1, <2>2 DEF Executes
<1>4. UNCHANGED lost
  BY <1>1, <1>3 DEF Save
<1> QED
  BY <1>1, <1>4 DEF OneIndex

\* The index is the one the declaration asks for.
LEMMA IndexInvariant == Spec => [](TypeInv /\ OneIndex)
<1>1. Init => OneIndex
  BY DEF Init, OneIndex, NoManager, NoTable
<1>2. TypeInv /\ OneIndex /\ [Next]_vars => OneIndex'
  <2> SUFFICES ASSUME TypeInv, OneIndex, [Next]_vars PROVE OneIndex'
    OBVIOUS
  <2>1. CASE UNCHANGED vars
    BY <2>1 DEF vars, OneIndex
  <2>2. ASSUME NEW p \in Procs, NEW u \in Users \cup {Nobody}, Make(p, u),
               UNCHANGED <<dialect, declared, table, reloads, lost>>
        PROVE  OneIndex'
    <3>1. /\ mgr'[p].at = "look" /\ mgr'[p].decl = declared
          /\ \A q \in Procs \ {p} : mgr'[q] = mgr[q]
      BY <2>2, MakeEffect DEF TypeInv
    <3> QED
      BY <2>2, <3>1 DEF OneIndex
  <2>3. ASSUME UNCHANGED <<dialect, declared, table, mgr, reloads, lost>>
        PROVE  OneIndex'
    BY <2>3 DEF OneIndex
  <2>4. ASSUME NEW r \in Runs, NEW u \in Users, FirstItem(r, u)
        PROVE  OneIndex'
    BY <2>2, <2>3, <2>4 DEF FirstItem, Procs
  <2>5. ASSUME NEW c \in Readers, Read(c)
        PROVE  OneIndex'
    BY <2>2, <2>5 DEF Read, Procs
  <2>6. ASSUME NEW c \in Readers, Finish(c)
        PROVE  OneIndex'
    <3>1. /\ UNCHANGED <<dialect, declared, table, reloads, lost>>
          /\ mgr'[c].at = "none" /\ \A q \in Procs \ {c} : mgr'[q] = mgr[q]
      BY <2>6, GoesOn DEF Finish, Others, TypeInv, Procs, At
    <3> QED
      BY <3>1 DEF OneIndex
  <2>7. ASSUME NEW d, Reload(d)
        PROVE  OneIndex'
    BY <2>7 DEF Reload, OneIndex, TypeInv, VarsType
  <2>8. ASSUME NEW r \in Runs, SaveToItems(r)
        PROVE  OneIndex'
    BY <2>3, <2>8 DEF SaveToItems
  <2>9. ASSUME NEW r \in Runs, NEW u \in Users, FirstItemFails(r, u)
        PROVE  OneIndex'
    <3>1. /\ UNCHANGED <<dialect, declared, table, reloads>>
          /\ mgr'[r].at = "failed" /\ mgr'[r].decl = mgr[r].decl
          /\ \A q \in Procs \ {r} : mgr'[q] = mgr[q]
      BY <2>9, GoesOn DEF FirstItemFails, TypeInv, Procs, At
    <3>2. \A q \in Runs : lost'[q].saving = lost[q].saving
      <4>1. lost[r] \in [ensuring : Nat, saving : Nat]
        BY DEF TypeInv, VarsType
      <4> QED
        BY <2>9, <4>1 DEF FirstItemFails, TypeInv, VarsType
    <3> QED
      BY <3>1, <3>2 DEF OneIndex
  <2> QED
    BY <2>1, <2>4, <2>5, <2>6, <2>7, <2>8, <2>9, EnsureKeepsIndex, SaveKeepsIndex DEF Next
<1> QED
  BY <1>1, <1>2, TypesInvariant, PTL DEF Spec

\* A run whose table is ready loses no item (save_item), whoever else makes and
\* fills the table, as long as the spider keeps its declaration.
THEOREM ReadySaves == Spec => []SavesUnlessRedeclared
<1>1. OneIndex => SavesUnlessRedeclared
  BY DEF OneIndex, SavesUnlessRedeclared
<1> QED
  BY <1>1, IndexInvariant, PTL
=============================================================================
