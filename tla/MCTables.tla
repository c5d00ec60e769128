------------------------------ MODULE MCTables ------------------------------
(* TLC instances of Tables, and what the documents and comments of the      *)
(* repository say of it where the code does otherwise.                      *)
EXTENDS Tables, TLC

CONSTANTS f, g

RunSymmetry == Permutations(Runs) \cup Permutations(Users)

Declares(fields, refused, dedup) == [fields |-> fields, refused |-> refused, dedup |-> dedup]

\* Without fields; with a field that is the key; with a second field and no key;
\* with a field of a refused type; with a key that is no field.
FiveDeclarations ==
    {Declares({}, {}, {}), Declares({f}, {}, {f}), Declares({f, g}, {}, {}),
     Declares({f, g}, {g}, {f}), Declares({f}, {}, {g})}

OneDeclaration == {Declares({f}, {}, {f})}

\* The fields of skill/SKILL.md:219-221, of type VARCHAR(n), and all without a type.
DocumentedDeclaration == {Declares({f}, {f}, {})}

\* skill/SKILL.md:213: without sinks, data is written to the table of the
\* spider as soon as fields are defined.  That table is what the API reads.
FieldsReachTable ==
    \A x \in items : x.decl.fields = {} \/ lost[x.run].ensuring > 0

\* skill/SKILL.md:78: who defines fields gets a table for them.
FieldsMakeTable ==
    [][\A p \in Procs : Ensuring(p) /\ p \notin overlapped => mgr'[p].at \notin {"none", "failed"}]_vars

\* core/data_manager.py:357: an upsert does not update the user of a row.
KeepsItsUser ==
    [][\A q \in table.rows : \E s \in table'.rows : s.no = q.no /\ s.user = q.user]_vars
=============================================================================
