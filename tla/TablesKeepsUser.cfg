SPECIFICATION Spec
CONSTANTS
    f = f
    g = g
    Columns = {f, g}
    Declarations <- OneDeclaration
    Dialects = {"sqlite", "mysql"}
    FieldsInRow = TRUE
    Runs = {r1, r2}
    Readers = {c1}
    Users = {u1, u2}
    Values = {v, Null}
    MaxRows = 3
    MaxReloads = 0
    Null = Null
    Nobody = Nobody
PROPERTY KeepsItsUser
CHECK_DEADLOCK FALSE
