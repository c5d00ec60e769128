SPECIFICATION Spec
CONSTANTS
    f = f
    g = g
    Columns = {f, g}
    Declarations <- FiveDeclarations
    Dialects = {"sqlite", "mysql"}
    FieldsInRow = TRUE
    Runs = {r1, r2}
    Readers = {c1}
    Users = {u1}
    Values = {v, Null}
    MaxRows = 3
    MaxReloads = 1
    Null = Null
    Nobody = Nobody
SYMMETRY RunSymmetry
INVARIANTS TypeOK EnsureIsIdempotent SavesUnlessRedeclared LosesFirstOnly
CHECK_DEADLOCK FALSE
