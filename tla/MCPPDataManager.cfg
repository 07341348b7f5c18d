CONSTANTS
    Values = {v1, v2}
    NoRow = NoRow
    MaxId = 2
    Limit <- MCLimit
SPECIFICATION Spec
SYMMETRY Symmetry
INVARIANTS TypeOK ConnectionOnFile FreshIds
PROPERTIES DeletedStaysDeleted ImplementsVault
