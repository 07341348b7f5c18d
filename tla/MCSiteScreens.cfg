CONSTANTS
    Values = {v1, v2}
    NoRow = NoRow
    MaxId = 2
    Limit <- MCLimit
    Uploads = {}
    Downloads = {d1}
    OtherImages <- MCOtherImages
SPECIFICATION SSSpec
SYMMETRY Symmetry
INVARIANTS SSTypeOK ListIsStored HeldIsStored
PROPERTIES AcknowledgedEditIsStored
