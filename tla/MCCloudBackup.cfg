CONSTANTS
    Values = {v1, v2}
    NoRow = NoRow
    MaxId = 1
    Limit <- MCLimit
    Uploads = {u1}
    Downloads = {d1, d2}
    OtherImages <- MCOtherImages
SPECIFICATION CBSpec
SYMMETRY Symmetry
INVARIANTS CBTypeOK OneRestoreOnTheFile ReportedBackupExists EveryRequestGoesOn
PROPERTIES BackupIsWhatIsShown
