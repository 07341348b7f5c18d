CONSTANTS
    Values = {v1}
    NoRow = NoRow
    MaxId = 1
    Limit <- MCLimit
    Uploads = {u1}
    Downloads = {d1}
    OtherImages <- MCOtherImages
SPECIFICATION CBFairSpec
PROPERTIES EveryRetrievalIsAnswered
