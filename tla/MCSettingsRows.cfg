CONSTANTS
    o1 = o1
    o2 = o2
    Options <- MCOptions
    Default <- MCDefault
    HasBiometry = FALSE
    HasFeedback = FALSE
    MaxStamp = 1
SPECIFICATION STSpec
INVARIANTS RowsDoWhatTheySay
