CONSTANTS
    o1 = o1
    o2 = o2
    Options <- MCOptions
    Default <- MCDefault
    HasBiometry = TRUE
    HasFeedback = TRUE
    MaxStamp = 1
SPECIFICATION STSpec
INVARIANTS STTypeOK TableShowsConfig TickIsSaved AppearanceIsConfig
PROPERTIES OneSettingPerStep
