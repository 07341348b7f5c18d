CONSTANTS
    NumberArray <- MCNumberArray
    LowLetterArray <- MCLowLetterArray
    UpLetterArray <- MCUpLetterArray
    OtherCharacter <- MCOtherCharacter
    MinLength = 6
    MaxLength = 32
    Short = 8
    Long = 16
SPECIFICATION CPSpec
INVARIANTS CPTypeOK SwitchesShowChoice
PROPERTIES CreatedAsShown
