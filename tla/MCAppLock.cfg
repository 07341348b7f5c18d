CONSTANTS
    Buttons = {b1, b2, b3}
    MinPoints = 2
    Tries = 3
    Biometry = "touch"
    AutoLock = 1
    MaxTime = 3
SPECIFICATION LKSpec
SYMMETRY Symmetry
INVARIANTS LKTypeOK LockedUntilLeft StoredIsDrawable
PROPERTIES PatternKept
