CONSTANTS
    MaxPage = 2
    Data = {d1, d2}
    None = None
    Torn = Torn
    Unused = Unused
    Freed = d2
    Leaves <- MCLeaves
SPECIFICATION Spec
INVARIANTS TypeOK WriteAhead ReaderSeesSaved
PROPERTIES ImplementsAtomicFile SyncedBeforeDeletion
