CONSTANTS
    n1 = n1
    n2 = n2
    e1 = e1
    Numbers = {n1, n2}
    Dates = {e1}
    Values <- Card
    NoRow = NoRow
    Nothing = Nothing
    MaxId = 1
    Limit <- MCLimit
    Backups <- MCBackups
    CardType <- MCCardType
    MaxAsked = 2
SPECIFICATION CSSpec
INVARIANTS CSTypeOK CardsAreStored HeldCardIsStored
PROPERTIES EditChangesNumberAndType AnswersAreOfNumber
