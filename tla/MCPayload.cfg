SPECIFICATION Spec
CONSTANTS
    MaxBody = 5
    MaxReads = 4
    Limits = {0, 1, 3, 9}
INVARIANTS
    TypeOK
    AnswersAreWhole
    LimitIsOfTheBody
    NoFileLeftBehind
CHECK_DEADLOCK FALSE
