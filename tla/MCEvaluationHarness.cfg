SPECIFICATION Spec
CONSTANTS
    NumCases = 2
    Amounts = {10000, 500000}
    Minutes <- MinutesUsed
    Lags = {0, 720, 721}
    Answers <- AnswersUsed
    MaxAttempts = 3
INVARIANTS
    EveryCaseEndsOneWay
    AttemptsAreAccounted
    FraudIsNeverAttempted
    IntegrityHolds
    ResultsReproducible
CHECK_DEADLOCK FALSE
