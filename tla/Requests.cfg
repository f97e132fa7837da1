SPECIFICATION Spec
CONSTANTS
    Client = {a, b}
    None = None
    Slots = 1
    MaxNumber = 2
    MaxRequests = 3
    Failures = TRUE
    Stops = TRUE
SYMMETRY Symmetry
INVARIANTS TypeOK OvertakenNeverPlays AnswersHold SomeoneWins MostRecentKept NewestKnown
CHECK_DEADLOCK FALSE
