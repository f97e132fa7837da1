SPECIFICATION FairSpec
CONSTANTS
    Track = {a, b}
    None = None
    MaxQueue = 1
    MaxCommands = 2
    MaxPrefetched = 1
    MaxGeneration = 2
    Failures = TRUE
INVARIANTS TypeOK LoadingHasTask StopHolds
PROPERTIES TakenInOrder QueuePlaysOut
CHECK_DEADLOCK FALSE
