SPECIFICATION FairSpec
CONSTANTS
    a = a
    b = b
    c = c
    Track = {a, b}
    None = None
    Calls = {"play", "next", "stop", "edit"}
    Asked <- Single
    Evenings <- Turnabout
    MaxRetries = 1
    MaxCalls = 1
    MaxFaults = 1
INVARIANTS TypeOK QueuesAgree
PROPERTIES RetryYields AdvanceReleases
CHECK_DEADLOCK FALSE
