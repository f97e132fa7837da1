SPECIFICATION Spec
CONSTANTS
    a = a
    b = b
    c = c
    Track = {a, b, c}
    None = None
    Calls = {}
    Asked <- Album
    Evenings <- Alone
    MaxRetries = 1
    MaxCalls = 0
    MaxFaults = 1
PROPERTIES FallbackKeepsQueue
CHECK_DEADLOCK FALSE
