SPECIFICATION FairSpec
CONSTANTS
    a = a
    b = b
    Track = {a, b}
    Asked = {a}
    Indexed = {a}
    Elsewhere <- Others
    None = None
    MaxQueue = 1
    MaxCalls = 2
    MaxPosition = 1
INVARIANTS TypeOK
PROPERTIES StartSurvives Settles
CHECK_DEADLOCK FALSE
