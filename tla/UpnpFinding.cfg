SPECIFICATION Spec
CONSTANTS
    Source = {a}
    None = None
    Verified = FALSE
    MaxAttempts = 1
    MaxLooks = 1
    MaxCommands = 2
    MaxArms = 0
INVARIANTS NewestSeekSent
CHECK_DEADLOCK FALSE
