SPECIFICATION Spec
CONSTANTS
    Source = {a}
    None = None
    Verified = TRUE
    MaxAttempts = 2
    MaxLooks = 1
    MaxCommands = 2
    MaxArms = 1
INVARIANTS TypeOK ReservationHeld
PROPERTIES PlaysInOrder SeekUnarmed SettleRespected
CHECK_DEADLOCK FALSE
