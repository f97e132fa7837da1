SPECIFICATION Spec
CONSTANTS
    Client = {c1, c2}
    None = None
    Calls <- Outlets
    Outputs = {"cpal", "airplay"}
    MaxCalls = 3
    MaxQueue = 1
    MaxFaults = 1
SYMMETRY Symmetry
INVARIANTS NowPlaying
PROPERTIES NoBleed
