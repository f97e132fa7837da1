SPECIFICATION Spec
CONSTANTS
    Client = {c1, c2}
    None = None
    Calls <- Commands
    Outputs = {"cpal"}
    MaxCalls = 3
    MaxQueue = 1
    MaxFaults = 1
SYMMETRY Symmetry
INVARIANTS TypeOK EpochOrder StopIsFinal AdvancingStream OneQueue
PROPERTIES KeepsLease
