SPECIFICATION FairSpec
CONSTANTS
    Client = {c1, c2}
    None = None
    Calls <- Settles
    Outputs = {"cpal"}
    MaxCalls = 3
    MaxQueue = 0
    MaxFaults = 1
PROPERTIES PlaySettles StartingSettles AdvancingSettles
