SPECIFICATION FairSpec
CONSTANTS
    Local = "core"
    Device = {"dac", "speaker"}
    Kind <- Kinds
    Networks <- Speakers
    Agent = {"agent", "browser"}
    Browser = {"browser"}
    Output = {"one", "tab"}
    Owner <- Owners
    MaxEvents = 3
INVARIANTS TypeOK ZonesFollowSockets ActiveIsShared
PROPERTIES EnabledAgree ActiveRecovers ActiveRests
CHECK_DEADLOCK FALSE
