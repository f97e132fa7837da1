SPECIFICATION FairSpec
CONSTANTS
    Local = "core"
    Device = {"renderer"}
    Kind <- Renderers
    Networks <- Upnp
    Agent = {"agent"}
    Browser = {}
    Output = {}
    Owner <- NoOwners
    MaxEvents = 1
PROPERTIES ActiveRests
CHECK_DEADLOCK FALSE
