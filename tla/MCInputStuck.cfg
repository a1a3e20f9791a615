SPECIFICATION MCSpec
CONSTANTS
    k1 = k1
    b1 = b1
    Keys = {k1}
    Buttons = {b1}
    MaxInFlight = 2
    Desktops = {d1}
    NoDesktop = NoDesktop
    RestartSlots = 1
    MaxChanges = 1
    MaxExits = 0
    MaxCrashes = 0
PROPERTIES
    ReleasedKeyArrives
CHECK_DEADLOCK FALSE
