SPECIFICATION MCSpec
CONSTANTS
    k1 = k1
    b1 = b1
    Keys = {k1}
    Buttons = {b1}
    MaxInFlight = 2
    Desktops = {d1, d2}
    NoDesktop = NoDesktop
    RestartSlots = 2
    MaxChanges = 4
    MaxExits = 1
    MaxCrashes = 1
INVARIANTS
    TypesOK
    KeysAreAsBelieved
    SettledAgree
    
PROPERTIES
    HeldKeyArrives
    HelperFollows
CHECK_DEADLOCK FALSE
