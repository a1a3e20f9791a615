SPECIFICATION FairSpec
CONSTANTS
    c1 = c1
    c2 = c2
    s1 = s1
    s2 = s2
    Clients = {c1, c2}
    Sids = {s1, s2}
    Scenarios <- AllScenarios
    NoSid = NoSid
CHECK_DEADLOCK FALSE
INVARIANTS
    TypeOK
    OneDevice
    BusyAtRest
    ListedAreClosed
PROPERTIES
    RequestsAreAnswered
    UnconnectedEnd
    DisconnectIsOver
