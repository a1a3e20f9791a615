SPECIFICATION Spec
CONSTANTS
    c1 = c1
    c2 = c2
    s1 = s1
    s2 = s2
    Clients = {c1, c2}
    Sids = {s1, s2}
    Scenarios <- CaptureScenarios
    NoSid = NoSid
CHECK_DEADLOCK FALSE
PROPERTIES
    RefusedOnlyIfInUse
