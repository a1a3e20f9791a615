SPECIFICATION MCSpec
CONSTANTS
    c1 = c1
    c2 = c2
    run = run
    pair = pair
    command = command
    Clients = {c1, c2}
    Agents = {run, pair}
    Commands = {command}
    MaxClients = 1
    NoClient = NoClient
    Ladder <- MCLadder
    Native = 1080
    Estimates = {90, 50, 5}
    WindowSizes = {0, 720}
    FrameRates = {0, 10, 120}
    Caps = {0}
    Floors = {0}
    DownAfter = 1
    UpAfter = 3
    Dwell = 2
    Margin = 135
    Align = 16
    StartBitrate = 50
    Lowest = 3
    Highest = 100
    MaxEvents = 3
    NativeQueue = 2
    GoQueue = 1
    MaxPending = 1
    MaxSent = 2
    MaxImages = 1
    MaxBacklog = 3
    MaxShapes = 4
    MaxMoves = 1
    Requests = {r1}
    MaxConnections = 2
    MaxAnswers = 1
    PairClients = {d1, d2}
    OddLabels = {d2}
    MaxWindows = 2
    MaxDrops = 1
    Texts = {t1, t2}
    LongTexts = {t2}
    ChangeSlots = 2
    MaxCopies = 4
    CheckIns = {0, 1, 3}
    LeastMinutes = 2
    MostMinutes = 4
    Stays = {1}
    CheckInHold = 1
    MaxWakeTime = 3
    MaxEdits = 2
    FramesKept = 2
    FailuresKept = 1
    MaxPictures = 3
    MaxRequests = 2
    MaxLocks = 2
    MaxFaults = 1
    Places = {p, q}
    Indexes = {0, 1}
    MaxArrangements = 1
    MaxSelections = 2
    MaxBacklogs = 1
SYMMETRY Symmetry
INVARIANTS
    TypesOK
    PairedIsSaved
    
    
    NobodyIsStuck
    TrustIsMutual
    ServerListAgrees
    
    WakeIsHonest
    KeyframeOnItsWay
    DisplaysAgree
PROPERTIES
    NoPumping
CHECK_DEADLOCK FALSE
