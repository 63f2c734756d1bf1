SPECIFICATION Spec
CONSTANTS
    NumUavs = 3
    Gs = Gs
    Interceptor = Interceptor
    None = None
    Stagger = 1
    AuthStart <- MCAuthStart
    PeerStarts = {2, 7}
    Modes = {"none", "replay", "gsimpersonate", "tamper"}
    Target = 0
    MaxForged = 2
    MaxDelay = 1
INVARIANTS
    TypeOK
    WaitsOnlyForTheRefused
    RecordsOfPairAgree
    SuccessesCountSessions
    FeFailuresExact
PROPERTIES
    EveryDeviceAuthenticates
    EveryPairCompletes
CHECK_DEADLOCK FALSE
