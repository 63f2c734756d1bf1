SPECIFICATION Spec
CONSTANTS
    NumUavs = 3
    FullMesh = TRUE
    PeerBase = 3
    GsPort = 2
    Restarting <- MCRestarting
    Starts = 2
    MaxStarts <- MCMaxStarts
    None = None
INVARIANTS
    TypeOK
    TimersScheduledOnce
    SuccessesMatchRecords
    ResponderSuccessIsShared
    LossAloneStrandsNobody
PROPERTY
    RefinesPeerCredentials
CHECK_DEADLOCK FALSE
