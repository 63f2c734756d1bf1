SPECIFICATION Spec
CONSTANTS
    u1 = u1
    u2 = u2
    Uav = {u1, u2}
    Gs = Gs
    None = None
    Requests = 2
    Draws = 3
    Drives <- MCDrives
    MaxRequests <- MCMaxRequests
    MaxDraws <- MCMaxDraws
    MaxTime = 2
    Window = 1
    Capacity = 9
INVARIANTS
    TypeOK
    ResponderKeyHeldByInitiator
    KeysDifferOnlyByLookUp
PROPERTIES
    PeerKeyNeverRederived
    KeyDroppedOnlyByNewP1
    RefinesPeerHandshake
CHECK_DEADLOCK FALSE
