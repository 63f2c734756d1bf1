SPECIFICATION Spec
CONSTANTS
    u1 = u1
    u2 = u2
    Uav = {u1, u2}
    Gs = Gs
    None = None
    Requests = 2
    Draws = 2
    Drives <- MCDrives
    MaxRequests <- MCMaxRequests
    MaxDraws <- MCMaxDraws
    MaxTime = 0
    Window = 0
    Capacity = 9
INVARIANT
    NoCredentialsBeforePhase2
CHECK_DEADLOCK FALSE
