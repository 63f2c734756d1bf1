SPECIFICATION Spec
CONSTANTS
    NumUavs = 2
    Gs = Gs
    Interceptor = Interceptor
    None = None
    Stagger = 1
    AuthStart <- MCAuthStart
    PeerStarts = {2, 7}
    Modes = {"replay"}
    Target = 0
    MaxForged = 2
    MaxDelay = 1
INVARIANT
    AttemptsCountDevices
CHECK_DEADLOCK FALSE
