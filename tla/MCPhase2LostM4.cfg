SPECIFICATION Spec
CONSTANTS
    u1 = u1
    Uav = {u1}
    None = None
    Bystanders = {}
    Attempts = 3
    Enrolments = 1
    Sessions = 3
    MaxAttempts <- MCMaxAttempts
    MaxEnrol <- MCMaxEnrol
    MaxSessions <- MCMaxSessions
    MaxTranscript = 4
    MaxTime = 0
    Window = 0
    Capacity = 9
INVARIANT
    LostM4DoesNotStrand
CHECK_DEADLOCK FALSE
