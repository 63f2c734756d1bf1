SPECIFICATION Spec
CONSTANTS
    u1 = u1
    Uav = {u1, u2}
    u2 = u2
    None = None
    Bystanders = {u2}
    Attempts = 2
    Enrolments = 1
    Sessions = 3
    MaxAttempts <- MCMaxAttempts
    MaxEnrol <- MCMaxEnrol
    MaxSessions <- MCMaxSessions
    MaxTranscript = 4
    MaxTime = 0
    Window = 0
    Capacity = 1
PROPERTY
    RefinesPeerCredentials
CHECK_DEADLOCK FALSE
