SPECIFICATION Spec
CONSTANTS
    u1 = u1
    u2 = u2
    Uav = {u1, u2}
    None = None
    Bystanders = {u2}
    Attempts = 2
    Sessions = 2
    MaxAttempts <- MCMaxAttempts
    MaxSessions <- MCMaxSessions
    MaxTranscript = 3
    MaxTime = 2
    Window = 1
    Capacity = 1
INVARIANTS
    TypeOK
    AheadOnlyByOutdatedB3
    SuccessesCountConfirmations
PROPERTIES
    RefinesKeyExchange
CHECK_DEADLOCK FALSE
