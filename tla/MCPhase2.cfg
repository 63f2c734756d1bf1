SPECIFICATION Spec
CONSTANTS
    u1 = u1
    Uav = {u1}
    None = None
    Bystanders = {}
    Attempts = 3
    Enrolments = 2
    Sessions = 3
    MaxAttempts <- MCMaxAttempts
    MaxEnrol <- MCMaxEnrol
    MaxSessions <- MCMaxSessions
    MaxTranscript = 4
    MaxTime = 3
    Window = 1
    Capacity = 9
INVARIANTS
    TypeOK
    KeyMatchesTranscript
    GsKeyHeldByUav
    EstablishedKeyAgreement
    StrandedOnlyByM4OutOfStep
PROPERTIES
    RefinesKeyExchange
    KeyDroppedOnlyByNewRequest
    TidNeverRollsBack
    KeyIsRecent
CHECK_DEADLOCK FALSE
