SPECIFICATION Spec
CONSTANTS
    M = 8
    RatePercent = 95
    RequiredBits = 384
INVARIANTS
    HeaderParameters
CHECK_DEADLOCK FALSE
