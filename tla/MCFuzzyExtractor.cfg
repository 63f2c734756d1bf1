SPECIFICATION Spec
CONSTANTS
    M = 4
    PrimPoly <- MCPrimPoly
    Radii = {2, 3}
    Profiles <- MCProfiles
    RatePercent = 95
    RequiredBits = 12
    Seeds <- MCSeeds
    CodewordData <- MCCodewordData
    Responses <- MCResponses
    Noises <- MCNoises
    None = None
INVARIANTS
    TypeOK
    KeyReproduced
    BoundedDistance
CHECK_DEADLOCK FALSE
