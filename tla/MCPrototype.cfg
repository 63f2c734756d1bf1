SPECIFICATION Spec
CONSTANTS
    u1 = u1
    u2 = u2
    Uav = {u1, u2}
    Gs = Gs
    None = None
    NumCrps = 2
    MaxRuns <- MCMaxRuns
    Persisting <- MCPersisting
    MaxCrashes = 1
INVARIANTS
    TypeOK
    IdentitiesInStep
    PoolPaysForRotations
PROPERTY
    WaitsOnlyForTheVanished
CHECK_DEADLOCK FALSE
