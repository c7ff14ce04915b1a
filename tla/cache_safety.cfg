SPECIFICATION Spec
CONSTANTS
    Thread = {w, r}
    Warm = w
    None = None
    Ttl = 1
    Writes = TRUE
    FpFails = TRUE
    ShapesRecur = FALSE
    MaxVersion = 1
    MaxNow = 1
    MaxRelease = 1
INVARIANTS TypeOK NoSilentDrift OneHydration
PROPERTIES OwnAnalysisStays EvictsOnlyExpired
