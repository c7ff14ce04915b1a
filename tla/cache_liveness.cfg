SPECIFICATION FairSpec
CONSTANTS
    Thread = {w, r}
    Warm = w
    None = None
    Ttl = 1
    Writes = TRUE
    FpFails = FALSE
    ShapesRecur = FALSE
    MaxVersion = 0
    MaxNow = 1
    MaxRelease = 0
PROPERTIES CallsReturn
