SPECIFICATION Spec
CONSTANTS
    Full = 2
    Request = {r1, r2}
    Deployments = {"local", "public", "governed"}
    Headers <- MCHeaders
    Texts <- MCTexts
    Capacity = 1
    SessionTtl = 0
    MaxNow = 1
    MaxArrivals = 3
INVARIANTS TypeOK AnsweredAsRecorded RefusalsCostNothing AnswerIsAcceptable OneEnvDefault
SYMMETRY Symmetry
CHECK_DEADLOCK FALSE
