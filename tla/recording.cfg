SPECIFICATION Spec
CONSTANTS
    Thread = {t1, t2}
    Words = {v, w}
    Query = {q}
    None = None
    Kept = 1
    MaxNow = 2
INVARIANTS TypeOK AnsweredIsRecorded WordsAreVouchedFor
PROPERTIES UnrecordedWasRecent HistoryKept
