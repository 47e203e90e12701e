SPECIFICATION FairOpenSpec
CONSTANTS
    t1 = t1
    t2 = t2
    t3 = t3
    Tasks = {t1, t2, t3}
    FileOf <- MCFileOf
    DeletionVectors = {"file"}
    SharedCache = TRUE
    MayFail = {t1, t2}
    None = None
INVARIANTS
    OneCopyOfRows
    RepeatedLoadsExplained
PROPERTIES
    OpensEnd
