SPECIFICATION FileRowsSpec
CONSTANTS
    MaxBytes = 12
    NotSet = NotSet
    Whole = Whole
    Null = Null
    NegNaN = 0
    PosNaN = 9
    CastMax = 2
    RowsPerIndex = 2
    NoVector = NoVector
    Unparsed = Unparsed
    Inputs <- MCInputs
INVARIANTS
    RowsReturnedOnce
    PlanTilesFiles
    CorruptionReported
