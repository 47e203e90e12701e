CONSTANTS
    Reads = {r1, r2, r3}
    Times = {0, 1, 2, 11, 12}
    Skews <- MCSkews
    Lifetimes = {1, 12}
    MarginCap = 1
SPECIFICATION CacheSpec
PROPERTIES
    HandedValid
    FailureFinal
    Coalesced
    EveryReadReturns
CHECK_DEADLOCK FALSE
