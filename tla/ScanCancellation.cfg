SPECIFICATION FairCancellationSpec
CONSTANTS
    Waiters = {w1, w2, w3}
    Cancellers = {c1, c2}
PROPERTIES
    EveryWaitReturns
