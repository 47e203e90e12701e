SPECIFICATION Spec
INVARIANTS
    ReportTellsPublication
    SuccessIsComplete
    ManifestVouches
    OneTerminalRecord
PROPERTIES
    NeverReplaced
    Interruptible
CHECK_DEADLOCK FALSE
