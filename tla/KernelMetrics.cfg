SPECIFICATION ScanSpec
CONSTANTS
    TargetPartitions = 3
    PartitionCapacity = 1
    PrefetchOption = 1
    OutputBuffer = 1
    MaxPermits = 8
    SkippedFiles = {}
    FileTasks <- TwoBatches
    Backend = "DeltaKernel"
    ScanLimit = 2
    FailingFiles <- AnyFile
    PanickingPartitions = {}
    NoLimit = NoLimit
    RowLimit = NoLimit
    BatchRows = 0
    MayFailFinalize = FALSE
    MayDrop = TRUE
INVARIANTS
    CompletedMeansRead
