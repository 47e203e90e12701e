SPECIFICATION FairScanSpec
CONSTANTS
    TargetPartitions = 3
    PartitionCapacity = 2
    PrefetchOption = 1
    OutputBuffer = 1
    MaxPermits = 8
    SkippedFiles = {}
    FileTasks <- TwoBatches
    Backend = "DeltaKernel"
    ScanLimit = 1
    FailingFiles <- AnyFile
    PanickingPartitions = {1, 2}
    NoLimit = NoLimit
    RowLimit = 2
    BatchRows = 2
    MayFailFinalize = FALSE
    MayDrop = TRUE
INVARIANTS
    ReadLimits
    LimitRespected
PROPERTIES
    SlotsComeBack
