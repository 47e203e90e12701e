SPECIFICATION FairScanSpec
CONSTANTS
    TargetPartitions = 3
    PartitionCapacity = 2
    PrefetchOption = 1
    OutputBuffer = 1
    MaxPermits = 8
    SkippedFiles = {}
    FileTasks <- FrontAndPrefetching
    Backend = "Direct"
    ScanLimit = 2
    FailingFiles <- AnyFile
    PanickingPartitions = {1, 2, 3}
    NoLimit = NoLimit
    RowLimit = NoLimit
    BatchRows = 0
    MayFailFinalize = TRUE
    MayDrop = TRUE
INVARIANTS
    ScanPermitsSuffice
    SlotsInUse
    EarlierFileReadsFirst
    CompletedMeansRead
PROPERTIES
    ImplementsOrderedMerger
    ImplementsScanContract
    ScanEnds
