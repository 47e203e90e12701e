SPECIFICATION FairDFSpec
CONSTANTS
    TargetPartitions = 2
    PartitionCapacity = 2
    PrefetchOption = 1
    OutputBuffer = 1
    MaxPermits = 8
    SkippedFiles <- SecondSkips
    FileTasks <- KernelFiles
    Backend = "DeltaKernel"
    ScanLimit = 1
    FailingFiles <- KernelFails
    PanickingPartitions = {1}
    DroppingPartitions = {2}
    FailingProjections = {2}
INVARIANTS
    PartitionComplete
    FailuresStayLocal
PROPERTIES
    SiblingsProgress
