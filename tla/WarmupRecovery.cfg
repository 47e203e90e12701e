SPECIFICATION FairSpec
CONSTANTS
    Scans = {s1, s2, s3, s4, s5}
    Supported = {s1, s2, s3, s5}
    Filtered = {s1, s2, s3, s4}
    Adapter = {s3, s4}
INVARIANTS
    ProfileCurrent
PROPERTIES
    PlanningEnds
