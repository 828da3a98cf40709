SPECIFICATION Spec
CONSTANTS
    Objects <- MCObjects
    RegionNames <- MCRegionNames
    EnabledRegions <- MCEnabledRegions
    Requests <- MCRequests
    Volatile <- MCVolatile
    MaxChanges = 1
    MaxFaults = 1
INVARIANTS
    NoSilentGaps
    NoSilentExposure
    SensitivityOutlivesRedaction
    SnapshotWasTrue
    PublicRouteMarksSubnet
CHECK_DEADLOCK FALSE
