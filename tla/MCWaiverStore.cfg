SPECIFICATION StoreSpec
CONSTANTS
    Sites <- MCSites
    DeduplicationKey <- MCKey
    RenameKey <- MCKey
    Environment <- MCEnvironment
    CloudEvidence = {}
    Scopes <- MCScopes
    WaiverNumbers <- MCWaiverNumbers
    MaxReadID = 999
    CutID = 100
    LastDay = 1
    Commands = {c1, c2, c3}
SYMMETRY Symmetry
CHECK_DEADLOCK FALSE
INVARIANTS
    ReportedWaiversStay
PROPERTIES
    DamageIsNotCoveredUp
