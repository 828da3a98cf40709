SPECIFICATION Spec
CONSTANTS
    Sites <- MCSites
    DeduplicationKey <- MCKey
    RenameKey <- MCKey
    CategoryKey <- MCCategoryKey
    Environment <- MCEnvironment
    CloudEvidence <- MCCloudEvidence
    Scopes <- MCScopes
    WaiverNumbers <- MCWaiverNumbers
    MaxReadID = 999
    CutID = 100
    LastDay = 2
    Commands = {c1}
    Requests <- MCRequests
    Repositories <- MCRepositories
    Risks <- MCRisks
    Policies <- MCPolicies
    MaxEdits = 1
CHECK_DEADLOCK FALSE
INVARIANTS
    UndisturbedScanIsAtomic
    ExitTellsTheVerdict
    VerdictIsOfWholePlans
    DisturbedScanIsNoLaxer
    ImportsOnlyAdd
