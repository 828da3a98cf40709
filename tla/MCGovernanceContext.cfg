SPECIFICATION Spec
CONSTANTS
    Sites <- MCSites
    DeduplicationKey <- ContextDeduplicationKey
    RenameKey <- MCRenameKey
    Environment <- MCEnvironment
    CloudEvidence <- ContextCloudEvidence
    Risks <- ContextRisks
    Policies <- ContextPolicies
    Scopes <- ContextScopes
    WaiverNumbers <- ContextWaiverNumbers
    MaxReadID = 999
    CutID = 100
    BaselineTerms <- MCBaselineTerms
    LastDay = 1
INVARIANTS
    NoRiskPassesUnaccounted
    TimeNeverRelaxes
