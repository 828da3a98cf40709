SPECIFICATION Spec
CONSTANTS
    Sites <- MCSites
    DeduplicationKey <- MCDeduplicationKey
    RenameKey <- MCRenameKey
    Environment <- MCEnvironment
    CloudEvidence <- MCCloudEvidence
    Risks <- MCRisks
    Policies <- MCPolicies
    Scopes <- MCScopes
    WaiverNumbers <- MCWaiverNumbers
    MaxReadID = 2
    CutID = 1
    BaselineTerms <- MCBaselineTerms
    LastDay = 1
INVARIANTS
    WaiverIDsAreUnique
    NoRiskPassesUnaccounted
    ExistingRiskIsNoWorse
    LapsedWaiverIsEnforced
    WorsenedRiskIsReported
    PruningIsNeutral
    TimeNeverRelaxes
    FreshBaselineAccepts
