SPECIFICATION Spec
CONSTANTS
    Sites <- MCSites
    DeduplicationKey <- MCDeduplicationKey
    RenameKey <- MCRenameKey
    Environment <- MCEnvironment
    CloudEvidence <- MCCloudEvidence
    Risks <- OneRisk
    Policies <- Defaults
    Scopes <- NoScopes
    WaiverNumbers = {1}
    MaxReadID = 999
    CutID = 100
    BaselineTerms <- NoTerms
    LastDay = 0
INVARIANT NewFindingBlocks
