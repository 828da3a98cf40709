SPECIFICATION Spec
CONSTANTS
    Addresses <- MCAddresses
    SensitiveConfig = {}
    Keys <- MCKeys
    Dotted <- MCDotted
    NamedSensitive = {"db", "secret"}
    ActionNodes <- MCActionNodes
    Catalog <- MCCatalog
    Custom <- MCCustom
    Scenarios <- MCScenarios
    Thresholds <- MCThresholds
    Disabled = {}
    MaxDepth = 12
    MaxPaths = 5
INVARIANTS
    BlockedPathsAreCertain
    CertainWaysAreBlocked
    ContextNeverSilences
    CertainGrantsAreGranted
PROPERTIES
    ContextOnlyAdds
