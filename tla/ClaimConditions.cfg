SPECIFICATION Spec
CONSTANTS
    Addresses <- MCAddresses
    SensitiveConfig = {}
    Keys <- MCKeys
    Dotted <- MCDotted
    NamedSensitive = {"db", "secret"}
    ActionNodes <- MCActionNodes
    Custom = {}
    Catalog <- MCCatalog
    Scenarios <- ConditionalScenarios
    Thresholds <- MCThresholds
    Disabled = {}
    MaxDepth = 12
    MaxPaths = 5
INVARIANTS
    ConditionalIsNeverCertain
