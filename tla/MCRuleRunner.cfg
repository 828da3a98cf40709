SPECIFICATION FairSpec
CONSTANTS
    Rules <- MCRules
    Deprecated <- MCDeprecated
    Experimental <- MCExperimental
    FailClosed <- MCFailClosed
    Selections <- MCSelections
    Parallelism = 2
INVARIANTS
    TypeOK
    EachRuleOnce
    NoSendOnClosedChannel
    PublishNeverBlocks
    Deterministic
    IncompleteOnlyIfCancelled
PROPERTIES
    Terminates
    ImplementsRuleEvaluation
