SPECIFICATION Spec
CONSTANTS
    Roots <- SomeRoots
    AliasMaps <- SomeAliases
    MaxDepth = 6
    ApplyInheritance <- ApplyFtInheritance
INVARIANTS
    OnlyCyclesRefused
    ResolvedAreComplete
    EffectiveIsMeaning
CHECK_DEADLOCK FALSE
