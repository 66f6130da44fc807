SPECIFICATION Spec
CONSTANTS
    Configs <- SomeConfigs
INVARIANT TypeOK
INVARIANT GathersMatch
PROPERTY ImplementsPipe
PROPERTY EverybodyEnds
