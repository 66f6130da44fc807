SPECIFICATION Spec
CONSTANTS
    Configs <- SomeConfigs
    MaxRunning = 4
INVARIANT TypeOK
INVARIANT CallsMatch
INVARIANT MembersAgree
INVARIANT GroupsAreCoordinates
INVARIANT StartedOnFreshGroups
PROPERTY EveryoneStarts
