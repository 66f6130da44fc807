SPECIFICATION Spec
CONSTANTS
    Calls <- SomeCalls
INVARIANT WellShaped
INVARIANT GathersAreConcatenations
INVARIANT ScattersAreShares
INVARIANT FakeShapesAgree
