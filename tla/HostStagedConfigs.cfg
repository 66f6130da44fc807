SPECIFICATION Spec
INVARIANT RefusedByAll
PROPERTY ImplementsCollective
PROPERTY ServedCallsReturn
