\* The protocol terminates; that it does so only when every rank has its count, or a
\* segment could not be created, is what CountReturnsOrNoSegment says.
SPECIFICATION Spec
CHECK_DEADLOCK FALSE
CONSTANTS
    WorldSize = 3
    Placements <- AnyPlacement
    ShmFaults = {"create", "open"}
INVARIANT TypeOK
INVARIANT CallsMatch
INVARIANT NodeMapsAgree
INVARIANT NeverMerges
INVARIANT NodeCountExact
INVARIANT NoSegmentLeft
PROPERTY UnlinkedOnce
PROPERTY CountReturnsOrNoSegment
