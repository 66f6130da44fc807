\* The protocol terminates or hangs: CountReturns says which.
SPECIFICATION Spec
CHECK_DEADLOCK FALSE
CONSTANTS
    WorldSize = 2
    Placements <- OneNode
    ShmFaults = {"create"}
PROPERTY CountReturns
