SPECIFICATION Spec
CONSTANTS
    MaxSize = 2
INVARIANT NeverReportsDropped
