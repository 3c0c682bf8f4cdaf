SPECIFICATION Spec
CONSTANTS
    Wrappers = {w1, w2}
    None = None
INVARIANT
    DefaultIsInitialized
CHECK_DEADLOCK FALSE
