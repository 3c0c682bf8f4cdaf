SPECIFICATION Spec
CONSTANTS
    MaxSends = 2
    MaxGrams = 2
    RecvMmsg = TRUE
INVARIANTS
    BufferFreedOnce
CHECK_DEADLOCK FALSE
