SPECIFICATION Spec
CONSTANTS
    Reqs = {q1}
    Fds = {f1, f2}
    None = None
    KeepReference = FALSE
INVARIANT
    PendingAlive
CHECK_DEADLOCK FALSE
