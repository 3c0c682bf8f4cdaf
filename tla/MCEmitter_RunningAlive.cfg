SPECIFICATION Spec
CONSTANTS
    Types = {"error_event", "data", "end"}
    MaxListeners = 3
    MaxDepth = 2
INVARIANT RunningAlive
CHECK_DEADLOCK FALSE
