SPECIFICATION Spec
CONSTANTS
    Signals = {1, 2}
    MaxRaised = 3
    MaxStarts = 3
INVARIANT OneShotResets
CHECK_DEADLOCK FALSE
