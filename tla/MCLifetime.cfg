SPECIFICATION OwnershipSpec
CONSTANTS
    Handles = {h1, h2}
    Requests = {r1, r2}
    Wrappers = {w1, w2, w3}
    None = None
INVARIANTS
    NoDangling
    CallbackSafe
    NoLeak
    NoStaleLoop
    OneDefault
    NoLoopLeak
PROPERTIES
    DestructorNeverBusy
    ImplementsContract
    ClosingIsReclaimed
CHECK_DEADLOCK FALSE
