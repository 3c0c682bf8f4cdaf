SPECIFICATION HostSpec
CONSTANTS
    WorkReqs = {w}
    AddrReqs = {a}
    PoolSize = 1
    MaxQueued = 3
    MaxLists = 2
    Rejects = FALSE
    Wrappers = {u1, u2}
    MaxRuns = 2
    Careful = TRUE
    Callers = {t1, t2, t3}
    MaxDepth = 2
    Value = 1
    MaxPosts = 1
    Functions = {f}
    Count = 2
    MaxRounds = 6
    w = w
    a = a
    u1 = u1
    u2 = u2
    t1 = t1
    t2 = t2
    t3 = t3
    f = f
    Fds = {std_in, std_out}
    Streams = {pipe}
    StdioFlags = {inherit, ignore}
    MaxStdio = 3
    Handles = {h1, h2}
    Modes = {"normal", "raw"}
    MaxMemos = 2
    Size = 2
    MaxLen = 4
    MaxCalls = 2
    std_in = std_in
    std_out = std_out
    pipe = pipe
    inherit = inherit
    ignore = ignore
    h1 = h1
    h2 = h2
INVARIANTS
    IInv
    SystemIInv
    PoolSafe
    ThreadSafe
    PrimitivesSafe
    TerminalSafe
    ReadsSafe
PROPERTIES
    ProcessSafe
    CallsAnswered
CHECK_DEADLOCK FALSE
