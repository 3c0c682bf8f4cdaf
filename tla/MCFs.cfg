SPECIFICATION FsSpec
CONSTANTS
    Reqs = {q1, q2}
    Fds = {f1, f2, f3}
    None = None
    KeepReference = TRUE
    MaxEntries = 5
INVARIANTS
    OwnsFile
    NoForeignFd
    BufferAlive
    DirReachable
    EventEntryValid
PROPERTIES
    Answered
CHECK_DEADLOCK FALSE
