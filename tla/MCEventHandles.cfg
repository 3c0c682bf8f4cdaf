SPECIFICATION FairSpec
CONSTANTS
    Idles = {idle}
    Prepares = {prepare}
    Checks = {check1, check2}
    Asyncs = {async}
    Made = {{}, {idle, prepare}, {idle, check1}, {prepare, check1},
            {check1, check2}, {idle, async}, {check1, async}}
    MaxPosts = 2
    Timers = {timer1, timer2}
    Delays = {0, 1}
    MaxTime = 2
    Signals = {1, 2}
    MaxRaised = 3
    MaxStarts = 3
    Flags = {readable, writable, disconnect}
    idle = idle
    prepare = prepare
    check1 = check1
    check2 = check2
    async = async
    timer1 = timer1
    timer2 = timer2
    readable = readable
    writable = writable
    disconnect = disconnect
INVARIANTS
    IInv
    SignalEventsTrue
PROPERTIES
    TurnsServed
    SendWakes
    TimersOnTime
    OnlyWhatWasAsked
CHECK_DEADLOCK FALSE
