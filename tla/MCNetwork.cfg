SPECIFICATION Spec
CONSTANTS
    MaxConns = 2
    MaxChunks = 2
    MaxSends = 2
    MaxGrams = 2
    RecvMmsg = FALSE
    Handles = {h1, h2}
    Words = {a}
    Lows = {a, b}
    Digits = 2
    V6Text = FALSE
    h1 = h1
    h2 = h2
    a = a
    b = b
INVARIANTS
    IInv
    ReadEventsTrue
    DatagramsAccounted
    AddressesTrue
PROPERTIES
    AcceptGuaranteed
CHECK_DEADLOCK FALSE
