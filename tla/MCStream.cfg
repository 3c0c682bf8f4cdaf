SPECIFICATION FairSpec
CONSTANTS
    MaxWrites = 3
    Units = 2
INVARIANTS
    IInv
    DataOwned
PROPERTIES
    ImplementsChannel
    CloseAnswersAll
CHECK_DEADLOCK FALSE
