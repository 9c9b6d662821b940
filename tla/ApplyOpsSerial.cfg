SPECIFICATION FairSpec
CONSTANTS
    Nil = Nil
    h1 = h1
    h2 = h2
    Handlers = {h1}
    Titles <- Names
    WebUrls <- Web
    OtherUrls <- Other
    Batches <- SerialBatches
    InitialTrees <- Trees
    FirstId <- First
    DriverForeignKeys = FALSE
    MaxIdle = 2
    Stuck = Stuck
    MaxRequests = 3
INVARIANTS TreeIsRooted
PROPERTIES SerialService EveryRequestEnds
