SPECIFICATION Spec
CONSTANTS
    Nil = Nil
    h1 = h1
    h2 = h2
    Handlers = {h1, h2}
    Titles <- Names
    WebUrls <- Web
    OtherUrls <- Other
    Batches <- RaceBatches
    InitialTrees <- Trees
    FirstId <- First
    DriverForeignKeys = TRUE
    MaxIdle = 2
    Stuck = Stuck
    MaxRequests = 3
INVARIANTS NoCycle
