SPECIFICATION Spec
CONSTANTS
    Nil = Nil
    h1 = h1
    h2 = h2
    Handlers = {h1, h2}
    Titles <- Names
    WebUrls <- Web
    OtherUrls <- Other
    Batches <- RaceBatches
    InitialTrees <- Trees
    FirstId <- First
    DriverForeignKeys = FALSE
    MaxIdle = 1
    Stuck = Stuck
    MaxRequests = 3
SYMMETRY Symm
INVARIANTS TypeOK LockAccounted RootImmutable ParentsAreFolders UrlsFollowKind SpinOnlyOnCycle
PROPERTIES AtomicService
