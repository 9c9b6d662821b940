SPECIFICATION FairSpec
CONSTANTS
    h1 = h1
    h2 = h2
    Handlers = {h1}
    MaxVersion = 5
    MaxRestarts = 2
INVARIANTS TypeOK CommitsCoherent CommittedIsInHistory SnapshotCurrent
PROPERTIES KeepsJournal HistoryKept EveryRequestEnds
CHECK_DEADLOCK FALSE
