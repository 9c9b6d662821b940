SPECIFICATION FairSpec
CONSTANTS
    None = None
    Conns = {1, 2}
    StreamMethods = {"subscribe_events"}
    Cap = 1
    WireCap = 1
    MaxEvents = 3
    MaxPosts = 2
INVARIANTS TypeOK NoSendOnClosed EventsInOrder AnswersMatchRequests
PROPERTIES EveryEventIsBroadcast ShutdownEndsStreams EveryRequestEnds EveryMessageIsRead
CHECK_DEADLOCK FALSE
