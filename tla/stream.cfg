SPECIFICATION FairSpec
CONSTANTS
    Brokers = {"local", "redis"}
    Streams = {h1, h2}
    StoredForm = {h1, h2}
    RedisStreams = {h1}
    Readers = {h1}
    Main = main
    Tools = {t1, t2}
    Count <- MCCount
    BufferSize = 1
    InboxSize = 2
    main = main
    t1 = t1
    t2 = t2
INVARIANTS NoSendOnClosed SubscribersExact InOrder GapFree
PROPERTIES PublishersNeverWait EndIsSeen
CHECK_DEADLOCK FALSE
