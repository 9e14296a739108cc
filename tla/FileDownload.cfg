SPECIFICATION FairSpec
CONSTANTS
    Threads = {d, r}
    Requesters = {r}
    Downloader = d
    MaxId = 2
    MaxPush = 1
    PushIds = {2}
    Total = 2
    NoId = NoId
    NoPacket = NoPacket
    NoThread = NoThread
INVARIANTS
    StreamedInOrder
    DownloaderWaits
    WaitsForSomething
PROPERTIES
    AnsweredInTime
CHECK_DEADLOCK FALSE
