SPECIFICATION FairSpec
CONSTANTS
    h1 = h1
    f1 = f1
    r1 = r1
    r2 = r2
    Handlers = {h1}
    Flushers = {f1}
    Runs = {r1, r2}
    Total = 2
    Workers = 2
    FlushEvery = 2
    TailFits = TRUE
    Fates = {"late", "cut"}
    Env = {"pause", "overlap"}
    NoRun = NoRun
    NoRequest = NoRequest
PROPERTIES
    UploadEnds
    UploadSucceeds
CHECK_DEADLOCK FALSE
