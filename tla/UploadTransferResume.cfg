SPECIFICATION Spec
CONSTANTS
    h1 = h1
    r1 = r1
    r2 = r2
    Handlers = {h1}
    Flushers = {}
    Runs = {r1, r2}
    Total = 3
    Workers = 2
    FlushEvery = 2
    TailFits = FALSE
    Fates = {"dropped"}
    Env = {"pause"}
    NoRun = NoRun
    NoRequest = NoRequest
INVARIANT ResumesFromLastWritten
CHECK_DEADLOCK FALSE
