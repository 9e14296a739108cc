SPECIFICATION Spec
CONSTANTS
    h1 = h1
    f1 = f1
    r1 = r1
    r2 = r2
    Handlers = {h1}
    Flushers = {f1}
    Runs = {r1, r2}
    Total = 2
    Workers = 2
    FlushEvery = 2
    TailFits = TRUE
    Fates = {"dropped", "late", "cut"}
    Env = {"pause", "overlap", "giveup", "crash", "timeout", "delete"}
    NoRun = NoRun
    NoRequest = NoRequest
SYMMETRY Symmetry
INVARIANTS
    AvailableIsComplete
    RowNeverAhead
    OneCardEach
PROPERTIES
    CompletedIsFinal
CHECK_DEADLOCK FALSE
