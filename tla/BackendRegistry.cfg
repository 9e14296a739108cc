SPECIFICATION FairSpec

CONSTANTS
    Servers = {s1, s2}
    MaxBeats = 1
    NoEntry = NoEntry

INVARIANT DownIsWritten
PROPERTY KnownDeadIsDown
PROPERTY BeatingComesBack
