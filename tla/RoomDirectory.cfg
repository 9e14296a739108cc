SPECIFICATION Spec
CONSTANTS
    Handlers = {h, k, l}
    Names = {a}
    N = 3
    Loads <- MCLoads
    Bounds <- MCBounds
    NoHandler = NoHandler
    NoName = NoName
    NoServer = NoServer
    NoLoad = NoLoad
SYMMETRY Symmetry
INVARIANTS
    TablesAgree
    ChoiceIsJustified
PROPERTY ImplementsDirectory
CHECK_DEADLOCK FALSE
