SPECIFICATION FairSpec
CONSTANTS
    Commanders = {"h1", "h2"}
    Writers = {"u1"}
    Bufs = {"p1", "p2"}
    MaxCopies = 2
    PipeCap = 1
    BufSize = 10
    Sizes = {0, 10, 11}
INVARIANTS
    TypeOK
    CommandsFaithful
PROPERTIES
    CommandsEnd
