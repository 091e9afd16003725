SPECIFICATION Spec
CONSTANTS
    Handlers = {h1, h2}
    Tries = 2
    Versions = {v1, v2}
    MaxClock = 1
    MaxOps = 3
SYMMETRY Symmetry
INVARIANTS
    Mirrored
    Intact
PROPERTIES
    ReadingReal
