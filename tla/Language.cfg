CONSTANTS
    Parts = {"interp", "c", "table"}
    Suite = "language"
    Lengths = {1, 2}
    Width = 4
SPECIFICATION Spec
INVARIANTS
    ExecMatchesSource
    CMatchesSource
    IsTheMap
    WalkSound
PROPERTIES
    Terminates
