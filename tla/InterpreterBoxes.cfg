CONSTANTS
    Parts = {"interp"}
    Suite = "boxes"
    Lengths = {1}
    Width = 4
SPECIFICATION Spec
INVARIANTS
    ExecMatchesSource
