CONSTANTS
    Parts = {"c"}
    Suite = "shadow"
    Lengths = {1}
    Width = 4
SPECIFICATION Spec
INVARIANTS
    CMatchesSource
