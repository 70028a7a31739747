CONSTANTS
    Parts = {"allocator", "heaps", "calls", "registry"}
    BLOCK_SIZE = 8
    ALIGN = 4
    Sizes <- MCSizes
    MaxAllocs = 5
    MaxBlocks = 3
    u1 = u1
    u2 = u2
    u3 = u3
    v1 = v1
    v2 = v2
    Units = {u1, u2, u3}
    Jit = {u1}
    Values = {v1, v2}
    Hosts = {"TCC", "GCC", "INTERP"}
    Foreign = {}
    Callbacks = {"TCC"}
    MaxFrames = 4
    MaxStack = 14
    Files <- MCFiles
    Plans <- MCPlans
    MaxCodes = 4
    MaxRuns = 3
    Flavors <- AllFlavors
SPECIFICATION MCSpec
SYMMETRY Perms
INVARIANTS
    AllocationsSound
    GlobalsSurvive
    LocalsSurvive
    ScopesExact
    DispatchExact
    NoTerminate
    CodeAlive
PROPERTIES
    ImplementsArena
    LongjmpCrossesOnlyC
