CONSTANTS
    Delays = {0, 1}
    Intervals = {1, 2}
    Callbacks = {"tick", "gone"}
    Callable = {"tick"}
    NoName = "none"
    Capacity = 2
    MaxId = 2
    MaxBeats = 2
    MaxTime = 3
SPECIFICATION MCSpec
INVARIANTS
    CallbacksMatch
    HeartbeatRate
    NoBurst
PROPERTIES
    RunsOnceUnlessDeleted
    EveryTimerRuns
    ImplementsQueue
