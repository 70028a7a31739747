CONSTANTS
    Parts = {"event", "frame", "net", "client", "server", "objects"}
    Events = {"e1", "e2"}
    Funcs = {"f", "g"}
    Callable = {"f"}
    MaxSubs = 3
    MaxDepth = 2
    PoolSize = 2
    MaxRetries = 1
    MaxLeases = 2
    MaxWork = 2
    HasPassword = TRUE
    HasDb = FALSE
    MaxCmds = 3
    MayThrow = TRUE
    MaxSlots = 1
    MaxConns = 2
    MaxMsgs = 2
    MaxPending = 2
    MaxCalls = 1
    Responses <- MCResponses
    Requests <- MCRequests
    MaxHead = 6
    MaxBody = 3
    MaxOps = 2
    MaxAccepted = 2
    Groups = {1}
    Ids <- MCIds
    GlobalKeys = {}
    Fields = {"a", "b"}
    FieldValues = {1, 2}
    MaxObjects = 1
    MaxShells = 2
    MaxFrames = 2
    Framers = {"be4", "le4", "be2", "le2", "line", "fixed", "raw", "custom", "ws_client", "ws_server"}
    Payloads <- MCPayloads
    Base = 2
    SendCap = 7
    RecvCap = 7
    MaxPacket = 3
    FixedLen = 2
    WsShort = 2
    WsMax = 3
    MaxSends = 3
SPECIFICATION Spec
INVARIANTS
    StreamsIntact
    EventsSound
    TickSound
    AnsweredOnce
    SnapshotFresh
    OnceRunsOnce
PROPERTIES
    FlowKept
    ClientsAnswered
CHECK_DEADLOCK FALSE
