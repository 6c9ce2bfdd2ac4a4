SPECIFICATION MCSpec
CONSTANTS
    Parts = {"turn"}
    None = None
    Client = {c1, c2}
    Namespace = {n1, n2}
    Text = {t1, t2}
    Rest = {p1}
    MaxEntries = 2
    TTL = 1
    short = short
    long = long
    a1 = a1
    a2 = a2
    AliasWriter = {short, long}
    Update <- Updates
    LongText = {long}
    ConfiguredAliases = {a1}
    MaxRestarts = 1
    HomeId = {u1, u2}
    MaxHomes = 4
    MaxHomeFaults = 1
    Captured = {q1, q2, q3, q4}
    MaxRecords = 2
    Caller = {g1, g2, g3}
    NoClient = none
    Mode = "cli"
    TurnRequest <- ForcedRequests
    Limited = {}
    Content <- Contents
    PlainContent <- PlainContents
    EventUsage <- Usages
    CallId <- CallIds
    MaxTurnEvents = 3
    Unset = Unset
    Rune = {x, y}
    MaxRunes = 3
    ChunkSize = 2
    MaxCalls = 2
    Nothing = Nothing
    MaxTurns = 3
    MaxPieces = 5
    ToolName = {find}
    Nobody = Nobody
    Refused = Refused
INVARIANTS SchemaReachesModel
CHECK_DEADLOCK FALSE
