SPECIFICATION Spec
CONSTANTS
    a1 = a1  s1 = s1  s2 = s2  x1 = x1  k1 = k1  k2 = k2
    None = None
    Account = {a1}
    InitialPool = {a1}
    Id = {x1}
    IdOf <- Ids
    MaxConcurrency <- TwoSlots
    AccountRPM = 0
    GlobalRPM = 0
    RateSettings = {}
    Administered = {a1}
    ShortBackoff = 1
    LongBackoff = 2
    MaxBackoff = 0
    Stream = {s1, s2}
    Handler <- ChatAndResponses
    Key = {k1}
    KeyOf <- SharedKey
    MaxDeltas = 1
INVARIANTS SlotFreedOnExit
