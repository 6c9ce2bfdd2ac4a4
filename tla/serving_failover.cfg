SPECIFICATION Spec
CONSTANTS
    a1 = a1  a1b = a1b  a2 = a2  r1 = r1  r2 = r2  x1 = x1  x2 = x2
    None = None
    Account <- TwoAccounts
    InitialPool <- TwoAccounts
    Id = {x1, x2}
    IdOf <- Ids
    MaxConcurrency <- OneSlotEach
    AccountRPM = 1
    GlobalRPM = 1
    RateSettings = {0}
    Administered = {}
    ShortBackoff = 1
    LongBackoff = 2
    MaxBackoff = 1
    Request = {r1, r2}
    Kind <- ChatAndEmbeddings
    MaxPolls = 1
INVARIANTS TypeOK SlotsAccounted
