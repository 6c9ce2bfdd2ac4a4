SPECIFICATION FairSpec
CONSTANTS
    a1 = a1  a1b = a1b  a2 = a2  r1 = r1  r2 = r2  x1 = x1  x2 = x2
    None = None
    Account <- ReAdded
    InitialPool <- TwoAccounts
    Id = {x1, x2}
    IdOf <- Ids
    MaxConcurrency <- OneSlotEach
    AccountRPM = 0
    GlobalRPM = 0
    RateSettings = {}
    Administered = {a1, a1b}
    ShortBackoff = 1
    LongBackoff = 1
    MaxBackoff = 0
    Request = {r1, r2}
    Kind <- ChatAndEmbeddings
    MaxPolls = 1
INVARIANTS InFlightBounded FailoverMovesOn
PROPERTIES EveryRequestAnswered WithdrawnAccountDrains ImplementsSlotPool
