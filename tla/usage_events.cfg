SPECIFICATION FairSpec
CONSTANTS
    Event = {e1, e2, e3, e4}
    BufferSize = 2
    BatchSize = 2
INVARIANTS EventsConserved PostedAtMostOnce CloseFlushes PostedWasOffered
PROPERTIES ShutdownEnds
CHECK_DEADLOCK FALSE
