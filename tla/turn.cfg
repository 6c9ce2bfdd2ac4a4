SPECIFICATION FairSpec
CONSTANTS
    None = None
    Tool = {t1, t2, web}
    Internal = {web}
    MaxEvents = 2
    MaxTools = 2
INVARIANTS PanicOnlyAfterCancelOrSendError
PROPERTIES ImplementsItemStream NobodyStaysBlocked
CHECK_DEADLOCK FALSE
