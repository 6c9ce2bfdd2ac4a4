SPECIFICATION FairSpec
CONSTANTS
    None = None
    Tool = {t1, t2, web}
    Internal = {web}
    MaxEvents = 1
    MaxTools = 2
PROPERTIES TurnEnds
CHECK_DEADLOCK FALSE
