SPECIFICATION Spec
CONSTANTS
    u1 = u1
    w1 = w1
    w2 = w2
    loop = loop
    githubToken = githubToken
    Id = {u1}
    Configured = {u1}
    Token = {t1, t2, githubToken}
    Worker = {w1, w2}
    Refresher = loop
    Scenes <- AllScenes
    MaxFaults = 1
INVARIANTS PooledBackendUsable LeakNeedsOverlap LogoutTakesTheToken VaultAheadOfMemory
PROPERTIES IndexConverges
CHECK_DEADLOCK FALSE
