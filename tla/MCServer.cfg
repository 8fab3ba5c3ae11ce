SPECIFICATION FairSpec
CONSTANTS
    Apps = {a1}
    Workers = {w1, w2}
    Entries = {e1, e2}
    None = None
INVARIANTS
    TypeOK
    HandlerScriptsLive
    ServerUseExclusive
    OnlyDoublePutDangles
    NoServerLeak
PROPERTY StopReturns
CHECK_DEADLOCK FALSE
