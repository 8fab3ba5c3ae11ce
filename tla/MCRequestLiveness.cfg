SPECIFICATION FairSpec
CONSTANTS
    Pool = {t1}
    Apps = {a1}
    h1 = h1
    s1 = s1
    c1 = c1
    b1 = b1
    Requests = {h1, s1, c1, b1}
    Holders = {w1, w2}
    Kind <- MixedKind
    Scriptless = {b1}
    SharedRequests = FALSE
    None = None
PROPERTIES
    EventuallySettled
    ResponseContractHolds
CHECK_DEADLOCK FALSE
