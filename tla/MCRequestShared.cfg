SPECIFICATION Spec
CONSTANTS
    Pool = {t1}
    Apps = {a1}
    h1 = h1
    s1 = s1
    c1 = c1
    b1 = b1
    Requests = {h1, c1, b1}
    Holders = {w1, w2}
    Kind <- SharedKind
    Scriptless = {b1}
    SharedRequests = TRUE
    None = None
SYMMETRY Interchangeable
INVARIANTS
    InductiveInvariant
    CommitPathSafe
    NobodyForgotten
PROPERTY OutcomeContractHolds
CHECK_DEADLOCK FALSE
