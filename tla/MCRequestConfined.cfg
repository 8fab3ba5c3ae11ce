SPECIFICATION Spec
CONSTANTS
    Pool = {t1, t2}
    Apps = {a1}
    h1 = h1
    s1 = s1
    c1 = c1
    b1 = b1
    Requests = {h1, s1, b1}
    Holders = {w1, w2}
    Kind <- ScriptlessKind
    Scriptless = {b1}
    SharedRequests = FALSE
    None = None
SYMMETRY Interchangeable
INVARIANTS
    InductiveInvariant
    HandlesLive
    ExclusiveCheckout
    UnansweredOnlyByThrow
    ErrorReported
CHECK_DEADLOCK FALSE
