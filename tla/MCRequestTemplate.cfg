SPECIFICATION Spec
CONSTANTS
    Pool = {t1}
    Apps = {a1}
    h1 = h1
    s1 = s1
    c1 = c1
    b1 = b1
    Requests = {h1, s1}
    Holders = {w1, w2}
    Kind <- AnswerableKind
    Scriptless = {}
    SharedRequests = FALSE
    None = None
INVARIANT NeverSilentlyDropped
CHECK_DEADLOCK FALSE
