SPECIFICATION Spec
CONSTANTS
    Threads = {t1, t2}
    Paths = {p1, p2}
    MaxVersion = 2
    None = None
INVARIANTS
    TypeOK
    RenderedTextStable
PROPERTIES
    GetReturns
    ImplementsStore
CHECK_DEADLOCK FALSE
