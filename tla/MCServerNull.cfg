SPECIFICATION Spec
CONSTANTS
    Apps = {a1, a2}
    Workers = {w1}
    Entries = {e1}
    None = None
INVARIANT NoNullEntry
CHECK_DEADLOCK FALSE
