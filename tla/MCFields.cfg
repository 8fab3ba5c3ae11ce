SPECIFICATION Spec
CONSTANTS
    Names = {"accept", "Accept", "host", "Host"}
    Lower <- LowerCase
    Discard = {"host"}
    Values = {"v", "w"}
    MaxFields = 3
INVARIANT
    MergedAsDescribed
CHECK_DEADLOCK FALSE
