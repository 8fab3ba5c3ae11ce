SPECIFICATION FairSpec
CONSTANTS
    MaxLength = 7
    BufSize = 2
    Short = Short
    Rests <- SomeRests
    Files <- SomeFiles
    ZipPrefix <- SomePrefix
    ZipEntries <- SomeEntries
    Loadable <- SomeLoadable
    MimeTypes <- SomeTypes
INVARIANTS
    StartTypeOK
    WireIsPrefix
    CompleteOrClosed
    ToldAtTheEnd
    StaticAnswered
    TempFileRemoved
PROPERTIES
    ResponseEnds
CHECK_DEADLOCK FALSE
