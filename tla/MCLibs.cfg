SPECIFICATION LibsSpec
CONSTANTS
    Thread = {t1}
    Byte = {0, 1}
    Flags <- FlagSets
    LenMax = 4
    Lens = {2, 4}
    MAX_CHUNK = 2
    UINT = 256
    NULL = NULL
    DELETED = DELETED
CHECK_DEADLOCK FALSE
INVARIANTS ReadersAwake Durable BooksExact
PROPERTY ImplementsQueue
