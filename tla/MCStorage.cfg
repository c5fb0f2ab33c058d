SPECIFICATION StorageSpec
CONSTANTS
    Thread = {t1, t2, t3}
    Publisher = {t1}
    DISK = DISK
    Sub = {s1, s2}
    Partition = {p0}
    FsMount = {m1, m2}
    Block = {b1, b2}
    Num = {n1, n2, n3}
    NULL = NULL
CHECK_DEADLOCK FALSE
INVARIANTS ReferencesCounted TransfersExact NamesFound NoUpdateLost FilesKept
