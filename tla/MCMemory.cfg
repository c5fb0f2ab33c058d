SPECIFICATION MemorySpec
CONSTANTS
    Thread = {t1, t2}
    NULL = NULL
    Arenas <- TwoArenas
    VA = 8
    KERNEL = KERNEL
    User = {u1}
    KernelRange <- UpperHalf
    UserRange <- TwoPages
    Sizes = {1, 2}
    Alignments = {2}
    MaxRegions = 3
    Spots = {7}
    Device = 9
SYMMETRY MemorySymmetry
CHECK_DEADLOCK FALSE
INVARIANTS VmSound ArenasSound
