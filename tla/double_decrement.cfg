SPECIFICATION Spec
CONSTANTS
    i1 = i1
    i2 = i2
    i3 = i3
    NULL = NULL
    Infos = {i1, i2, i3}
    NTs = {1}
    MAX_NFS = 4
    MAX_NFS_PER_NT = 3
    MAX_SHUTDOWN_ITERS = 1
    NEW_MSG_RING_CAP = 3
    SCALE_Q_BOUND = 1
    BLOCK_BOUND = 2
    UserIds = {}
    Env = {"scale"}
INVARIANT AvailableCount
SYMMETRY Symmetry
CHECK_DEADLOCK FALSE
