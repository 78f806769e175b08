SPECIFICATION Spec
CONSTANTS
    i1 = i1
    i2 = i2
    i3 = i3
    NULL = NULL
    Infos = {i1, i2, i3}
    NTs = {1}
    MAX_NFS = 4
    MAX_NFS_PER_NT = 3
    MAX_SHUTDOWN_ITERS = 1
    NEW_MSG_RING_CAP = 1
    SCALE_Q_BOUND = 0
    BLOCK_BOUND = 0
    UserIds = {}
    Env = {"abort", "shutdown", "kill"}
INVARIANT ListSound
INVARIANT OwnershipInv
SYMMETRY Symmetry
CHECK_DEADLOCK FALSE
