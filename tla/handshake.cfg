SPECIFICATION FairSpec
CONSTANTS
    i1 = i1
    i2 = i2
    i3 = i3
    NULL = NULL
    Infos = {i1, i2}
    NTs = {1}
    MAX_NFS = 3
    MAX_NFS_PER_NT = 2
    MAX_SHUTDOWN_ITERS = 1
    NEW_MSG_RING_CAP = 2
    SCALE_Q_BOUND = 2
    BLOCK_BOUND = 2
    UserIds = {}
    Env = {"scale"}
INVARIANT BlockAnswered
INVARIANT BlockedReachable
 
 
INVARIANT OwnershipInv
PROPERTY TypeRecovers
CHECK_DEADLOCK FALSE
