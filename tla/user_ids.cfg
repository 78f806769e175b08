SPECIFICATION FairSpec
CONSTANTS
    i1 = i1
    i2 = i2
    i3 = i3
    NULL = NULL
    Infos = {i1, i2}
    NTs = {1}
    MAX_NFS = 3
    MAX_NFS_PER_NT = 2
    MAX_SHUTDOWN_ITERS = 1
    NEW_MSG_RING_CAP = 2
    SCALE_Q_BOUND = 0
    BLOCK_BOUND = 0
    UserIds = {1, 4}
    Env = {"kill", "overrun"}
 
PROPERTY Answers
CHECK_DEADLOCK FALSE
