SPECIFICATION Spec
CONSTANTS
    PKTS = 2
    Hash <- MCHash
    NTs = {1, 2}
    MAX_NFS = 4
    TypeOf <- MCTypeOf
    Handler <- MCHandler
    TX_CORES = 2
    PKT_RD_SIZE = 2
    NF_RING_SIZE = 2
    Env = {"kill", "churn", "block"}
INVARIANT TypeOK
 
INVARIANT RightType
CHECK_DEADLOCK FALSE
