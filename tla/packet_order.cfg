SPECIFICATION FairSpec
CONSTANTS
    PKTS = 2
    Hash <- OneFlow
    NTs = {1, 2}
    MAX_NFS = 4
    TypeOf <- MCTypeOf
    Handler <- MCHandler
    TX_CORES = 2
    PKT_RD_SIZE = 2
    NF_RING_SIZE = 3
    Env = {"signal"}
INVARIANT InOrder
 
CHECK_DEADLOCK FALSE
