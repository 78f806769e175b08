SPECIFICATION FairSpec
CONSTANTS
    m1 = m1
    m2 = m2
    Mbufs = {m1, m2}
    Types = {1, 2}
    PKT_RD_SIZE = 2
    D2SC_MAX_SC_LEN = 6
    Additions <- MCAdditions
INVARIANT TypeOK
INVARIANT InChainOrder
PROPERTY Leaves
CHECK_DEADLOCK FALSE
