SPECIFICATION FairSpec
CONSTANTS
    Nfs = {1, 2, 4}
    NUM_NTS = 2
    TypeOf <- MCTypeOf
    MAX_LOAD = 4
    SRV_TIME = 1
    RATE_UNIT = 2
    CHECK_INTERVAL = 5
    Traffic <- MCTraffic
    FullRings = {1}
    PERIOD = 2
    CHANGES = 2
INVARIANT TypeOK
 
 
 
CHECK_DEADLOCK FALSE
