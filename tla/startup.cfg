SPECIFICATION FairSpec
CONSTANTS
    Lcores = {0, 1, 4, 5, 9}
    N_PORTS = 2
    D2SC_NUM_RX_THREADS = 2
    MAX_CHECK_TIME = 2
    CommandLines <- MCCommandLines
    Procs = {1, 2}
INVARIANT TypeOK
INVARIANT FindsAll
INVARIANT Staffed
INVARIANT PortsReady
PROPERTY Starts
CHECK_DEADLOCK FALSE
